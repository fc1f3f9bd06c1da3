--------------------------- MODULE SearchEvaluator ---------------------------
(***************************************************************************)
(* The search evaluator of src/search/evaluator.rs and the request limits  *)
(* of src/search/limits.rs: which documents a query selects, in which      *)
(* order they come, which window of them a request is answered, and what   *)
(* the aggregations count.  There is no state: everything is an operator   *)
(* on a database and a request.                                            *)
(*                                                                         *)
(* Index names and document ids are numbers in the order of their names.   *)
(* A JSON value is a record with one field beside its type.  A string is   *)
(* its rank among the strings in byte order; StringForm is the rank of the *)
(* JSON text of any other value among the same strings.  TextMatches       *)
(* holds, for each kind of text query, the pairs of a stored string and a  *)
(* query text that the kind accepts (contains, starts_with and             *)
(* wildcard_matches, after the lower-casing each of them does).            *)
(***************************************************************************)
EXTENDS Integers, Sequences, SequencesExt, FiniteSets, FiniteSetsExt

CONSTANTS
    IndexNames,         \* names of indexes, numbers in name order
    DocIds,             \* document ids, numbers in id order
    StringForm,         \* Value::to_string of a value that is not a string, as a rank
    TextMatches,        \* kind of text query -> pairs <<stored, text>> it accepts
    Queries,            \* the queries clients send, and their clauses
    Sources,            \* what queries look at: sources of documents, nested objects
    MaxResultWindow,    \* --max-result-window
    MaxQueryDepth,      \* MAX_QUERY_DEPTH
    MaxQueryClauses,    \* MAX_QUERY_CLAUSES
    MaxBuckets          \* MAX_BUCKETS

ASSUME NamesAssumption ==
    /\ IndexNames \subseteq Nat /\ IsFiniteSet(IndexNames)
    /\ DocIds \subseteq Nat /\ IsFiniteSet(DocIds)

ASSUME LimitsAssumption ==
    {MaxResultWindow, MaxQueryDepth, MaxQueryClauses, MaxBuckets} \subseteq Nat

ASSUME TextQueriesAssumption ==
    DOMAIN TextMatches \subseteq {"match", "match_phrase", "match_phrase_prefix", "prefix", "wildcard"}

\* The elements of a finite set in the order that a set of pairs gives them: each
\* comes behind those that are before it.
Listed(S, before) ==
    [i \in 1..Cardinality(S) |->
        CHOOSE x \in S : Cardinality({y \in S : <<y, x>> \in before}) = i - 1]

\* The elements of a sequence at some of its positions, in order.
At(s, positions) ==
    LET order == Listed(positions, {p \in positions \X positions : p[1] < p[2]})
    IN  [j \in DOMAIN order |-> s[order[j]]]

Absent == [type |-> "absent"]
Null == [type |-> "null"]
Number(n) == [type |-> "number", num |-> n]
Text(k) == [type |-> "string", str |-> k]
Array(s) == [type |-> "array", items |-> s]
Object(f) == [type |-> "object", fields |-> f]

\* value_at: a path is followed through objects only.
ValueAt(source, path) ==
    LET Get(v, name) ==
            IF v.type = "object" /\ name \in DOMAIN v.fields THEN v.fields[name] ELSE Absent
    IN  FoldLeft(Get, source, path)

\* The elements of an array, or the value itself: aggregation_values, and the
\* match on arrays in value_matches_term and value_matches_any.
Elements(v) ==
    CASE v.type = "absent" -> <<>>
      [] v.type = "array" -> v.items
      [] OTHER -> <<v>>

\* aggregation_key and sort_value_key: the string form of a value.
KeyOf(v) == IF v.type = "string" THEN v.str ELSE StringForm[v]

-----------------------------------------------------------------------------
(***************************************************************************)
(* Queries.  The outcome of a query on a document is "match", "miss" or    *)
(* "error"; an error refuses the whole search.                             *)
(***************************************************************************)

Outcome(b) == IF b THEN "match" ELSE "miss"

Order(a, b) == IF a < b THEN "less" ELSE IF a > b THEN "greater" ELSE "equal"

\* compare_values: numbers by value, strings by bytes.  A number is compared
\* with a string in its zero-padded form, which sorts before every string that
\* does not start with a digit or a sign, as those of the model.
CompareValues(actual, bound) ==
    CASE actual.type = "number" /\ bound.type = "number" -> Order(actual.num, bound.num)
      [] actual.type = "string" /\ bound.type = "string" -> Order(actual.str, bound.str)
      [] actual.type = "number" /\ bound.type = "string" -> "less"
      [] actual.type = "string" /\ bound.type = "number" -> "greater"
      [] OTHER -> "none"

Accepts(op) ==
    CASE op = "gt" -> {"greater"}
      [] op = "gte" -> {"greater", "equal"}
      [] op = "lt" -> {"less"}
      [] op = "lte" -> {"less", "equal"}

\* range_matches: every bound holds.
RangeMatches(v, bounds) ==
    \A op \in DOMAIN bounds : CompareValues(v, bounds[op]) \in Accepts(op)

\* match, match_phrase, match_phrase_prefix, prefix and wildcard on a string.
TextQueryMatches(v, kind, text) ==
    v.type = "string" /\ <<v.str, text>> \in TextMatches[kind]

\* matches_simple_query_string: some term, or with the AND operator every term,
\* occurs in the text of the fields.  (A text that is empty or * is match_all.)
SimpleQueryMatches(source, q) ==
    LET values == UNION {ToSet(Elements(ValueAt(source, f))) : f \in q.fields}
        Occurs(t) == \E v \in values :
            v.type \in {"string", "number"} /\ <<KeyOf(v), t>> \in TextMatches["match"]
    IN  IF q.all THEN q.terms # {} /\ \A t \in q.terms : Occurs(t)
        ELSE \E t \in q.terms : Occurs(t)

\* The clauses of a query.
Clauses(q) ==
    CASE q.kind = "bool" -> q.must \o q.filter \o q.should \o q.must_not
      [] q.kind = "nested" -> <<q.query>>
      [] OTHER -> <<>>

\* The clauses of a query are queries, and a query is no clause of its own, nor of
\* one of its clauses, and so on: every set of queries has one that has no clause
\* in the set.
ASSUME QueriesAreTrees ==
    /\ IsFiniteSet(Queries)
    /\ \A q \in Queries :
          /\ q.kind = "nested" => q.query \in Queries
          /\ q.kind = "bool" => {q.must, q.filter, q.should, q.must_not} \subseteq Seq(Queries)
    /\ \A S \in SUBSET Queries : S # {} => \E q \in S : ToSet(Clauses(q)) \cap S = {}

\* matches_bool: must and filter clauses in order, then must_not, each of which
\* may fail; then the should clauses, where a clause that fails is one that
\* does not match.  outcome maps the clauses to their outcomes.
BoolOutcome(q, outcome) ==
    LET required == q.must \o q.filter
        refusing == {i \in DOMAIN required : outcome[required[i]] # "match"}
        excluding == {i \in DOMAIN q.must_not : outcome[q.must_not[i]] # "miss"}
        default == IF q.should = <<>> \/ required # <<>> THEN 0 ELSE 1
        minimum == IF q.minimum = {} THEN default ELSE Max(q.minimum)
        should == Cardinality({i \in DOMAIN q.should : outcome[q.should[i]] = "match"})
    IN  CASE refusing # {} -> outcome[required[Min(refusing)]]
          [] refusing = {} /\ excluding # {} ->
                 IF outcome[q.must_not[Min(excluding)]] = "error" THEN "error" ELSE "miss"
          [] OTHER -> Outcome(should >= minimum)

\* matches_nested_query_source: the object, reachable under the path as well.
NestedSource(v, path) == Object((path :> v) @@ v.fields)

NestedValues(source, path) ==
    LET values == Elements(ValueAt(source, <<path>>))
    IN  At(values, {i \in DOMAIN values : values[i].type = "object"})

\* matches_nested_query: the first object that matches or fails decides.
\* outcomes are those of the query on each object.
NestedOutcome(source, path, outcomes) ==
    LET v == ValueAt(source, <<path>>)
        deciding == {i \in DOMAIN outcomes : outcomes[i] # "miss"}
    IN  CASE v.type = "absent" -> "miss"
          [] v.type \notin {"absent", "array", "object"} -> "error"
          [] OTHER -> IF deciding = {} THEN "miss" ELSE outcomes[Min(deciding)]

\* Queries look at nested objects, too.
ASSUME SourcesClosed ==
    \A s \in Sources : \A q \in {q \in Queries : q.kind = "nested"} :
        \A i \in DOMAIN NestedValues(s, q.path) :
            NestedSource(NestedValues(s, q.path)[i], q.path) \in Sources

\* What the outcomes m of the queries on the sources are for the nested objects and
\* for the clauses of a query.
OnNested(m, q, s) ==
    LET values == NestedValues(s, q.path)
    IN  [i \in DOMAIN values |-> m[q.query][NestedSource(values[i], q.path)]]
OnClauses(m, q, s) == [c \in ToSet(Clauses(q)) |-> m[c][s]]

\* The branches of matches_query_source.
QueryOutcome(id, q, s, nested, clauses) ==
    CASE q.kind = "match_all" -> "match"
      [] q.kind = "ids" -> Outcome(id \in q.values)
      [] q.kind \in {"term", "terms"} ->
             Outcome(\E v \in ToSet(Elements(ValueAt(s, q.field))) : v \in q.values)
      [] q.kind = "range" ->
             LET v == ValueAt(s, q.field)
             IN  Outcome(v # Absent /\ RangeMatches(v, q.bounds))
      [] q.kind = "exists" -> Outcome(ValueAt(s, q.field) # Absent)
      [] q.kind \in DOMAIN TextMatches ->
             Outcome(TextQueryMatches(ValueAt(s, q.field), q.kind, q.text))
      [] q.kind = "simple_query_string" -> Outcome(SimpleQueryMatches(s, q))
      [] q.kind = "nested" -> NestedOutcome(s, q.path, nested)
      [] q.kind = "bool" -> BoolOutcome(q, clauses)
      [] OTHER -> "error"

\* matches_query_source
MatchesQuery(source, id, query) ==
    LET m[q \in Queries] == [s \in Sources |->
            QueryOutcome(id, q, s, OnNested(m, q, s), OnClauses(m, q, s))]
    IN  m[query][source]

-----------------------------------------------------------------------------
(***************************************************************************)
(* Order.                                                                  *)
(***************************************************************************)

\* resolve_indices: an index, or what an alias stands for.
ResolveIndices(d, name) ==
    IF name \in DOMAIN d.indexes THEN {name}
    ELSE IF name \in DOMAIN d.aliases THEN d.aliases[name] ELSE {}

\* expand_indices: no expression means every index; a pattern stands for the
\* names it matches.
ExpandIndices(d, requested) ==
    IF requested = {} THEN DOMAIN d.indexes
    ELSE UNION {IF e.kind = "pattern" THEN e.matches \cap DOMAIN d.indexes
                ELSE ResolveIndices(d, e.name) : e \in requested}

\* validate_search_indices: an expression without a wildcard names something.
IndicesFound(d, requested) ==
    \A e \in requested : e.kind = "name" => ResolveIndices(d, e.name) # {}

\* The order of BTreeMap: indexes by name, their documents by id.
Lexicographic(a, b) == a[1] < b[1] \/ (a[1] = b[1] /\ a[2] < b[2])
DocKeys == IndexNames \X DocIds
DocOrder == Listed(DocKeys, {p \in DocKeys \X DocKeys : Lexicographic(p[1], p[2])})

Clause(field, desc) == [field |-> field, desc |-> desc]
ShardDoc == Clause(<<"_shard_doc">>, FALSE)

Mentions(clauses, name) == \E i \in DOMAIN clauses : clauses[i].field = <<name>>

\* Mutant: only a search without a sort gets the tie-breaker.
NeedsImplicitTiebreaker_NoSortOnly(clauses, pit) == pit /\ clauses = <<>>

\* needs_implicit_tiebreaker
NeedsImplicitTiebreaker(clauses, pit) ==
    /\ ~Mentions(clauses, "_shard_doc")
    /\ pit \/ (clauses # <<>> /\ ~Mentions(clauses, "_id"))

\* sort_clauses
SortClauses(sort, pit) ==
    IF NeedsImplicitTiebreaker(sort, pit) THEN Append(sort, ShardDoc) ELSE sort

\* sort_value; "index, unit separator, id" orders as the pair.
SortValue(hit, clause) ==
    CASE clause.field = <<"_id">> -> Text(hit.id)
      [] clause.field = <<"_score">> -> Number(1)
      [] clause.field = <<"_shard_doc">> -> Text(hit.index * (Max(DocIds) + 1) + hit.id)
      [] OTHER -> LET v == ValueAt(hit.source, clause.field)
                  IN  IF v = Absent THEN Null ELSE v

SortValues(hit, clauses) == [i \in DOMAIN clauses |-> SortValue(hit, clauses[i])]

\* compare_sort_values: null first, numbers by value, strings by bytes, and
\* values of different types by their string forms.
CompareSortValues(left, right) ==
    CASE left.type = "null" /\ right.type = "null" -> "equal"
      [] left.type = "null" /\ right.type # "null" -> "less"
      [] left.type # "null" /\ right.type = "null" -> "greater"
      [] left.type = "number" /\ right.type = "number" -> Order(left.num, right.num)
      [] OTHER -> Order(KeyOf(left), KeyOf(right))

\* An order on values of one type; on a mixture of types it need be none, as 9 is
\* less than 10, which is less than "1a", which is less than 9.
Comparable(values) ==
    /\ \A v \in values :
          v.type = "null" \/ (KeyOf(v) \in Int /\ (v.type = "number" => v.num \in Int))
    /\ \A u, v, w \in values :
          CompareSortValues(u, v) # "greater" /\ CompareSortValues(v, w) # "greater" =>
              CompareSortValues(u, w) # "greater"

Directed(order, desc) ==
    IF ~desc \/ order = "equal" THEN order ELSE IF order = "less" THEN "greater" ELSE "less"

\* The first clause that tells the values of two hits apart decides.
CompareByClauses(left, right, clauses) ==
    LET orders == [i \in DOMAIN clauses |->
                      Directed(CompareSortValues(left[i], right[i]), clauses[i].desc)]
        deciding == {i \in DOMAIN orders : orders[i] # "equal"}
    IN  IF deciding = {} THEN "equal" ELSE orders[Min(deciding)]

\* compare_hits
CompareHits(a, b, clauses) ==
    CompareByClauses(SortValues(a, clauses), SortValues(b, clauses), clauses)

\* The hit moves left past the hits it is less than until it meets one it is not
\* less than.
InsertHit(sorted, h, clauses) ==
    LET stops == {k \in DOMAIN sorted : CompareHits(h, sorted[k], clauses) # "less"}
    IN  InsertAt(sorted, Max(stops \cup {0}) + 1, h)

\* sort_by, which inserts one hit after the other on a short slice.
SortByClauses(hits, clauses) ==
    IF clauses = <<>> THEN hits
    ELSE FoldLeft(LAMBDA sorted, h : InsertHit(sorted, h, clauses), <<>>, hits)

\* search_after_values: a cursor needs a sort and one value for each clause.
CursorValid(cursor, clauses) ==
    cursor # <<>> => clauses # <<>> /\ Len(cursor) = Len(clauses)

\* Mutant: the hit the cursor was taken from is answered again.
HitIsAfter_Inclusive(hit, clauses, cursor) ==
    \/ cursor = <<>>
    \/ CompareByClauses(SortValues(hit, clauses), cursor, clauses) # "less"

\* hit_is_after_search_after
HitIsAfter(hit, clauses, cursor) ==
    \/ cursor = <<>>
    \/ CompareByClauses(SortValues(hit, clauses), cursor, clauses) = "greater"

-----------------------------------------------------------------------------
(***************************************************************************)
(* Searches.  A request has the fields indices, query, sort, cursor (the   *)
(* search_after values, empty for none), from, size, aggs and pit.         *)
(***************************************************************************)

Exists(d, key) == key[1] \in DOMAIN d.indexes /\ key[2] \in DOMAIN d.indexes[key[1]]
Hit(d, key) == [index |-> key[1], id |-> key[2], source |-> d.indexes[key[1]][key[2]]]
KeyOfHit(hit) == <<hit.index, hit.id>>
Keys(hits) == [i \in DOMAIN hits |-> KeyOfHit(hits[i])]

\* The documents of a database.
HitsOf(d) == {Hit(d, k) : k \in {k \in DocKeys : Exists(d, k)}}

\* The documents the search looks at, in order.
Scanned(d, r) ==
    LET names == ExpandIndices(d, r.indices)
        keys == At(DocOrder, {i \in DOMAIN DocOrder :
                                  DocOrder[i][1] \in names /\ Exists(d, DocOrder[i])})
    IN  [i \in DOMAIN keys |-> Hit(d, keys[i])]

Refused == [status |-> "refused"]

\* What a scan keeps, given the outcome for each hit: an error refuses it all.
Kept(hits, outcomes) ==
    IF "error" \in ToSet(outcomes) THEN Refused
    ELSE [status |-> "ok", docs |-> At(hits, {i \in DOMAIN hits : outcomes[i] = "match"})]

\* The hits that a query selects.
Select(hits, query) ==
    Kept(hits, [i \in DOMAIN hits |-> MatchesQuery(hits[i].source, hits[i].id, query)])

\* Mutant: the first hit after the offset is lost.
KeepWindow_OffByOne(hits, from, size) ==
    LET Keep(kept, i) == IF i > from + 1 /\ Len(kept) < size THEN Append(kept, hits[i]) ELSE kept
    IN  FoldLeft(Keep, <<>>, [i \in DOMAIN hits |-> i])

\* The scan of an unsorted search keeps the window only.
KeepWindow(hits, from, size) ==
    LET Keep(kept, i) == IF i > from /\ Len(kept) < size THEN Append(kept, hits[i]) ELSE kept
    IN  FoldLeft(Keep, <<>>, [i \in DOMAIN hits |-> i])

\* skip and take
Slice(hits, offset, size) == SubSeq(hits, offset + 1, Min({offset + size, Len(hits)}))

\* The hits after the cursor.
HitsAfter(hits, clauses, cursor) ==
    At(hits, {i \in DOMAIN hits : HitIsAfter(hits[i], clauses, cursor)})

\* A search sorts what it kept and takes its window of the hits after the cursor.
\* total counts every match, whatever the window and the cursor; all are the hits
\* the aggregations see.
Answer(total, all, clauses, r, offset) ==
    [status |-> "ok", total |-> total, all |-> all,
     hits |-> Slice(HitsAfter(all, clauses, r.cursor), offset, r.size)]

\* Only a search without sort and aggregations can keep its window alone.
AnswerSelected(selected, clauses, r) ==
    LET needsAll == clauses # <<>> \/ r.aggs
    IN  IF selected.status = "refused" THEN Refused
        ELSE Answer(Len(selected.docs),
                    SortByClauses(IF needsAll THEN selected.docs
                                  ELSE KeepWindow(selected.docs, r.from, r.size), clauses),
                    clauses, r, IF needsAll THEN r.from ELSE 0)

\* search
Search(d, r) ==
    LET clauses == SortClauses(r.sort, r.pit)
    IN  IF CursorValid(r.cursor, clauses)
        THEN AnswerSelected(Select(Scanned(d, r), r.query), clauses, r)
        ELSE Refused

\* What a client sends as search_after for the next page: the sort values of
\* the last hit.
CursorAfter(r, hits) == SortValues(Last(hits), SortClauses(r.sort, r.pit))

\* validate_query: the depth of a query below the top, and its clauses.
QueryDepth(query) ==
    LET depth[q \in Queries] == Max({0} \cup {depth[c] + 1 : c \in ToSet(Clauses(q))})
    IN  depth[query]

QueryClauses(query) ==
    LET count[q \in Queries] ==
            1 + FoldLeft(LAMBDA n, c : n + count[c], 0, Clauses(q))
    IN  count[query]

\* validate_request
ValidateRequest(r) ==
    /\ r.from + r.size <= MaxResultWindow
    /\ QueryDepth(r.query) <= MaxQueryDepth
    /\ QueryClauses(r.query) <= MaxQueryClauses

\* handle_count: a search of size 0, answered with its total.
Count(d, r) == Search(d, [r EXCEPT !.from = 0, !.size = 0])

\* An item of handle_msearch, validated and searched under one read lock; it may
\* have neither a pit nor a cursor.
MultiSearchItem(d, r) ==
    IF r.pit \/ r.cursor # <<>> \/ ~ValidateRequest(r) \/ ~IndicesFound(d, r.indices)
    THEN Refused
    ELSE Search(d, r)

\* matching_documents: what a by-query request or a reindex works on.
MatchingDocuments(d, r) ==
    IF IndicesFound(d, r.indices) THEN Select(Scanned(d, r), r.query) ELSE Refused

\* handle_explain on a document that is there.
Explain(d, key, query) == MatchesQuery(Hit(d, key).source, key[2], query)

-----------------------------------------------------------------------------
(***************************************************************************)
(* Aggregations over the hits of a search.  A bucket is a key and the hits *)
(* in it, on which the sub-aggregations are evaluated in turn.             *)
(***************************************************************************)

ValuesOf(hits, field) ==
    FlattenSeq([i \in DOMAIN hits |-> Elements(ValueAt(hits[i].source, field))])

\* numeric_aggregation_values
NumbersOf(hits, field) ==
    LET values == ValuesOf(hits, field)
    IN  At(values, {i \in DOMAIN values : values[i].type = "number"})

\* terms_aggregation: values with one string form share a bucket, under the
\* first of them.  A hit is in it once for each such element of its value; more
\* keys than the limit is an error.
TermKeys(hits, field) == {KeyOf(v) : v \in ToSet(ValuesOf(hits, field))}

TermBucket(hits, field, key) ==
    LET Found(values) == {j \in DOMAIN values : KeyOf(values[j]) = key}
        Times(h) == Cardinality(Found(Elements(ValueAt(h.source, field))))
        values == ValuesOf(hits, field)
    IN  [key |-> values[Min(Found(values))],
         docs |-> FlattenSeq([i \in DOMAIN hits |-> [j \in 1..Times(hits[i]) |-> hits[i]]])]

\* sort_buckets: larger buckets first, then by the JSON text of the key, where a
\* string starts with a quote and sorts before a number, an array or an object.
BucketBefore(a, b) ==
    LET Rank(v) == <<IF v.type = "string" THEN 0 ELSE 1, KeyOf(v)>>
    IN  \/ Len(a.docs) > Len(b.docs)
        \/ Len(a.docs) = Len(b.docs) /\ Lexicographic(Rank(a.key), Rank(b.key))

TermsAggregation(hits, field, size) ==
    LET keys == TermKeys(hits, field)
        buckets == {TermBucket(hits, field, k) : k \in keys}
        order == {p \in buckets \X buckets : BucketBefore(p[1], p[2])}
    IN  IF Cardinality(keys) > MaxBuckets THEN Refused
        ELSE [status |-> "ok", buckets |-> Slice(Listed(buckets, order), 0, size)]

\* Mutant: rounds towards zero instead of down.
HistogramKey_Truncates(n, interval) ==
    IF n >= 0 THEN (n \div interval) * interval ELSE -((-n) \div interval) * interval

\* histogram_aggregation: floor(value / interval) * interval.
HistogramKey(n, interval) == (n \div interval) * interval

\* Arrays are not looked into here.
HasNumber(h, field) == ValueAt(h.source, field).type = "number"

HistogramAggregation(hits, field, interval) ==
    LET numeric == At(hits, {i \in DOMAIN hits : HasNumber(hits[i], field)})
        KeyFor(h) == HistogramKey(ValueAt(h.source, field).num, interval)
        keys == {KeyFor(h) : h \in ToSet(numeric)}
    IN  IF Cardinality(keys) > MaxBuckets THEN Refused
        ELSE [status |-> "ok",
              buckets |-> {[key |-> k, docs |-> At(numeric, {i \in DOMAIN numeric :
                                                                KeyFor(numeric[i]) = k})] :
                              k \in keys}]

\* range_aggregation: from is inclusive and to exclusive; each may be left out.
InRange(n, from, to) ==
    (from = {} \/ n >= Max(from)) /\ (to = {} \/ n < Max(to))

RangeBucket(hits, field, from, to) ==
    At(hits, {i \in DOMAIN hits : /\ HasNumber(hits[i], field)
                                  /\ InRange(ValueAt(hits[i].source, field).num, from, to)})

\* missing_aggregation
MissingBucket(hits, field) ==
    At(hits, {i \in DOMAIN hits : ValueAt(hits[i].source, field) = Absent})

\* filters_aggregation: each filter is a query of its own, and may fail.
FilterBucket(hits, query) == Select(hits, query)

\* top_hits_aggregation: its own window and order over the hits of the bucket.
TopHits(hits, sort, from, size) ==
    IF from + size > MaxBuckets THEN Refused
    ELSE [status |-> "ok",
          hits |-> Slice(SortByClauses(hits, SortClauses(sort, FALSE)), from, size)]

\* metric_aggregation
Sum(numbers) == FoldLeft(LAMBDA n, v : n + v.num, 0, numbers)
Stats(hits, field) ==
    LET numbers == NumbersOf(hits, field)
        values == {v.num : v \in ToSet(numbers)}
    IN  [count |-> Len(numbers), sum |-> Sum(numbers),
         min |-> IF values = {} THEN {} ELSE {Min(values)},
         max |-> IF values = {} THEN {} ELSE {Max(values)}]
ValueCount(hits, field) == Len(ValuesOf(hits, field))
CardinalityOf(hits, field) == Cardinality(TermKeys(hits, field))
=============================================================================
