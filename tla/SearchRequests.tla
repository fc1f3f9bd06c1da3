--------------------------- MODULE SearchRequests ---------------------------
(***************************************************************************)
(* Clients that page through a search with search_after, composed with the *)
(* contexts of SearchContexts and the evaluator of SearchEvaluator: the    *)
(* search handlers of src/api/mod.rs.                                      *)
(*                                                                         *)
(* A page of the live database takes two read locks: the indices are       *)
(* validated under the first and searched under the second, and writes may *)
(* come in between, as they may between two pages.  A page of a point in   *)
(* time is read from its frozen view, if that is still there.  Every page  *)
(* but the first carries the sort values of the last hit of the page       *)
(* before it; the client stops at the first empty page.                    *)
(***************************************************************************)
EXTENDS SearchContexts

CONSTANTS
    Pagers,         \* clients that page
    PageRequests,   \* their requests, without cursor
    AggregatedFields \* the fields that aggregations are about

\* A request has the fields of a search.
IsRequest(r) ==
    r \in [indices : {r.indices}, query : {r.query}, sort : {r.sort}, cursor : {r.cursor},
           from : {r.from}, size : {r.size}, aggs : {r.aggs}, pit : BOOLEAN]

\* A client that pages asks for at least one hit, skips none, and sorts by some
\* fields; the first request has no cursor and no point in time of its own.
ASSUME PageRequestsAssumption ==
    \A r \in PageRequests :
        /\ IsRequest(r) /\ ~r.pit /\ r.cursor = <<>> /\ r.from = 0 /\ r.size \in Nat \ {0}
        /\ r.sort \in Seq(ToSet(r.sort))
        /\ \A c \in ToSet(r.sort) : c \in [field : {c.field}, desc : BOOLEAN]

\* The documents of a workload.
AllHits(w) == UNION {HitsOf(d) : d \in Workloads[w].databases}

\* The values of an aggregated field have string forms, the numbers among them
\* values.
ASSUME AggregatedValuesAssumption ==
    \A w \in DOMAIN Workloads, field \in AggregatedFields : \A h \in AllHits(w) :
        LET values == Elements(ValueAt(h.source, field))
        IN  /\ values \in Seq(ToSet(values))
            /\ \A v \in ToSet(values) :
                  KeyOf(v) \in Int /\ (v.type = "number" => v.num \in Int)

\* The values of a field that is sorted by have an order.
ASSUME SortValuesAssumption ==
    \A w \in DOMAIN Workloads, r \in PageRequests : \A c \in ToSet(r.sort) :
        Comparable({SortValue(h, c) : h \in AllHits(w)})

VARIABLE session    \* per pager: its request, and what it has been answered

searchVars == <<vars, session>>

Idle == [phase |-> "idle"]

SearchInit == Init /\ session = [p \in Pagers |-> Idle]

\* The documents that the query of a request selects.
SelectedKeys(selected) == IF selected.status = "ok" THEN ToSet(Keys(selected.docs)) ELSE {}
MatchedKeys(d, r) == SelectedKeys(Select(Scanned(d, r), r.query))

\* A first page of the live database; search_after needs a sort.  unchanged
\* counts, for each document that the search has selected and no write has
\* changed since then, how often it has been answered.
StartPaging(p) ==
    /\ "page" \in Kinds /\ session[p] = Idle
    /\ \E r \in {r \in PageRequests : r.sort # <<>>} :
        session' = [session EXCEPT ![p] =
            [phase |-> "validate", request |-> r, sent |-> <<>>,
             unchanged |-> [k \in MatchedKeys(db, r) |-> 0]]]
    /\ UNCHANGED vars

\* handle_search up to the first read lock: the limits, then the indices.
ValidatePage(p) ==
    /\ session[p].phase = "validate"
    /\ session' = [session EXCEPT ![p] =
           IF ValidateRequest(@.request) /\ IndicesFound(db, @.request.indices)
           THEN [@ EXCEPT !.phase = "search"] ELSE Idle]
    /\ UNCHANGED vars

\* The session after a page: it goes on behind the last hit, or ends.
Answered(s, answer) ==
    CASE answer.status = "refused" -> Idle
      [] answer.status = "ok" /\ answer.hits = <<>> -> [s EXCEPT !.phase = "done"]
      [] OTHER ->
             [s EXCEPT !.phase = IF s.request.pit THEN "pit" ELSE "validate",
                       !.sent = IF s.request.pit THEN @ \o Keys(answer.hits) ELSE @,
                       !.request.cursor = CursorAfter(s.request, answer.hits),
                       !.unchanged = [k \in DOMAIN @ |->
                            @[k] + Cardinality({i \in DOMAIN answer.hits :
                                                   KeyOfHit(answer.hits[i]) = k})]]

\* handle_search under the second read lock.  An index that is gone by now is
\* passed over.
SearchPage(p) ==
    /\ session[p].phase = "search"
    /\ session' = [session EXCEPT ![p] = Answered(@, Search(db, @.request))]
    /\ UNCHANGED vars

\* A first page of a point in time that is open.  The indices are those of the
\* frozen view; sent is what has been answered.
StartPitPaging(p) ==
    /\ "page" \in Kinds /\ session[p] = Idle
    /\ \E r \in PageRequests, i \in DOMAIN pits :
        session' = [session EXCEPT ![p] =
            [phase |-> "pit", request |-> [r EXCEPT !.indices = {}, !.pit = TRUE],
             pit |-> i, view |-> pits[i].view, sent |-> <<>>, unchanged |-> Empty]]
    /\ UNCHANGED vars

\* handle_search with a pit: pit_database, then a search of the view.
SearchPitPage(p) ==
    /\ session[p].phase = "pit"
    /\ PitDatabase(session[p].pit)
    /\ session' = [session EXCEPT ![p] =
           IF ValidateRequest(@.request) /\ @.pit \in DOMAIN LivePits
           THEN Answered(@, Search(pits[@.pit].view, @.request)) ELSE Idle]
    /\ UNCHANGED <<workload, now, db, nextId, scrolls, tasks, request, trace>>

\* The client has its empty page and forgets the search.
FinishPaging(p) ==
    /\ session[p].phase = "done"
    /\ session' = [session EXCEPT ![p] = Idle]
    /\ UNCHANGED vars

\* The documents that are the same in two databases.
SameIn(d, e) == {k \in ToSet(DocOrder) : Exists(d, k) /\ Exists(e, k) /\ Hit(d, k) = Hit(e, k)}

\* Other requests write to the store.
WriteDuringSearch ==
    /\ WriteStore
    /\ session' = [p \in Pagers |->
           IF session[p] = Idle THEN Idle
           ELSE [session[p] EXCEPT !.unchanged =
                     Keep(@, SameIn(db, db') \cap MatchedKeys(db', session[p].request))]]

ContextStep ==
    \/ \E c \in Clients : SearchScroll(c) \/ InsertScroll(c) \/ SnapshotPit(c) \/ InsertPit(c)
    \/ \E i \in Ids : NextScroll(i) \/ SearchPit(i)
    \/ ClearScrolls \/ ListPits \/ DeletePits \/ DeleteAllPits \/ RecordTask \/ Tick

SearchNext ==
    \/ ContextStep /\ UNCHANGED session
    \/ WriteDuringSearch
    \/ \E p \in Pagers :
           \/ StartPaging(p) \/ ValidatePage(p) \/ SearchPage(p)
           \/ StartPitPaging(p) \/ SearchPitPage(p) \/ FinishPaging(p)

SearchSpec == SearchInit /\ [][SearchNext]_searchVars

-----------------------------------------------------------------------------
\* The hits come in the order the request asks for, whatever breaks its ties.
InOrder(hits, sort) ==
    \A i, j \in DOMAIN hits : i < j =>
        CompareByClauses(SortValues(hits[i], sort), SortValues(hits[j], sort), sort) # "greater"

\* Paging a point in time (handle_search with a pit) answers the documents of
\* the frozen view that the query selects, each once and in order, and all of
\* them when the client sees the empty page, whatever was written, opened or
\* refreshed in between.  The values of a field that is sorted by are all numbers
\* or missing, here and below: compare_sort_values compares a number and a
\* string by their texts, which is no order on a mixture.
PitPagesPartition ==
    \A p \in Pagers :
        LET s == session[p]
        IN  s.phase \in {"pit", "done"} /\ s.request.pit =>
            /\ IsInjective(s.sent)
            /\ InOrder([i \in DOMAIN s.sent |-> Hit(s.view, s.sent[i])], s.request.sort)
            /\ ToSet(s.sent) \subseteq MatchedKeys(s.view, s.request)
            /\ s.phase = "done" => ToSet(s.sent) = MatchedKeys(s.view, s.request)

\* The request sorts by _id although it does not name a single index.
SortsSeveralById(r) ==
    /\ Mentions(r.sort, "_id") /\ ~Mentions(r.sort, "_shard_doc")
    /\ \A n \in IndexNames :
          r.indices = {[kind |-> "name", name |-> n]} =>
              \E d \in Databases : n \in DOMAIN d.aliases

\* Paging the live database (handle_search, search_after) answers every document
\* that the search selects from the first page on and that no write changes
\* meanwhile at most once, and exactly once when the client sees the empty page;
\* although documents were added, changed and deleted and indices came and
\* went between the pages and between the two read locks of a page.  A sort by
\* _id over several indexes is excepted: needs_implicit_tiebreaker gives it no
\* tie-breaker, and a page that ends between two documents with one id loses the
\* second.
LivePagesComplete ==
    \A p \in Pagers :
        LET s == session[p]
        IN  s.phase # "idle" /\ ~s.request.pit /\ ~SortsSeveralById(s.request) =>
                \A k \in DOMAIN s.unchanged :
                    /\ s.unchanged[k] <= 1
                    /\ s.phase = "done" => s.unchanged[k] = 1

-----------------------------------------------------------------------------
\* What a search answers depends on the database alone, so the two properties
\* below are checked before any context is opened; every database comes by then.
Quiet == nextId = 0 /\ now = 0 /\ \A p \in Pagers : session[p] = Idle

\* n is the bool query that excludes c and nothing else.
IsNegation(n, c) ==
    /\ n.kind = "bool" /\ n.must_not = <<c>> /\ n.minimum = {}
    /\ n.must = <<>> /\ n.filter = <<>> /\ n.should = <<>>

Plain(q, from, size) == [SearchAll(size) EXCEPT !.query = q, !.from = from]

Reversed(sort) == [i \in DOMAIN sort |-> [sort[i] EXCEPT !.desc = ~@]]

\* The parts of ReadersAgree, on what the readers answer.
SameAnswers(answers) ==
    \A a, b \in answers :
        /\ a.status = b.status
        /\ a.status = "ok" => a.hits = b.hits /\ a.total = b.total

SameDocuments(q, search, count, byQuery) ==
    /\ {count.status, byQuery.status} = {search.status}
    /\ search.status = "ok" =>
          /\ count.total = Len(search.all) /\ byQuery.docs = search.all
          /\ ToSet(Keys(search.all)) =
                 {k \in ToSet(DocOrder) : Exists(db, k) /\ Explain(db, k, q) = "match"}

SameWindow(r, from, search, reversed) ==
    search.status = "ok" /\ from + r.size <= MaxBuckets =>
        TopHits(reversed.all, r.sort, from, r.size).hits = search.hits

\* The readers of the evaluator agree.  An unsorted search that keeps only its
\* window during the scan, the same search with aggregations, which keeps every
\* hit and cuts the window afterwards, an item of _msearch, and the search of a
\* point in time, which sorts by _shard_doc, answer the same hits, total or
\* refusal; _count answers their total; a by-query request works on the
\* documents that the search selects, and _explain calls just these matched; a
\* sorted window is the one that a top_hits aggregation with that sort cuts from
\* the hits in the opposite order.
ReadersAgree ==
    Quiet => \A q \in Queries :
        /\ \A from, size \in 0..2 : ValidateRequest(Plain(q, from, size)) =>
            SameAnswers({Search(db, Plain(q, from, size)),
                         Search(db, [Plain(q, from, size) EXCEPT !.aggs = TRUE]),
                         Search(PitSnapshot({}), [Plain(q, from, size) EXCEPT !.pit = TRUE]),
                         MultiSearchItem(db, Plain(q, from, size))})
        /\ SameDocuments(q, Search(db, [Plain(q, 0, 0) EXCEPT !.aggs = TRUE]),
                         Count(db, Plain(q, 0, 0)), MatchingDocuments(db, Plain(q, 0, 0)))
        /\ \A r \in {r \in PageRequests : r.sort # <<>>}, from \in 0..2 :
            SameWindow(r, from, Search(db, [r EXCEPT !.query = q, !.from = from]),
                       Search(db, [r EXCEPT !.query = q, !.aggs = TRUE,
                                            !.sort = Reversed(r.sort)]))

\* The parts of AggregationsAgree, on the hits of one search.  A terms bucket holds
\* the values with one string form; a term query looks for one of them.
OneForm(hits, field, key) ==
    \A v \in ToSet(ValuesOf(hits, field)) : KeyOf(v) = KeyOf(key) => v = key

TermsAgree(hits, field, terms) ==
    terms.status = "ok" =>
        /\ CardinalityOf(hits, field) = Len(terms.buckets)
        /\ ValueCount(hits, field) = FoldLeft(LAMBDA n, b : n + Len(b.docs), 0, terms.buckets)
        /\ \A b \in ToSet(terms.buckets), c \in Queries :
               /\ c.kind = "term" /\ c.field = field /\ c.values = {b.key}
               /\ OneForm(hits, field, b.key)
               => ToSet(FilterBucket(hits, c).docs) = ToSet(b.docs)

HistogramAgrees(hits, field, histogram) ==
    histogram.status = "ok" => \A b \in histogram.buckets :
        b.docs = RangeBucket(hits, field, {b.key}, {b.key + 2})

Partition(hits, field, part, rest) ==
    /\ ToSet(hits) = ToSet(part) \cup ToSet(rest)
    /\ Len(hits) = Len(part) + Len(rest)
    /\ Stats(hits, field).sum = Stats(part, field).sum + Stats(rest, field).sum

\* A filter that fails makes no bucket.
FiltersPart(hits, field, filter, negation) ==
    filter.status = "ok" => Partition(hits, field, filter.docs, negation.docs)

BucketsAgree(search, field) ==
    search.status = "ok" =>
        /\ TermsAgree(search.all, field, TermsAggregation(search.all, field, MaxBuckets))
        /\ HistogramAgrees(search.all, field, HistogramAggregation(search.all, field, 2))
        /\ \A c \in Queries : c.kind = "exists" /\ c.field = field =>
               Partition(search.all, field, MissingBucket(search.all, field),
                         FilterBucket(search.all, c).docs)
        /\ \A c, n \in Queries : IsNegation(n, c) =>
               FiltersPart(search.all, field, FilterBucket(search.all, c),
                           FilterBucket(search.all, n))

\* The aggregations agree with each other and with the queries on the documents
\* that a search selects, arrays, missing values and negative numbers included:
\* the terms buckets hold each value once (value_count, cardinality) and name the
\* documents that a filter on the bucket's term selects; missing and an exists
\* filter part the documents, as do a filter and its must_not; a histogram bucket
\* holds what the range from its key to the next holds; and metrics add up over
\* a partition.
AggregationsAgree ==
    Quiet => \A field \in AggregatedFields, q \in Queries :
        BucketsAgree(Search(db, [Plain(q, 0, 0) EXCEPT !.aggs = TRUE]), field)
=============================================================================
