-------------------------- MODULE MCSearchRequests --------------------------
(***************************************************************************)
(* Small databases, queries and requests for SearchRequests.               *)
(***************************************************************************)
EXTENDS SearchRequests

F == <<"f">>
Source(v) == Object("f" :> v)
Missing == Object(Empty)

Named(n) == [kind |-> "name", name |-> n]
Pattern(names) == [kind |-> "pattern", matches |-> names]
Everything == {}

\* The database with these indexes and documents; alias 9 stands for all of them.
Database(names, docs) ==
    [indexes |-> [n \in names |->
                     [i \in {k[2] : k \in {k \in DOMAIN docs : k[1] = n}} |-> docs[<<n, i>>]]],
     aliases |-> IF names = {} THEN Empty ELSE 9 :> names]

\* Texts are ranks in byte order: "-3" < "1" < "2" < "[2,2]" < "[{...},1]" < "x" < "xy"
\* < "{...}".
X == 6
XY == 7
Nested == Object("g" :> Number(2))
TwoTwice == Array(<<Number(2), Number(2)>>)
Mixed == Array(<<Nested, Number(1)>>)
JsonTexts == [v \in {Number(n) : n \in {-3, 1, 2}} |-> v.num]
             @@ TwoTwice :> 4 @@ Mixed :> 5 @@ Nested :> 8
Accepted == {<<X, X>>, <<XY, X>>, <<XY, XY>>}
Texts == [k \in {"match", "match_phrase", "match_phrase_prefix", "prefix", "wildcard"} |-> Accepted]

All == [kind |-> "match_all"]
Term(v) == [kind |-> "term", field |-> F, values |-> {v}]
AtLeast(n) == [kind |-> "range", field |-> F, bounds |-> "gte" :> Number(n)]
Bool(must, should, mustNot) ==
    [kind |-> "bool", must |-> must, filter |-> <<>>, should |-> should, must_not |-> mustNot,
     minimum |-> {}]
Unsupported == [kind |-> "unsupported"]
FieldExists == [kind |-> "exists", field |-> F]
NestedTwo ==
    [kind |-> "nested", path |-> "f",
     query |-> [kind |-> "term", field |-> <<"f", "g">>, values |-> {Number(2)}]]
MatchX == [kind |-> "match", field |-> F, text |-> X]
SimpleX == [kind |-> "simple_query_string", fields |-> {F}, terms |-> {X, XY}, all |-> TRUE]
NotTwo == Bool(<<>>, <<>>, <<Term(Number(2))>>)
ShouldBe == Bool(<<>>, <<Term(Number(1)), MatchX, Unsupported>>, <<>>)
Deep == Bool(<<NotTwo>>, <<>>, <<>>)

AllQueries == {All, Term(Number(1)), Term(Number(2)), AtLeast(1), Unsupported, FieldExists,
               NestedTwo, NestedTwo.query, MatchX, SimpleX, NotTwo, ShouldBe, Deep,
               [kind |-> "ids", values |-> {1}]}

Request(indices, query, sort, size) ==
    [indices |-> indices, query |-> query, sort |-> sort, cursor |-> <<>>, from |-> 0,
     size |-> size, aggs |-> FALSE, pit |-> FALSE]

Paged == {
    Request(Everything, All, <<Clause(F, FALSE)>>, 1),
    Request({Named(9)}, NotTwo, <<Clause(<<"_score">>, TRUE)>>, 1),
    Request({Named(1)}, All, <<Clause(<<"_id">>, TRUE)>>, 1),
    Request({Pattern({1, 2}), Named(2)}, FieldExists, <<Clause(F, TRUE)>>, 2),
    Request(Everything, AtLeast(1), <<>>, 1),
    Request(Everything, All, <<Clause(<<"_id">>, FALSE)>>, 2),
    Request(Everything, Unsupported, <<Clause(F, FALSE)>>, 1)}

\* Databases of no and of three documents.
NoneOrThree == {Database({1}, Empty),
                Database({1, 2}, [k \in {<<1, 1>>, <<1, 2>>, <<2, 1>>} |-> Source(Number(1))])}

\* One document that comes, goes and changes its value, one with or without
\* the field, and an index that comes and goes.
Changing ==
    {Database({1}, <<1, 2>> :> Source(Number(1)))}
    \cup {Database({1}, <<1, 1>> :> Source(Number(v)) @@ <<1, 2>> :> s) :
              v \in {1, 2}, s \in {Missing, Source(Number(1))}}
    \cup {Database({1, 2}, <<1, 1>> :> Source(Number(v)) @@ <<1, 2>> :> Source(Number(1))
                              @@ <<2, 1>> :> Source(Number(3 - v))) : v \in {1, 2}}
    \cup {Database({1, 2}, [k \in {<<1, 1>>, <<1, 2>>, <<2, 1>>} |-> Source(Number(1))])}

\* Every combination of values in three documents.
Values == {Missing} \cup {Source(v) : v \in {Number(-3), Number(2), TwoTwice, Text(XY), Mixed}}
Documents == Values \cup {Source(Number(1))}
DocumentsAndNested == Documents \cup {NestedSource(Nested, "f")}
Varied == {Database({1, 2}, <<1, 1>> :> a @@ <<1, 2>> :> b @@ <<2, 1>> :> c) :
              a \in Values, b \in Values, c \in Values}

ContextsAndPaging ==
    "contexts" :> [kinds |-> {"scroll", "pit", "task"}, databases |-> NoneOrThree,
                   maxId |-> 3, maxTime |-> 2]
    @@ "paging" :> [kinds |-> {"pit", "page"}, databases |-> Changing, maxId |-> 1, maxTime |-> 1]
    @@ "answers" :> [kinds |-> {}, databases |-> Varied, maxId |-> 0, maxTime |-> 0]

\* Clients differ in name only.
SymmetricClients == Permutations(Clients)

PitExpressions == {Everything}
OneField == {F}
=============================================================================
