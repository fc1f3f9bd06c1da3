-------------------------- MODULE SearchContexts --------------------------
(***************************************************************************)
(* The process-local search contexts of src/runtime.rs, with the handlers  *)
(* of src/api/mod.rs that drive them: scroll cursors, points in time and   *)
(* completed tasks.                                                        *)
(*                                                                         *)
(* A request that opens a context works in two steps.  It reads the store  *)
(* and takes an id without holding the runtime lock, then takes the lock,  *)
(* purges what expired, makes room, and inserts.  Other requests, writes   *)
(* to the store and the clock may come in between.  Every other operation  *)
(* holds the lock from its first read to its last write.                   *)
(*                                                                         *)
(* The store holds one of the databases of a workload, and what a scroll   *)
(* captures is what the search evaluator answers.  A retained hit counts   *)
(* one byte and the rest of a cursor one more; a frozen database counts    *)
(* one byte for each document.                                             *)
(***************************************************************************)
EXTENDS SearchEvaluator

CONSTANTS
    Clients,        \* threads that open contexts
    Workloads,      \* what a run exercises, see below
    PitIndices,     \* the index expressions that points in time are opened on
    Sizes,          \* the size parameter of scroll searches; 0 is legal
    CaptureSize,    \* min(max_result_window, MAX_SCROLL_RETAINED_HITS)
    MaxScrolls,     \* MAX_SCROLL_CONTEXTS
    ScrollBudget,   \* min(memory_limit_bytes, MAX_SCROLL_RETAINED_BYTES)
    ScrollTtl,      \* SCROLL_TTL, in ticks
    MaxPits,        \* MAX_PIT_CONTEXTS
    PitBudget,      \* min(memory limit, MAX_PIT_RETAINED_BYTES)
    KeepAlives,     \* keep_alive parameters, in ticks; 0 is refused
    MaxId,          \* bound: runtime ids handed out
    MaxTime         \* bound: ticks

\* A workload has a name, the kinds of operations clients send ("scroll", "pit",
\* "task", "page"), the databases that writes leave behind, and how many runtime
\* ids are handed out and ticks pass.
ASSUME ContextsAssumption ==
    /\ \A w \in DOMAIN Workloads :
          Workloads[w].maxId \in 0..MaxId /\ Workloads[w].maxTime \in 0..MaxTime
    /\ Sizes \subseteq Nat /\ KeepAlives \subseteq Nat
    /\ CaptureSize \in Nat /\ MaxScrolls \in Nat \ {0} /\ MaxPits \in Nat
    /\ ScrollBudget \in Nat /\ PitBudget \in Nat /\ ScrollTtl \in Nat
    /\ MaxId \in Nat /\ MaxTime \in Nat

Ids == 1..MaxId
Empty == [i \in {} |-> i]
Put(f, k, v) == [x \in DOMAIN f \cup {k} |-> IF x = k THEN v ELSE f[x]]
Keep(f, ks) == Restrict(f, DOMAIN f \cap ks)

VARIABLES
    workload,   \* what this behaviour exercises
    now,        \* the clock
    db,         \* the database of the store
    nextId,     \* RuntimeState.next_id
    scrolls,    \* RuntimeInner.scrolls: id -> ScrollCursor
    pits,       \* RuntimeInner.pits: id -> PitContext
    tasks,      \* RuntimeInner.tasks: ids
    request,    \* per client: the context it is about to insert
    trace       \* history: what each open scroll captured and has answered

vars == <<workload, now, db, nextId, scrolls, pits, tasks, request, trace>>

Kinds == Workloads[workload].kinds
Databases == Workloads[workload].databases

Nothing == [kind |-> "nothing"]

Init ==
    /\ workload \in DOMAIN Workloads
    /\ now = 0
    /\ db \in Databases
    /\ nextId = 0
    /\ scrolls = Empty
    /\ pits = Empty
    /\ tasks = {}
    /\ request = [c \in Clients |-> Nothing]
    /\ trace = Empty

-----------------------------------------------------------------------------
(***************************************************************************)
(* The helpers of runtime.rs.                                              *)
(***************************************************************************)

MaxOf(a, b) == IF a >= b THEN a ELSE b
MinOf(a, b) == IF a <= b THEN a ELSE b

\* One page of hits from a position, and the position after it.
PageEnd(hits, position, batch) == MinOf(position + batch, Len(hits))

\* Mutant: every page after the first starts one hit late.
Page_SkipsOne(hits, position, batch) ==
    SubSeq(hits, position + (IF position > 0 THEN 2 ELSE 1), PageEnd(hits, position, batch))

Page(hits, position, batch) == SubSeq(hits, position + 1, PageEnd(hits, position, batch))

BatchSize(size) == MaxOf(size, 1)

\* Mutant: the id is the number of open contexts plus one.
NewId_CountsOpen == Cardinality(DOMAIN scrolls \cup DOMAIN pits \cup tasks) + 1

\* next_runtime_id: fetch_add on a counter shared by every kind of context.  The
\* kind, which the code makes the prefix of the id, is here the table it is for.
NewId == nextId + 1

\* parse_keep_alive
Durations == KeepAlives \ {0}

\* scroll_capture_size: the hits a scroll search asks for; never less than a page.
ScrollCaptureSize(size) == MaxOf(CaptureSize, BatchSize(size))

\* scroll_ids_from_request and pit_ids_from_request: some ids, open or not.
RequestedIds == SUBSET Ids \ {{}}

ScrollBytes(hits) == Len(hits) + 1

TotalBytes(contexts) ==
    MapThenSumSet(LAMBDA i : contexts[i].bytes, DOMAIN contexts)

ScrollLive(i) == now - scrolls[i].lastAccessed < ScrollTtl
PitLive(i) == pits[i].expires > now

\* Mutant: the operation does not purge first.
LiveScrolls_Stale == scrolls

LiveScrolls == Keep(scrolls, {i \in DOMAIN scrolls : ScrollLive(i)})
LivePits == Keep(pits, {i \in DOMAIN pits : PitLive(i)})

\* Mutant: only the number of contexts is limited.
ScrollsFit_CountOnly(contexts, bytes) == Cardinality(DOMAIN contexts) < MaxScrolls

ScrollsFit(contexts, bytes) ==
    /\ Cardinality(DOMAIN contexts) < MaxScrolls
    /\ TotalBytes(contexts) + bytes <= ScrollBudget

Oldest(contexts, ids) ==
    CHOOSE i \in ids : \A j \in ids :
        \/ contexts[i].lastAccessed < contexts[j].lastAccessed
        \/ contexts[i].lastAccessed = contexts[j].lastAccessed /\ i <= j

\* Drops the least recently used cursor until the new one fits.
EvictForBudget(contexts, bytes) ==
    LET evict[ids \in SUBSET DOMAIN contexts] ==
            IF ids = {} \/ ScrollsFit(Keep(contexts, ids), bytes)
            THEN Keep(contexts, ids)
            ELSE evict[ids \ {Oldest(contexts, ids)}]
    IN evict[DOMAIN contexts]

-----------------------------------------------------------------------------
(***************************************************************************)
(* Scrolls.                                                                *)
(***************************************************************************)

\* A search of every document, as it comes.
SearchAll(size) ==
    [indices |-> {}, query |-> [kind |-> "match_all"], sort |-> <<>>, cursor |-> <<>>,
     from |-> 0, size |-> size, aggs |-> FALSE, pit |-> FALSE]

\* The hits of a scroll search of a database.
CapturedHits(d, size) == Keys(Search(d, SearchAll(ScrollCaptureSize(size))).hits)

\* The databases hold the named indexes and documents; the search of every document
\* is one that clients send.
ASSUME DatabasesAssumption ==
    /\ SearchAll(0).query \in Queries
    /\ \A w \in DOMAIN Workloads : \A d \in Workloads[w].databases :
          /\ DOMAIN d.indexes \subseteq IndexNames
          /\ \A n \in DOMAIN d.indexes :
                DOMAIN d.indexes[n] \subseteq DocIds /\ \A i \in DOMAIN d.indexes[n] : d.indexes[n][i] \in Sources

\* What is left to insert once the first page is cut off; a scroll that alone
\* exceeds the budget is refused.
ScrollRequest(id, hits, batch) ==
    LET rest == SubSeq(hits, PageEnd(hits, 0, batch) + 1, Len(hits))
    IN  IF ScrollBytes(rest) > ScrollBudget THEN Nothing
        ELSE [kind |-> "scroll", id |-> id, hits |-> hits, rest |-> rest, batch |-> batch,
              lastAccessed |-> now]

\* handle_search with a scroll parameter, up to the lock in create_scroll: the
\* hits are read and an id is taken.
SearchScroll(c) ==
    /\ "scroll" \in Kinds /\ request[c] = Nothing /\ nextId < Workloads[workload].maxId
    /\ nextId' = NewId
    /\ \E size \in Sizes :
        request' = [request EXCEPT ![c] =
                        ScrollRequest(nextId', CapturedHits(db, size), BatchSize(size))]
    /\ UNCHANGED <<workload, now, db, scrolls, pits, tasks, trace>>

\* create_scroll under the lock.
InsertScroll(c) ==
    LET r == request[c]
        kept == EvictForBudget(LiveScrolls, ScrollBytes(r.rest))
        cursor == [hits |-> r.rest, position |-> 0, batch |-> r.batch,
                   lastAccessed |-> r.lastAccessed, bytes |-> ScrollBytes(r.rest),
                   terminal |-> r.rest = <<>>]
        accepted == ScrollsFit(kept, cursor.bytes)
    IN  /\ r.kind = "scroll"
        /\ request' = [request EXCEPT ![c] = Nothing]
        /\ scrolls' = IF accepted THEN Put(kept, r.id, cursor) ELSE kept
        /\ trace' = Keep(Put(trace, r.id, [captured |-> r.hits,
                                           served |-> Page(r.hits, 0, r.batch)]),
                         DOMAIN scrolls')
        /\ UNCHANGED <<workload, now, db, nextId, pits, tasks>>

\* The cursor after next_scroll has answered a page.
Advanced(cursor) ==
    LET end == PageEnd(cursor.hits, cursor.position, cursor.batch)
        touched == [cursor EXCEPT !.lastAccessed = now]
    IN  IF end >= Len(cursor.hits)
        THEN [touched EXCEPT !.terminal = TRUE, !.hits = <<>>, !.position = 0,
                             !.bytes = ScrollBytes(<<>>)]
        ELSE [touched EXCEPT !.position = end]

\* next_scroll: the next page; or the one empty page that ends the scroll; or,
\* for an id that is not open, nothing.
NextScroll(i) ==
    /\ "scroll" \in Kinds
    /\ IF i \in DOMAIN LiveScrolls /\ ~scrolls[i].terminal
       THEN LET cursor == scrolls[i]
                page == Page(cursor.hits, cursor.position, cursor.batch)
            IN  /\ scrolls' = [LiveScrolls EXCEPT ![i] = Advanced(cursor)]
                /\ trace' = Keep([trace EXCEPT ![i].served = @ \o page], DOMAIN scrolls')
       ELSE /\ scrolls' = Keep(LiveScrolls, Ids \ {i})
            /\ trace' = Keep(trace, DOMAIN scrolls')
    /\ UNCHANGED <<workload, now, db, nextId, pits, tasks, request>>

\* clear_scrolls: ids that are not open are ignored.
Cleared(ids) == Keep(LiveScrolls, Ids \ ids)

\* handle_clear_scroll
ClearScrolls ==
    /\ "scroll" \in Kinds
    /\ \E ids \in RequestedIds : scrolls' = Cleared(ids)
    /\ trace' = Keep(trace, DOMAIN scrolls')
    /\ UNCHANGED <<workload, now, db, nextId, pits, tasks, request>>

-----------------------------------------------------------------------------
(***************************************************************************)
(* Points in time.                                                         *)
(***************************************************************************)

\* pit_snapshot: a copy of the indices the request names, under the read lock.
PitSnapshot(requested) ==
    LET names == ExpandIndices(db, requested)
    IN  [indexes |-> Keep(db.indexes, names),
         aliases |-> [a \in {a \in DOMAIN db.aliases : db.aliases[a] \cap names # {}} |->
                         db.aliases[a] \cap names]]

\* estimate_database_bytes
PitBytes(view) == MapThenSumSet(LAMBDA n : Cardinality(DOMAIN view.indexes[n]), DOMAIN view.indexes)

\* POST point_in_time: a name that stands for nothing is refused, and so is a
\* copy that alone exceeds the budget, before an id is taken.
SnapshotPit(c) ==
    /\ "pit" \in Kinds /\ request[c] = Nothing /\ nextId < Workloads[workload].maxId
    /\ nextId' = NewId
    /\ \E keepAlive \in Durations, requested \in PitIndices :
        /\ IndicesFound(db, requested)
        /\ PitBytes(PitSnapshot(requested)) <= PitBudget
        /\ request' = [request EXCEPT ![c] =
               [kind |-> "pit", id |-> nextId', view |-> PitSnapshot(requested),
                keepAlive |-> keepAlive]]
    /\ UNCHANGED <<workload, now, db, scrolls, pits, tasks, trace>>

\* Mutant: a full table makes room by dropping its points in time.
AdmitPit_Evicts(contexts, bytes) ==
    IF Cardinality(DOMAIN contexts) < MaxPits /\ TotalBytes(contexts) + bytes <= PitBudget
    THEN [admitted |-> TRUE, kept |-> contexts]
    ELSE [admitted |-> TRUE, kept |-> Empty]

\* The limits of create_pit: a full table refuses, it never evicts.
AdmitPit(contexts, bytes) ==
    [admitted |-> /\ Cardinality(DOMAIN contexts) < MaxPits
                  /\ TotalBytes(contexts) + bytes <= PitBudget,
     kept |-> contexts]

\* create_pit under the lock.
InsertPit(c) ==
    LET r == request[c]
        bytes == PitBytes(r.view)
        admit == AdmitPit(LivePits, bytes)
    IN  /\ r.kind = "pit"
        /\ request' = [request EXCEPT ![c] = Nothing]
        /\ pits' = IF admit.admitted
                   THEN Put(admit.kept, r.id, [view |-> r.view, bytes |-> bytes,
                                               keepAlive |-> r.keepAlive,
                                               expires |-> now + r.keepAlive])
                   ELSE admit.kept
        /\ UNCHANGED <<workload, now, db, nextId, scrolls, tasks, trace>>

\* pit_database: purges, refreshes the expiry when the request carries a
\* keep_alive, and hands out the frozen view, if there is one.
PitDatabase(i) ==
    \/ pits' = LivePits
    \/ \E keepAlive \in Durations :
           /\ i \in DOMAIN LivePits
           /\ pits' = [LivePits EXCEPT ![i].keepAlive = keepAlive,
                                       ![i].expires = now + keepAlive]

\* handle_search with a pit in the body.
SearchPit(i) ==
    /\ "pit" \in Kinds
    /\ PitDatabase(i)
    /\ UNCHANGED <<workload, now, db, nextId, scrolls, tasks, request, trace>>

ListPits ==
    /\ "pit" \in Kinds
    /\ pits' = LivePits
    /\ UNCHANGED <<workload, now, db, nextId, scrolls, tasks, request, trace>>

DeletePits ==
    /\ "pit" \in Kinds
    /\ \E ids \in RequestedIds : pits' = Keep(LivePits, Ids \ ids)
    /\ UNCHANGED <<workload, now, db, nextId, scrolls, tasks, request, trace>>

DeleteAllPits ==
    /\ "pit" \in Kinds
    /\ pits' = Empty
    /\ UNCHANGED <<workload, now, db, nextId, scrolls, tasks, request, trace>>

-----------------------------------------------------------------------------
(***************************************************************************)
(* Tasks, the store and the clock.                                         *)
(***************************************************************************)

\* record_completed_task: a reindex with wait_for_completion=false.
RecordTask ==
    /\ "task" \in Kinds /\ nextId < Workloads[workload].maxId
    /\ nextId' = NewId
    /\ tasks' = tasks \cup {nextId'}
    /\ UNCHANGED <<workload, now, db, scrolls, pits, request, trace>>

\* Other requests write to the store.
WriteStore ==
    /\ db' \in Databases
    /\ UNCHANGED <<workload, now, nextId, scrolls, pits, tasks, request, trace>>

Tick ==
    /\ now < Workloads[workload].maxTime
    /\ now' = now + 1
    /\ UNCHANGED <<workload, db, nextId, scrolls, pits, tasks, request, trace>>

Next ==
    \/ \E c \in Clients : SearchScroll(c) \/ InsertScroll(c) \/ SnapshotPit(c) \/ InsertPit(c)
    \/ \E i \in Ids : NextScroll(i) \/ SearchPit(i)
    \/ ClearScrolls \/ ListPits \/ DeletePits \/ DeleteAllPits \/ RecordTask \/ WriteStore \/ Tick

Spec == Init /\ [][Next]_vars

-----------------------------------------------------------------------------
Cursors ==
    [hits : Seq(ToSet(DocOrder)), position : 0..Len(DocOrder), batch : Nat \ {0}, lastAccessed : 0..MaxTime,
     bytes : 0..ScrollBudget, terminal : BOOLEAN]

ScrollRequests ==
    [kind : {"scroll"}, id : 1..nextId, hits : Seq(ToSet(DocOrder)),
     rest : Seq(ToSet(DocOrder)), batch : Nat \ {0}, lastAccessed : 0..MaxTime]

\* Contexts, tasks and the requests between their two steps have their types.
TypeOK ==
    /\ workload \in DOMAIN Workloads /\ db \in Databases
    /\ now \in 0..MaxTime /\ nextId \in 0..Workloads[workload].maxId
    /\ DOMAIN scrolls \subseteq 1..nextId /\ DOMAIN pits \subseteq 1..nextId
    /\ \A i \in DOMAIN scrolls : scrolls[i] \in Cursors
    /\ \A i \in DOMAIN pits :
          /\ DOMAIN pits[i].view.indexes \subseteq IndexNames
          /\ pits[i].bytes \in 0..PitBudget /\ pits[i].keepAlive \in Durations
          /\ pits[i].expires \in Nat
    /\ tasks \subseteq 1..nextId
    /\ DOMAIN trace = DOMAIN scrolls
    /\ DOMAIN request = Clients
    /\ \A c \in Clients :
          LET r == request[c]
          IN  \/ r = Nothing
              \/ r \in ScrollRequests
              \/ /\ r.kind = "pit" /\ r.id \in 1..nextId
                 /\ DOMAIN r.view.indexes \subseteq IndexNames /\ r.keepAlive \in Durations

\* The ids of a kind that stand for a context, or for one about to be inserted.
Open(kind) ==
    CASE kind = "scroll" -> DOMAIN scrolls
      [] kind = "pit"    -> DOMAIN pits
      [] kind = "task"   -> tasks
Held(kind) == {request[c].id : c \in {d \in Clients : request[d].kind = kind}}

IdKinds == {"scroll", "pit", "task"}

\* An id that was handed out and is out of use stays so, and an insertion finds
\* neither a context of its id nor another request that holds it.
StaysOut(kind) ==
    \A i \in 1..nextId \ (Open(kind) \cup Held(kind)) : i \notin Open(kind)' \cup Held(kind)'

InsertsAlone(kind) ==
    \A c \in Clients : request[c].kind = kind /\ request'[c] = Nothing =>
        /\ request[c].id \notin Open(kind)
        /\ \A d \in Clients \ {c} : request[d].kind = kind => request[d].id # request[c].id

\* An id never comes to stand for something else: what was cleared, evicted, refused
\* or has expired stays unknown, so that a client that kept its id is never answered
\* from the context of another client; and the requests that take their ids before
\* the lock (next_runtime_id) insert where nothing is and nobody else will insert.
IdsNotReused == [][\A kind \in IdKinds : StaysOut(kind) /\ InsertsAlone(kind)]_vars

\* The pages a scroll has answered, followed by what its cursor still holds,
\* are exactly the hits its search captured, whatever was written, evicted or
\* cleared since; and the empty page that ends a scroll (next_scroll's
\* terminal_empty_pending) is due only when every captured hit was answered.
PagesPartitionHits ==
    \A i \in DOMAIN scrolls :
        LET c == scrolls[i]
            remaining == SubSeq(c.hits, c.position + 1, Len(c.hits))
        IN  /\ trace[i].served \o remaining = trace[i].captured
            /\ c.terminal <=> trace[i].served = trace[i].captured

\* What the contexts retain stays within both limits of each kind
\* (create_scroll and create_pit), and a cursor accounts for what it holds.
BudgetsHold ==
    /\ Cardinality(DOMAIN scrolls) <= MaxScrolls /\ TotalBytes(scrolls) <= ScrollBudget
    /\ Cardinality(DOMAIN pits) <= MaxPits /\ TotalBytes(pits) <= PitBudget
    /\ \A i \in DOMAIN scrolls : scrolls[i].bytes = ScrollBytes(scrolls[i].hits)

\* Opening a context takes nothing from others that it need not take.
\* create_scroll evicts in least-recently-used order and no more than it needs,
\* and never evicts in vain: once it evicts, the new cursor is inserted, so the
\* second 429 of create_scroll is unreachable.  create_pit never costs another
\* client its point in time: only an expired one leaves the table.
AdmissionJustified ==
    [][\A c \in Clients :
        /\ request[c].kind = "scroll" /\ request'[c] = Nothing =>
            LET evicted == DOMAIN LiveScrolls \ DOMAIN scrolls'
                kept == DOMAIN LiveScrolls \cap DOMAIN scrolls'
                bytes == ScrollBytes(request[c].rest)
            IN  /\ request[c].id \in DOMAIN scrolls'
                /\ \A i \in evicted, j \in kept :
                      scrolls[i].lastAccessed <= scrolls[j].lastAccessed
                /\ evicted # {} =>
                      \E i \in evicted : ~ScrollsFit(Keep(scrolls, kept \cup {i}), bytes)
        /\ request[c].kind = "pit" /\ request'[c] = Nothing =>
            \A i \in DOMAIN pits \ DOMAIN pits' : ~PitLive(i)]_vars

\* A context that has expired is never used again: no page is answered from it,
\* and neither access nor keep_alive revives it (purge_expired_scrolls and
\* purge_expired_pits run before every look-up).
ExpiredNotRevived ==
    [][/\ \A i \in DOMAIN scrolls : ~ScrollLive(i) =>
            (i \in DOMAIN scrolls' => scrolls'[i] = scrolls[i] /\ trace'[i] = trace[i])
       /\ \A i \in DOMAIN pits : ~PitLive(i) =>
            (i \in DOMAIN pits' => pits'[i] = pits[i])]_vars
=============================================================================
