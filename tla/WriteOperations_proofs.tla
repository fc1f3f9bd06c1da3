------------------------- MODULE WriteOperations_proofs -------------------------
(***************************************************************************)
(* The invariants of the write requests, proved for all names, ids,        *)
(* objects, limits and requests.                                           *)
(***************************************************************************)
EXTENDS WriteOperations, Database_proofs

-----------------------------------------------------------------------------
(* The folds of the requests.  A set that every step of a fold stays in    *)
(* holds its result.                                                       *)

LEMMA CommitFold ==
    ASSUME NEW R, NEW M, \A r \in R, m \in M : CommitOne(r, m) \in R,
           NEW base \in R, NEW ms \in Seq(M)
    PROVE  /\ FoldsTo(R, [p \in R \X M |-> CommitOne(p[1], p[2])], base, ms,
                      FoldLeft(CommitOne, base, ms))
           /\ FoldLeft(CommitOne, base, ms) \in R
<1> DEFINE F == [p \in R \X M |-> CommitOne(p[1], p[2])]
           Step(f, s) == CommitOne(f[s \ {Max(s)}], ms[Max(s)])
           W(f) == [s \in SUBSET DOMAIN ms |-> IF s = {} THEN base ELSE Step(f, s)]
           it == CHOOSE f : f = W(f)
<1>1. FoldLeft(CommitOne, base, ms) = it[DOMAIN ms]
  BY DEF FoldLeft, MapThenFoldSet
<1>2. F \in [R \X M -> R] /\ \A r \in R, m \in M : F[<<r, m>>] = CommitOne(r, m)
  OBVIOUS
<1>3. ASSUME NEW s \in SUBSET DOMAIN ms, s # {}
      PROVE  ms[Max(s)] \in M /\ s \ {Max(s)} \in SUBSET DOMAIN ms
  BY <1>3, LastElement
<1> HIDE DEF F
<1>4. PICK f \in [SUBSET DOMAIN ms -> R] : SolvesFold(f, F, base, ms)
  BY <1>2, FoldSolution
<1>5. f = W(f)
  BY <1>2, <1>3, <1>4 DEF SolvesFold
<1>6. it = W(it)
  BY <1>5
<1> HIDE DEF it
<1>7. FoldsTo(R, F, base, ms, it[DOMAIN ms])
  <2>1. it[{}] = base
    BY <1>6
  <2>2. ASSUME NEW s \in SUBSET DOMAIN ms, s # {}, it[s \ {Max(s)}] \in R
        PROVE  it[s] = F[<<it[s \ {Max(s)}], ms[Max(s)]>>]
    BY <1>2, <1>3, <1>6, <2>2
  <2>3. QED
    BY <1>2, <2>1, <2>2, FoldOf
<1>8. QED
  BY <1>1, <1>7, FoldType DEF F

LEMMA ReplayFold ==
    ASSUME NEW R, NEW M, \A r \in R, m \in M : ApplyMutation(r, m) \in R,
           NEW base \in R, NEW ms \in Seq(M)
    PROVE  /\ FoldsTo(R, [p \in R \X M |-> ApplyMutation(p[1], p[2])], base, ms,
                      FoldLeft(ApplyMutation, base, ms))
           /\ FoldLeft(ApplyMutation, base, ms) \in R
<1> DEFINE F == [p \in R \X M |-> ApplyMutation(p[1], p[2])]
           Step(f, s) == ApplyMutation(f[s \ {Max(s)}], ms[Max(s)])
           W(f) == [s \in SUBSET DOMAIN ms |-> IF s = {} THEN base ELSE Step(f, s)]
           it == CHOOSE f : f = W(f)
<1>1. FoldLeft(ApplyMutation, base, ms) = it[DOMAIN ms]
  BY DEF FoldLeft, MapThenFoldSet
<1>2. F \in [R \X M -> R] /\ \A r \in R, m \in M : F[<<r, m>>] = ApplyMutation(r, m)
  OBVIOUS
<1>3. ASSUME NEW s \in SUBSET DOMAIN ms, s # {}
      PROVE  ms[Max(s)] \in M /\ s \ {Max(s)} \in SUBSET DOMAIN ms
  BY <1>3, LastElement
<1> HIDE DEF F
<1>4. PICK f \in [SUBSET DOMAIN ms -> R] : SolvesFold(f, F, base, ms)
  BY <1>2, FoldSolution
<1>5. f = W(f)
  BY <1>2, <1>3, <1>4 DEF SolvesFold
<1>6. it = W(it)
  BY <1>5
<1> HIDE DEF it
<1>7. FoldsTo(R, F, base, ms, it[DOMAIN ms])
  <2>1. it[{}] = base
    BY <1>6
  <2>2. ASSUME NEW s \in SUBSET DOMAIN ms, s # {}, it[s \ {Max(s)}] \in R
        PROVE  it[s] = F[<<it[s \ {Max(s)}], ms[Max(s)]>>]
    BY <1>2, <1>3, <1>6, <2>2
  <2>3. QED
    BY <1>2, <2>1, <2>2, FoldOf
<1>8. QED
  BY <1>1, <1>7, FoldType DEF F

LEMMA BulkMutationFold ==
    ASSUME NEW R, NEW M, \A r \in R, m \in M : BulkMutation(r, m) \in R,
           NEW base \in R, NEW ms \in Seq(M)
    PROVE  /\ FoldsTo(R, [p \in R \X M |-> BulkMutation(p[1], p[2])], base, ms,
                      FoldLeft(BulkMutation, base, ms))
           /\ FoldLeft(BulkMutation, base, ms) \in R
<1> DEFINE F == [p \in R \X M |-> BulkMutation(p[1], p[2])]
           Step(f, s) == BulkMutation(f[s \ {Max(s)}], ms[Max(s)])
           W(f) == [s \in SUBSET DOMAIN ms |-> IF s = {} THEN base ELSE Step(f, s)]
           it == CHOOSE f : f = W(f)
<1>1. FoldLeft(BulkMutation, base, ms) = it[DOMAIN ms]
  BY DEF FoldLeft, MapThenFoldSet
<1>2. F \in [R \X M -> R] /\ \A r \in R, m \in M : F[<<r, m>>] = BulkMutation(r, m)
  OBVIOUS
<1>3. ASSUME NEW s \in SUBSET DOMAIN ms, s # {}
      PROVE  ms[Max(s)] \in M /\ s \ {Max(s)} \in SUBSET DOMAIN ms
  BY <1>3, LastElement
<1> HIDE DEF F
<1>4. PICK f \in [SUBSET DOMAIN ms -> R] : SolvesFold(f, F, base, ms)
  BY <1>2, FoldSolution
<1>5. f = W(f)
  BY <1>2, <1>3, <1>4 DEF SolvesFold
<1>6. it = W(it)
  BY <1>5
<1> HIDE DEF it
<1>7. FoldsTo(R, F, base, ms, it[DOMAIN ms])
  <2>1. it[{}] = base
    BY <1>6
  <2>2. ASSUME NEW s \in SUBSET DOMAIN ms, s # {}, it[s \ {Max(s)}] \in R
        PROVE  it[s] = F[<<it[s \ {Max(s)}], ms[Max(s)]>>]
    BY <1>2, <1>3, <1>6, <2>2
  <2>3. QED
    BY <1>2, <2>1, <2>2, FoldOf
<1>8. QED
  BY <1>1, <1>7, FoldType DEF F

LEMMA BulkOperationFold ==
    ASSUME NEW R, NEW M, \A r \in R, m \in M : BulkOperation(r, m) \in R,
           NEW base \in R, NEW ms \in Seq(M)
    PROVE  /\ FoldsTo(R, [p \in R \X M |-> BulkOperation(p[1], p[2])], base, ms,
                      FoldLeft(BulkOperation, base, ms))
           /\ FoldLeft(BulkOperation, base, ms) \in R
<1> DEFINE F == [p \in R \X M |-> BulkOperation(p[1], p[2])]
           Step(f, s) == BulkOperation(f[s \ {Max(s)}], ms[Max(s)])
           W(f) == [s \in SUBSET DOMAIN ms |-> IF s = {} THEN base ELSE Step(f, s)]
           it == CHOOSE f : f = W(f)
<1>1. FoldLeft(BulkOperation, base, ms) = it[DOMAIN ms]
  BY DEF FoldLeft, MapThenFoldSet
<1>2. F \in [R \X M -> R] /\ \A r \in R, m \in M : F[<<r, m>>] = BulkOperation(r, m)
  OBVIOUS
<1>3. ASSUME NEW s \in SUBSET DOMAIN ms, s # {}
      PROVE  ms[Max(s)] \in M /\ s \ {Max(s)} \in SUBSET DOMAIN ms
  BY <1>3, LastElement
<1> HIDE DEF F
<1>4. PICK f \in [SUBSET DOMAIN ms -> R] : SolvesFold(f, F, base, ms)
  BY <1>2, FoldSolution
<1>5. f = W(f)
  BY <1>2, <1>3, <1>4 DEF SolvesFold
<1>6. it = W(it)
  BY <1>5
<1> HIDE DEF it
<1>7. FoldsTo(R, F, base, ms, it[DOMAIN ms])
  <2>1. it[{}] = base
    BY <1>6
  <2>2. ASSUME NEW s \in SUBSET DOMAIN ms, s # {}, it[s \ {Max(s)}] \in R
        PROVE  it[s] = F[<<it[s \ {Max(s)}], ms[Max(s)]>>]
    BY <1>2, <1>3, <1>6, <2>2
  <2>3. QED
    BY <1>2, <2>1, <2>2, FoldOf
<1>8. QED
  BY <1>1, <1>7, FoldType DEF F

LEMMA AtomicOperationFold ==
    ASSUME NEW R, NEW M, \A r \in R, m \in M : AtomicOperation(r, m) \in R,
           NEW base \in R, NEW ms \in Seq(M)
    PROVE  /\ FoldsTo(R, [p \in R \X M |-> AtomicOperation(p[1], p[2])], base, ms,
                      FoldLeft(AtomicOperation, base, ms))
           /\ FoldLeft(AtomicOperation, base, ms) \in R
<1> DEFINE F == [p \in R \X M |-> AtomicOperation(p[1], p[2])]
           Step(f, s) == AtomicOperation(f[s \ {Max(s)}], ms[Max(s)])
           W(f) == [s \in SUBSET DOMAIN ms |-> IF s = {} THEN base ELSE Step(f, s)]
           it == CHOOSE f : f = W(f)
<1>1. FoldLeft(AtomicOperation, base, ms) = it[DOMAIN ms]
  BY DEF FoldLeft, MapThenFoldSet
<1>2. F \in [R \X M -> R] /\ \A r \in R, m \in M : F[<<r, m>>] = AtomicOperation(r, m)
  OBVIOUS
<1>3. ASSUME NEW s \in SUBSET DOMAIN ms, s # {}
      PROVE  ms[Max(s)] \in M /\ s \ {Max(s)} \in SUBSET DOMAIN ms
  BY <1>3, LastElement
<1> HIDE DEF F
<1>4. PICK f \in [SUBSET DOMAIN ms -> R] : SolvesFold(f, F, base, ms)
  BY <1>2, FoldSolution
<1>5. f = W(f)
  BY <1>2, <1>3, <1>4 DEF SolvesFold
<1>6. it = W(it)
  BY <1>5
<1> HIDE DEF it
<1>7. FoldsTo(R, F, base, ms, it[DOMAIN ms])
  <2>1. it[{}] = base
    BY <1>6
  <2>2. ASSUME NEW s \in SUBSET DOMAIN ms, s # {}, it[s \ {Max(s)}] \in R
        PROVE  it[s] = F[<<it[s \ {Max(s)}], ms[Max(s)]>>]
    BY <1>2, <1>3, <1>6, <2>2
  <2>3. QED
    BY <1>2, <2>1, <2>2, FoldOf
<1>8. QED
  BY <1>1, <1>7, FoldType DEF F

\* One step of order_alias_mutations; the indexes in `removed' are removed by
\* some action of the request.
EmitInto(removed, ordered, m) ==
    LET Delete(n) == [kind |-> "DeleteIndex", index |-> n]
        emitted(n) == Contains(ordered, Delete(n))
    IN  CASE m.kind = "PutAlias" /\ m.alias \in removed
             /\ ~emitted(m.alias) -> ordered \o <<Delete(m.alias), m>>
          [] m.kind = "DeleteIndex" /\ emitted(m.index) -> ordered
          [] OTHER -> Append(ordered, m)

RemovedBy(ms) ==
    {m.index : m \in {ms[i] : i \in {j \in DOMAIN ms : ms[j].kind = "DeleteIndex"}}}

LEMMA OrderFold ==
    ASSUME NEW removed, NEW R, NEW M, \A r \in R, m \in M : EmitInto(removed, r, m) \in R,
           NEW base \in R, NEW ms \in Seq(M),
           base = <<>>, removed = RemovedBy(ms)
    PROVE  /\ FoldsTo(R, [p \in R \X M |-> EmitInto(removed, p[1], p[2])], base, ms,
                      OrderAliasMutations(ms))
           /\ OrderAliasMutations(ms) \in R
<1> DEFINE F == [p \in R \X M |-> EmitInto(removed, p[1], p[2])]
           Step(f, s) == EmitInto(removed, f[s \ {Max(s)}], ms[Max(s)])
           W(f) == [s \in SUBSET DOMAIN ms |-> IF s = {} THEN base ELSE Step(f, s)]
           it == CHOOSE f : f = W(f)
<1>1. OrderAliasMutations(ms) = it[DOMAIN ms]
  BY DEF FoldLeft, MapThenFoldSet, OrderAliasMutations, EmitInto, RemovedBy
<1>2. F \in [R \X M -> R] /\ \A r \in R, m \in M : F[<<r, m>>] = EmitInto(removed, r, m)
  OBVIOUS
<1>3. ASSUME NEW s \in SUBSET DOMAIN ms, s # {}
      PROVE  ms[Max(s)] \in M /\ s \ {Max(s)} \in SUBSET DOMAIN ms
  BY <1>3, LastElement
<1> HIDE DEF F
<1>4. PICK f \in [SUBSET DOMAIN ms -> R] : SolvesFold(f, F, base, ms)
  BY <1>2, FoldSolution
<1>5. f = W(f)
  BY <1>2, <1>3, <1>4 DEF SolvesFold
<1>6. it = W(it)
  BY <1>5
<1> HIDE DEF it
<1>7. FoldsTo(R, F, base, ms, it[DOMAIN ms])
  <2>1. it[{}] = base
    BY <1>6
  <2>2. ASSUME NEW s \in SUBSET DOMAIN ms, s # {}, it[s \ {Max(s)}] \in R
        PROVE  it[s] = F[<<it[s \ {Max(s)}], ms[Max(s)]>>]
    BY <1>2, <1>3, <1>6, <2>2
  <2>3. QED
    BY <1>2, <2>1, <2>2, FoldOf
<1>8. QED
  BY <1>1, <1>7, FoldType DEF F

\* One step of the plan of a reindex and of the repairs.
PlanCopy(arg, plan, doc) ==
    LET planned == \E i \in DOMAIN plan.ops : plan.ops[i].id = doc[2]
    IN  IF plan.failed THEN plan
        ELSE IF arg.create /\ (DocumentExists(arg.dest, doc[2]) \/ planned)
        THEN [plan EXCEPT !.failed = ~arg.proceed]
        ELSE [plan EXCEPT !.ops = Append(@,
                  [kind |-> IF arg.create THEN "CreateDocument" ELSE "IndexDocument",
                   name |-> arg.dest, id |-> doc[2], source |-> Source(doc)])]

PlanRepair(d, ms, doc) ==
    LET m == [kind |-> "RenameDocument", index |-> doc[1], id |-> doc[2],
              newId |-> Legacy[doc[2]]]
        planned == \E i \in DOMAIN ms : ms[i].index = m.index /\ ms[i].newId = m.newId
    IN  IF Has(d.indexes[m.index].documents, m.newId) \/ planned THEN ms
        ELSE Append(ms, m)

LEMMA ReindexFold ==
    ASSUME NEW arg, NEW R, NEW M, \A r \in R, m \in M : PlanCopy(arg, r, m) \in R,
           NEW base \in R, NEW ms \in Seq(M),
           base = [failed |-> FALSE, ops |-> <<>>]
    PROVE  /\ FoldsTo(R, [p \in R \X M |-> PlanCopy(arg, p[1], p[2])], base, ms,
                      ReindexPlan(ms, arg.dest, arg.create, arg.proceed))
           /\ ReindexPlan(ms, arg.dest, arg.create, arg.proceed) \in R
<1> DEFINE F == [p \in R \X M |-> PlanCopy(arg, p[1], p[2])]
           Step(f, s) == PlanCopy(arg, f[s \ {Max(s)}], ms[Max(s)])
           W(f) == [s \in SUBSET DOMAIN ms |-> IF s = {} THEN base ELSE Step(f, s)]
           it == CHOOSE f : f = W(f)
<1>1. ReindexPlan(ms, arg.dest, arg.create, arg.proceed) = it[DOMAIN ms]
  BY DEF FoldLeft, MapThenFoldSet, ReindexPlan, PlanCopy
<1>2. F \in [R \X M -> R] /\ \A r \in R, m \in M : F[<<r, m>>] = PlanCopy(arg, r, m)
  OBVIOUS
<1>3. ASSUME NEW s \in SUBSET DOMAIN ms, s # {}
      PROVE  ms[Max(s)] \in M /\ s \ {Max(s)} \in SUBSET DOMAIN ms
  BY <1>3, LastElement
<1> HIDE DEF F
<1>4. PICK f \in [SUBSET DOMAIN ms -> R] : SolvesFold(f, F, base, ms)
  BY <1>2, FoldSolution
<1>5. f = W(f)
  BY <1>2, <1>3, <1>4 DEF SolvesFold
<1>6. it = W(it)
  BY <1>5
<1> HIDE DEF it
<1>7. FoldsTo(R, F, base, ms, it[DOMAIN ms])
  <2>1. it[{}] = base
    BY <1>6
  <2>2. ASSUME NEW s \in SUBSET DOMAIN ms, s # {}, it[s \ {Max(s)}] \in R
        PROVE  it[s] = F[<<it[s \ {Max(s)}], ms[Max(s)]>>]
    BY <1>2, <1>3, <1>6, <2>2
  <2>3. QED
    BY <1>2, <2>1, <2>2, FoldOf
<1>8. QED
  BY <1>1, <1>7, FoldType DEF F

LEMMA RepairFold ==
    ASSUME NEW d, NEW R, NEW M, \A r \in R, m \in M : PlanRepair(d, r, m) \in R,
           NEW base \in R, NEW ms \in Seq(M),
           base = <<>>, ms = SetToSeq(DocumentsOf(d, Dashboards, DOMAIN Legacy))
    PROVE  /\ FoldsTo(R, [p \in R \X M |-> PlanRepair(d, p[1], p[2])], base, ms,
                      Repairs(d))
           /\ Repairs(d) \in R
<1> DEFINE F == [p \in R \X M |-> PlanRepair(d, p[1], p[2])]
           Step(f, s) == PlanRepair(d, f[s \ {Max(s)}], ms[Max(s)])
           W(f) == [s \in SUBSET DOMAIN ms |-> IF s = {} THEN base ELSE Step(f, s)]
           it == CHOOSE f : f = W(f)
<1>1. Repairs(d) = it[DOMAIN ms]
  BY DEF FoldLeft, MapThenFoldSet, Repairs, PlanRepair
<1>2. F \in [R \X M -> R] /\ \A r \in R, m \in M : F[<<r, m>>] = PlanRepair(d, r, m)
  OBVIOUS
<1>3. ASSUME NEW s \in SUBSET DOMAIN ms, s # {}
      PROVE  ms[Max(s)] \in M /\ s \ {Max(s)} \in SUBSET DOMAIN ms
  BY <1>3, LastElement
<1> HIDE DEF F
<1>4. PICK f \in [SUBSET DOMAIN ms -> R] : SolvesFold(f, F, base, ms)
  BY <1>2, FoldSolution
<1>5. f = W(f)
  BY <1>2, <1>3, <1>4 DEF SolvesFold
<1>6. it = W(it)
  BY <1>5
<1> HIDE DEF it
<1>7. FoldsTo(R, F, base, ms, it[DOMAIN ms])
  <2>1. it[{}] = base
    BY <1>6
  <2>2. ASSUME NEW s \in SUBSET DOMAIN ms, s # {}, it[s \ {Max(s)}] \in R
        PROVE  it[s] = F[<<it[s \ {Max(s)}], ms[Max(s)]>>]
    BY <1>2, <1>3, <1>6, <2>2
  <2>3. QED
    BY <1>2, <2>1, <2>2, FoldOf
<1>8. QED
  BY <1>1, <1>7, FoldType DEF F

-----------------------------------------------------------------------------
(* Replay.                                                                 *)

GoodDatabases == {d \in Databases : Good(d)}

LEMMA ApplyStays ==
    \A d \in GoodDatabases, m \in Replayable : ApplyMutation(d, m) \in GoodDatabases
<1>1. ASSUME NEW d \in GoodDatabases, NEW m \in Replayable
      PROVE  Good(ApplyMutation(d, m))
  <2>1. Good(d)
    BY DEF GoodDatabases
  <2>2. CASE m \in Mutations
    BY <2>1, <2>2, ApplyGood
  <2>3. CASE m \in Renames
    BY <2>1, <2>3, RenameGood
  <2>4. QED
    BY <2>2, <2>3 DEF Replayable
<1>2. QED
  BY <1>1 DEF GoodDatabases, Good

ReplayFunction == [p \in GoodDatabases \X Replayable |-> ApplyMutation(p[1], p[2])]

LEMMA ReplayChain ==
    ASSUME NEW d \in GoodDatabases, NEW ms \in Seq(Replayable)
    PROVE  /\ FoldsTo(GoodDatabases, ReplayFunction, d, ms, Replay(d, ms))
           /\ Replay(d, ms) \in GoodDatabases
BY ApplyStays, ReplayFold DEF Replay, ReplayFunction

LEMMA ReplayEmpty ==
    ASSUME NEW d \in GoodDatabases
    PROVE  Replay(d, <<>>) = d
<1>1. <<>> \in Seq(Replayable) /\ Len(<<>>) \in Nat
  OBVIOUS
<1>2. FoldsTo(GoodDatabases, ReplayFunction, d, <<>>, Replay(d, <<>>))
  BY <1>1, ReplayChain
<1>3. FoldsTo(GoodDatabases, ReplayFunction, d, <<>>, d)
  BY FoldEmpty
<1>4. QED
  BY <1>1, <1>2, <1>3, FoldUnique

LEMMA ReplayOne ==
    ASSUME NEW d \in GoodDatabases, NEW m \in Replayable
    PROVE  Replay(d, <<m>>) = ApplyMutation(d, m)
<1>1. <<m>> \in Seq(Replayable) /\ Len(<<m>>) \in Nat
  OBVIOUS
<1>2. FoldsTo(GoodDatabases, ReplayFunction, d, <<m>>, Replay(d, <<m>>))
  BY <1>1, ReplayChain
<1>3. ReplayFunction[<<d, m>>] = ApplyMutation(d, m) /\ ApplyMutation(d, m) \in GoodDatabases
  BY ApplyStays DEF ReplayFunction
<1>4. FoldsTo(GoodDatabases, ReplayFunction, d, <<m>>, ReplayFunction[<<d, m>>])
  BY <1>3, FoldOne
<1>5. QED
  BY <1>1, <1>2, <1>3, <1>4, FoldUnique

LEMMA ReplayConcat ==
    ASSUME NEW d \in GoodDatabases, NEW ms \in Seq(Replayable), NEW ns \in Seq(Replayable)
    PROVE  Replay(d, ms \o ns) = Replay(Replay(d, ms), ns)
<1> DEFINE v == Replay(d, ms)
           w == Replay(v, ns)
           u == Replay(d, ms \o ns)
<1>1. ms \o ns \in Seq(Replayable) /\ Len(ms \o ns) \in Nat
  OBVIOUS
<1>2. FoldsTo(GoodDatabases, ReplayFunction, d, ms, v) /\ v \in GoodDatabases
  BY ReplayChain
<1>3. FoldsTo(GoodDatabases, ReplayFunction, v, ns, w)
  BY <1>2, ReplayChain
<1>4. FoldsTo(GoodDatabases, ReplayFunction, d, ms \o ns, u)
  BY <1>1, ReplayChain
<1> HIDE DEF v, w, u
<1>5. FoldsTo(GoodDatabases, ReplayFunction, d, ms \o ns, w)
  BY <1>2, <1>3, FoldConcat
<1>6. u = w
  BY <1>1, <1>4, <1>5, FoldUnique
<1>7. QED
  BY <1>6 DEF u, w, v

-----------------------------------------------------------------------------
(* commit_mutations.                                                       *)

Statuses == {200, 400, 404, 409, 429}
Results == [status : Statuses, db : GoodDatabases]

LEMMA ValidationStatus ==
    ASSUME NEW d, NEW m \in Mutations
    PROVE  ValidateMutation(d, m) \in Statuses
<1>1. m \in Replayable /\ m.kind # "RenameDocument"
  BY DEF Replayable, Mutations, WriteMutations, PutMutations, DeleteMutations, CreateMutations,
         NamedMutations, CatalogMutations
<1>2. m.kind \in Kinds \ {"RenameDocument"}
  BY <1>1, MutationKinds
<1>3. \A n : ValidateRegistryNamespace(n) \in Statuses
  BY DEF ValidateRegistryNamespace, Statuses, Accepted
<1>4. ValidateDocument(d, m) \in Statuses /\ ValidateAlias(d, m) \in Statuses
  BY DEF ValidateDocument, ValidateAlias, Statuses, Accepted
<1>5. Accepted \in Statuses /\ {400, 404, 429} \subseteq Statuses
  BY DEF Accepted, Statuses
<1>6. QED
  BY <1>2, <1>3, <1>4, <1>5 DEF ValidateMutation, Kinds, OnIndexKinds, ConfigKinds, DocumentMutations

LEMMA CommitOneType ==
    ASSUME NEW r \in Results, NEW m \in Mutations
    PROVE  /\ CommitOne(r, m) \in Results
           /\ CommitOne(r, m).status = Accepted =>
                  /\ r.status = Accepted /\ ValidateMutation(r.db, m) = Accepted
                  /\ CommitOne(r, m).db = ApplyMutation(r.db, m)
                  /\ FitsMemory(EstimateDatabase(ApplyMutation(r.db, m)))
<1>1. r.db \in GoodDatabases /\ r.status \in Statuses /\ m \in Replayable
  BY DEF Results, Replayable
<1>2. ValidateMutation(r.db, m) \in Statuses
  BY ValidationStatus
<1>3. ApplyMutation(r.db, m) \in GoodDatabases
  BY <1>1, ApplyStays
<1>4. Accepted \in Statuses /\ 429 \in Statuses /\ Accepted # 429
  BY DEF Accepted, Statuses
<1>5. CASE r.status # Accepted
  BY <1>5 DEF CommitOne
<1>6. CASE r.status = Accepted /\ ValidateMutation(r.db, m) # Accepted
  BY <1>1, <1>2, <1>6 DEF CommitOne, Result, Results
<1>7. CASE r.status = Accepted /\ ValidateMutation(r.db, m) = Accepted
  <2> DEFINE d == ApplyMutation(r.db, m)
  <2> HIDE DEF d
  <2>1. CommitOne(r, m) = [status |-> IF FitsMemory(EstimateDatabase(d)) THEN Accepted ELSE 429,
                           db |-> d]
    BY <1>7 DEF CommitOne, Result, d
  <2>2. d \in GoodDatabases
    BY <1>3 DEF d
  <2>3. QED
    BY <1>4, <1>7, <2>1, <2>2 DEF Results, d
<1>8. QED
  BY <1>5, <1>6, <1>7

\* A fold of commits, next to a replay of the same mutations.
LEMMA CommitsAndReplay ==
    ASSUME NEW strict, NEW d0 \in Databases, NEW r0 \in Results, NEW e \in GoodDatabases,
           NEW ms \in Seq(Mutations), r0.status = Accepted => Kept(strict, d0, r0.db, e)
    PROVE  LET r == FoldLeft(CommitOne, r0, ms)
           IN  /\ r \in Results /\ Replay(e, ms) \in GoodDatabases
               /\ r.status = Accepted => Kept(strict, d0, r.db, Replay(e, ms))
<1> DEFINE F == [p \in Results \X Mutations |-> CommitOne(p[1], p[2])]
           r == FoldLeft(CommitOne, r0, ms)
           P == {p \in Results \X GoodDatabases :
                     p[1].status = Accepted => Kept(strict, d0, p[1].db, p[2])}
<1>1. \A q \in Results, m \in Mutations : CommitOne(q, m) \in Results
  BY CommitOneType
<1>2. FoldsTo(Results, F, r0, ms, r) /\ r \in Results
  BY <1>1, CommitFold
<1>3. ms \in Seq(Replayable)
  BY DEF Replayable
<1>4. FoldsTo(GoodDatabases, ReplayFunction, e, ms, Replay(e, ms)) /\ Replay(e, ms) \in GoodDatabases
  BY <1>3, ReplayChain
<1>5. <<r0, e>> \in P
  OBVIOUS
<1>6. ASSUME NEW q \in Results, NEW x \in GoodDatabases, NEW m \in Mutations, <<q, x>> \in P
      PROVE  <<F[<<q, m>>], ReplayFunction[<<x, m>>]>> \in P
  <2>1. m \in Replayable
    BY DEF Replayable
  <2>2. F[<<q, m>>] = CommitOne(q, m) /\ ReplayFunction[<<x, m>>] = ApplyMutation(x, m)
    BY <2>1 DEF ReplayFunction
  <2>3. CommitOne(q, m) \in Results /\ ApplyMutation(x, m) \in GoodDatabases
    BY <1>1, <2>1, ApplyStays
  <2>4. q.status = Accepted => Kept(strict, d0, q.db, x)
    BY <1>6
  <2>5. ASSUME CommitOne(q, m).status = Accepted
        PROVE  Kept(strict, d0, CommitOne(q, m).db, ApplyMutation(x, m))
    <3>1. /\ q.status = Accepted /\ ValidateMutation(q.db, m) = Accepted
          /\ CommitOne(q, m).db = ApplyMutation(q.db, m)
          /\ FitsMemory(EstimateDatabase(ApplyMutation(q.db, m)))
      BY <2>5, CommitOneType
    <3>2. QED
      BY <2>4, <3>1, KeptByMutation
  <2>6. QED
    BY <2>2, <2>3, <2>5
<1> HIDE DEF F, P, r
<1>7. <<r, Replay(e, ms)>> \in P
  BY <1>2, <1>4, <1>5, <1>6, FoldPair
<1>8. QED
  BY <1>2, <1>4, <1>7 DEF P, r

LEMMA KeptByCommit ==
    ASSUME NEW strict, NEW d, NEW e, Kept(strict, d, d, e), NEW ms \in Seq(Mutations)
    PROVE  /\ CommitAll(d, ms) \in Results
           /\ CommitAll(d, ms).status = Accepted =>
                  Kept(strict, d, CommitAll(d, ms).db, Replay(e, ms))
<1>1. d \in GoodDatabases /\ e \in GoodDatabases /\ d \in Databases
  BY DEF Kept, Good, GoodDatabases
<1> DEFINE r0 == Result(Accepted, d)
<1>2. r0 \in Results /\ r0.db = d
  BY <1>1 DEF Result, Results, Accepted, Statuses
<1>3. CommitAll(d, ms) = FoldLeft(CommitOne, r0, ms)
  BY DEF CommitAll
<1> HIDE DEF r0
<1>4. Kept(strict, d, r0.db, e)
  BY <1>2
<1> DEFINE r == FoldLeft(CommitOne, r0, ms)
<1>5. r \in Results /\ (r.status = Accepted => Kept(strict, d, r.db, Replay(e, ms)))
  BY <1>1, <1>2, <1>4, CommitsAndReplay
<1> HIDE DEF r
<1>6. QED
  BY <1>3, <1>5 DEF r

-----------------------------------------------------------------------------
(* prepare_write_operation.                                                *)

IsPrepared(p) ==
    /\ p.status \in Statuses
    /\ p.status # Accepted => p.mutations = <<>>
    /\ \/ p.mutations = <<>>
       \/ \E m \in PutMutations \cup DeleteMutations : p.mutations = <<m>>
       \/ \E c \in CreateMutations, m \in PutMutations : p.mutations = <<c, m>>

LEMMA TemplateConfigType ==
    ASSUME NEW d \in Databases, NEW n
    PROVE  TemplateConfigFor(d, n) \in Objects
<1> DEFINE matching == {t \in DOMAIN d.templates : n \in d.templates[t].patterns}
<1>1. /\ DOMAIN d.templates \subseteq Nat
      /\ \A t \in DOMAIN d.templates : d.templates[t].config \in Objects
  <2>1. d.templates \in Table(Templates, Bodies)
    BY DEF Databases
  <2>2. DOMAIN d.templates \subseteq Templates /\ \A t \in DOMAIN d.templates : d.templates[t] \in Bodies
    BY <2>1, TableOf
  <2>3. Templates \subseteq Nat
    BY DatabaseAssumption
  <2>4. QED
    BY <2>2, <2>3 DEF Bodies
<1>2. CASE matching = {}
  BY <1>2 DEF TemplateConfigFor, Objects
<1>3. CASE matching # {}
  <2>1. matching \in SUBSET Nat
    BY <1>1
  <2> HIDE DEF matching
  <2>2. PICK t \in matching : \A u \in matching : t <= u
    BY <1>3, <2>1, LeastNumber
  <2>3. Min(matching) \in matching
    BY <2>2 DEF Min
  <2>4. d.templates[Min(matching)].config \in Objects
    BY <1>1, <2>3 DEF matching
  <2>5. QED
    BY <1>3, <2>4 DEF TemplateConfigFor, matching
<1>4. QED
  BY <1>2, <1>3

LEMMA ResolveType ==
    ASSUME NEW d \in Databases, NEW n \in Names, ResolveIndex(d, n) # NoName
    PROVE  ResolveIndex(d, n) \in Names
BY TableOf DEF ResolveIndex, Databases, Has

\* The index that a write goes to, and the mutation that creates it.
Targets(d, n, t) ==
    \/ /\ ResolveIndex(d, n) # NoName /\ t.mutations = <<>>
       /\ t.index = ResolveIndex(d, n)
    \/ /\ ResolveIndex(d, n) = NoName /\ t.index = n
       /\ \E c \in CreateMutations : c.index = n /\ t.mutations = <<c>>

LEMMA TargetType ==
    ASSUME NEW d \in Databases, NEW n \in Names
    PROVE  Targets(d, n, ResolveOrCreateIndex(d, n)) /\ ResolveOrCreateIndex(d, n).index \in Names
<1>1. CASE ResolveIndex(d, n) # NoName
  BY <1>1, ResolveType DEF ResolveOrCreateIndex, Targets
<1>2. CASE ResolveIndex(d, n) = NoName
  <2> DEFINE c == [kind |-> "CreateIndex", index |-> n, config |-> TemplateConfigFor(d, n)]
  <2>1. c \in CreateMutations /\ c.index = n
    BY TemplateConfigType DEF CreateMutations
  <2>2. /\ ResolveOrCreateIndex(d, n).mutations = <<c>>
        /\ ResolveOrCreateIndex(d, n).index = n
    BY <1>2 DEF ResolveOrCreateIndex
  <2> HIDE DEF c
  <2>3. QED
    BY <1>2, <2>1, <2>2 DEF Targets
<1>3. QED
  BY <1>1, <1>2

\* The mutations of a write that puts a document: the creation of the index, if
\* need be, and m.
LEMMA AppendToTarget ==
    ASSUME NEW d \in Databases, NEW n \in Names, NEW m \in PutMutations,
           NEW t, Targets(d, n, t)
    PROVE  \/ t.mutations = <<>> /\ Append(t.mutations, m) = <<m>>
           \/ \E c \in CreateMutations : c.index = n /\ t.mutations = <<c>>
                                         /\ Append(t.mutations, m) = <<c, m>>
<1>1. Append(<<>>, m) = <<m>> /\ \A c : Append(<<c>>, m) = <<c, m>>
  BY AppendTwo
<1>2. QED
  BY <1>1 DEF Targets

LEMMA PreparedUpdateType ==
    ASSUME NEW d \in Databases, NEW op \in UpdateOps
    PROVE  IsPrepared(PrepareUpdate(d, op))
<1> DEFINE t == ResolveOrCreateIndex(d, op.name)
           exists == Has(d.indexes, t.index) /\ Has(d.indexes[t.index].documents, op.id)
           u == [kind |-> "UpdateDocument", index |-> t.index,
                 id |-> op.id, source |-> op.source, upsert |-> op.asUpsert]
           src == UNION (IF op.upsert = {} THEN {op.source} ELSE op.upsert)
           c == [kind |-> "CreateDocument", index |-> t.index, id |-> op.id, source |-> src]
           m == IF exists THEN u ELSE c
<1>1. op.name \in Names /\ op.id \in Ids /\ op.source \in Objects /\ op.asUpsert \in BOOLEAN
  BY DEF UpdateOps
<1>2. src \in Objects
  <2>1. op.upsert \in {{}} \cup {{o} : o \in Objects}
    BY DEF UpdateOps
  <2>2. CASE op.upsert = {}
    BY <1>1, <2>2 DEF Objects
  <2>3. CASE op.upsert # {}
    <3>1. PICK o \in Objects : op.upsert = {o}
      BY <2>1, <2>3
    <3>2. QED
      BY <2>3, <3>1
  <2>4. QED
    BY <2>2, <2>3
<1>3. Targets(d, op.name, t) /\ t.index \in Names
  BY <1>1, TargetType
<1> HIDE DEF src, t
<1>4. u \in PutMutations /\ c \in PutMutations
  BY <1>1, <1>2, <1>3 DEF PutMutations
<1>5. m \in PutMutations
  BY <1>4
<1>6. \/ PrepareUpdate(d, op) = Refused(404)
      \/ PrepareUpdate(d, op) = Prepared(Append(t.mutations, m))
  BY DEF PrepareUpdate, t, src
<1> HIDE DEF m
<1>7. \/ Append(t.mutations, m) = <<m>>
      \/ \E k \in CreateMutations : Append(t.mutations, m) = <<k, m>>
  BY <1>1, <1>3, <1>5, AppendToTarget
<1>8. CASE PrepareUpdate(d, op) = Refused(404)
  BY <1>8 DEF IsPrepared, Refused, Statuses, Accepted
<1>9. CASE PrepareUpdate(d, op) = Prepared(Append(t.mutations, m))
  BY <1>5, <1>7, <1>9 DEF IsPrepared, Prepared, Statuses, Accepted
<1>10. QED
  BY <1>6, <1>8, <1>9

LEMMA PreparedType ==
    ASSUME NEW d \in Databases, NEW op \in WriteOps
    PROVE  IsPrepared(PrepareWriteOperation(d, op))
<1>1. CASE op \in PutOps
  <2> DEFINE t == ResolveOrCreateIndex(d, op.name)
             m == [kind |-> op.kind, index |-> t.index, id |-> op.id, source |-> op.source]
  <2>1. /\ op.name \in Names /\ op.id \in Ids /\ op.source \in Objects
        /\ op.kind \in {"IndexDocument", "CreateDocument"}
    BY <1>1 DEF PutOps
  <2>2. Targets(d, op.name, t) /\ t.index \in Names
    BY <2>1, TargetType
  <2> HIDE DEF t
  <2>3. m \in PutMutations
    BY <2>1, <2>2 DEF PutMutations
  <2>4. PrepareWriteOperation(d, op) = Prepared(Append(t.mutations, m))
    BY <2>1 DEF PrepareWriteOperation, t
  <2> HIDE DEF m
  <2>5. \/ Append(t.mutations, m) = <<m>>
        \/ \E k \in CreateMutations : Append(t.mutations, m) = <<k, m>>
    BY <2>1, <2>2, <2>3, AppendToTarget
  <2>6. QED
    BY <2>3, <2>4, <2>5 DEF IsPrepared, Prepared, Statuses, Accepted
<1>2. CASE op \in UpdateOps
  <2>1. op.kind = "UpdateDocument"
    BY <1>2 DEF UpdateOps
  <2>2. PrepareWriteOperation(d, op) = PrepareUpdate(d, op)
    BY <2>1 DEF PrepareWriteOperation
  <2>3. QED
    BY <1>2, <2>2, PreparedUpdateType
<1>3. CASE op \in DeleteOps
  <2> DEFINE n == ResolveIndex(d, op.name)
             m == [kind |-> "DeleteDocument", index |-> n, id |-> op.id]
  <2>1. op.kind = "DeleteDocument" /\ op.name \in Names /\ op.id \in Ids
    BY <1>3 DEF DeleteOps
  <2>2. \/ PrepareWriteOperation(d, op) = Refused(404)
        \/ n # NoName /\ PrepareWriteOperation(d, op) \in {Prepared(<<>>), Prepared(<<m>>)}
    BY <2>1 DEF PrepareWriteOperation, PrepareDelete
  <2>3. ASSUME n # NoName PROVE m \in DeleteMutations
    BY <2>1, <2>3, ResolveType DEF DeleteMutations
  <2> HIDE DEF n, m
  <2>4. QED
    BY <2>2, <2>3 DEF IsPrepared, Prepared, Refused, Statuses, Accepted
<1>4. QED
  BY <1>1, <1>2, <1>3 DEF WriteOps

LEMMA PreparedSequence ==
    ASSUME NEW p, IsPrepared(p)
    PROVE  /\ p.mutations \in Seq(WriteMutations) /\ p.mutations \in Seq(Mutations)
           /\ p.mutations \in Seq(Replayable)
<1>1. \/ p.mutations = <<>>
      \/ \E m \in WriteMutations : p.mutations = <<m>>
      \/ \E c, m \in WriteMutations : p.mutations = <<c, m>>
  BY DEF IsPrepared, WriteMutations
<1>2. p.mutations \in Seq(WriteMutations)
  <2>1. <<>> \in Seq(WriteMutations)
    OBVIOUS
  <2>2. ASSUME NEW m \in WriteMutations PROVE <<m>> \in Seq(WriteMutations)
    OBVIOUS
  <2>3. ASSUME NEW c \in WriteMutations, NEW m \in WriteMutations
        PROVE  <<c, m>> \in Seq(WriteMutations)
    OBVIOUS
  <2>4. QED
    BY <1>1, <2>1, <2>2, <2>3
<1>3. WriteMutations \subseteq Mutations /\ WriteMutations \subseteq Replayable
  BY DEF Mutations, Replayable
<1>4. QED
  BY <1>2, <1>3

-----------------------------------------------------------------------------
(* apply_write_operations.                                                 *)

LEMMA BulkMutationType ==
    ASSUME NEW r \in Results, NEW m \in WriteMutations
    PROVE  /\ BulkMutation(r, m) \in Results
           /\ BulkMutation(r, m).status # Accepted => BulkMutation(r, m).db = r.db
           /\ r.status # Accepted => BulkMutation(r, m) = r
           /\ BulkMutation(r, m).status = Accepted =>
                  /\ r.status = Accepted /\ ValidateMutation(r.db, m) = Accepted
                  /\ BulkMutation(r, m).db = ApplyMutation(r.db, m)
                  /\ FitsMemory(EstimateDatabase(ApplyMutation(r.db, m)))
<1>1. r.db \in GoodDatabases /\ r.status \in Statuses
  BY DEF Results
<1>2. m \in Mutations /\ m \in Replayable
  BY DEF Mutations, Replayable
<1>3. ValidateMutation(r.db, m) \in Statuses
  BY <1>2, ValidationStatus
<1>4. ApplyMutation(r.db, m) \in GoodDatabases
  BY <1>1, <1>2, ApplyStays
<1>5. Accepted \in Statuses /\ 429 \in Statuses /\ Accepted # 429
  BY DEF Accepted, Statuses
<1>6. CASE r.status # Accepted
  BY <1>6 DEF BulkMutation
<1>7. CASE r.status = Accepted /\ ValidateMutation(r.db, m) # Accepted
  BY <1>1, <1>3, <1>7 DEF BulkMutation, Result, Results
<1>8. CASE r.status = Accepted /\ ValidateMutation(r.db, m) = Accepted
  <2>1. r.db \in Databases /\ Covered(r.db)
    BY <1>1 DEF GoodDatabases, Good
  <2>2. IF m.kind = "CreateIndex" THEN ~Has(r.db.indexes, m.index) ELSE Has(r.db.indexes, m.index)
    <3>1. m.kind = "CreateIndex" \/ m.kind \in OnIndexKinds \ {"DeleteAlias"}
      BY DEF WriteMutations, PutMutations, DeleteMutations, CreateMutations, OnIndexKinds,
             DocumentMutations
    <3>2. QED
      BY <1>2, <1>8, <3>1, Validated
  <2>3. EstimateAfter(r.db, m) = EstimateDatabase(ApplyMutation(r.db, m))
    BY <2>1, <2>2, PredictionHolds
  <2> DEFINE d == ApplyMutation(r.db, m)
  <2>4. d \in GoodDatabases
    BY <1>4
  <2> HIDE DEF d
  <2>5. BulkMutation(r, m) = IF ~FitsMemory(EstimateDatabase(d))
                             THEN [status |-> 429, db |-> r.db]
                             ELSE [status |-> Accepted, db |-> d]
    BY <1>8, <2>3 DEF BulkMutation, Result, d
  <2>6. QED
    BY <1>1, <1>5, <1>8, <2>4, <2>5 DEF Results, d
<1>9. QED
  BY <1>6, <1>7, <1>8

\* The fold over the mutations of one operation, written out.
AppliesAll(r0, ms, r) ==
    /\ ms = <<>> => r = r0
    /\ \A m \in PutMutations \cup DeleteMutations : ms = <<m>> => r = BulkMutation(r0, m)
    /\ \A c \in CreateMutations, m \in PutMutations :
           ms = <<c, m>> => r = BulkMutation(BulkMutation(r0, c), m)

LEMMA BulkMutations ==
    ASSUME NEW r0 \in Results, NEW p, IsPrepared(p)
    PROVE  /\ FoldLeft(BulkMutation, r0, p.mutations) \in Results
           /\ AppliesAll(r0, p.mutations, FoldLeft(BulkMutation, r0, p.mutations))
<1> DEFINE r == FoldLeft(BulkMutation, r0, p.mutations)
           ms == p.mutations
           F == [q \in Results \X WriteMutations |-> BulkMutation(q[1], q[2])]
<1>1. \A q \in Results, m \in WriteMutations : BulkMutation(q, m) \in Results
  BY BulkMutationType
<1>2. ms \in Seq(WriteMutations)
  BY PreparedSequence
<1>3. FoldsTo(Results, F, r0, ms, r) /\ r \in Results
  BY <1>1, <1>2, BulkMutationFold
<1>4. \A q \in Results, m \in WriteMutations : F[<<q, m>>] = BulkMutation(q, m)
  OBVIOUS
<1> HIDE DEF F, r
<1>5. PICK f \in [0..Len(ms) -> Results] :
          /\ f[0] = r0 /\ r = f[Len(ms)]
          /\ \A k \in 1..Len(ms) : f[k] = F[<<f[k - 1], ms[k]>>]
  BY <1>3 DEF FoldsTo
<1>6. ASSUME ms = <<>> PROVE r = r0
  <2>1. Len(ms) = 0
    BY <1>6
  <2>2. QED
    BY <1>5, <2>1
<1>7. ASSUME NEW m \in PutMutations \cup DeleteMutations, ms = <<m>>
      PROVE  r = BulkMutation(r0, m)
  <2>1. Len(ms) = 1 /\ ms[1] = m /\ m \in WriteMutations
    BY <1>7 DEF WriteMutations
  <2>2. f[1] = F[<<f[1 - 1], ms[1]>>] /\ 1 - 1 = 0
    BY <1>5, <2>1
  <2>3. QED
    BY <1>4, <1>5, <2>1, <2>2
<1>8. ASSUME NEW c \in CreateMutations, NEW m \in PutMutations, ms = <<c, m>>
      PROVE  r = BulkMutation(BulkMutation(r0, c), m)
  <2>1. Len(ms) = 2 /\ ms[1] = c /\ ms[2] = m /\ m \in WriteMutations /\ c \in WriteMutations
    BY <1>8 DEF WriteMutations
  <2>2. /\ f[1] = F[<<f[1 - 1], ms[1]>>] /\ 1 - 1 = 0
        /\ f[2] = F[<<f[2 - 1], ms[2]>>] /\ 2 - 1 = 1
    BY <1>5, <2>1
  <2>3. f[1] = BulkMutation(r0, c)
    BY <1>4, <1>5, <2>1, <2>2
  <2>4. f[1] \in Results
    BY <1>1, <2>1, <2>3
  <2>5. QED
    BY <1>4, <1>5, <2>1, <2>2, <2>3, <2>4
<1>9. AppliesAll(r0, ms, r)
  BY <1>6, <1>7, <1>8 DEF AppliesAll
<1>10. QED
  BY <1>3, <1>9 DEF r

BulkOf(d, op) ==
    LET p == PrepareWriteOperation(d, op)
    IN  FoldLeft(BulkMutation, Result(p.status, d), p.mutations)

\* What an operation that succeeds did is what it logs; one that fails has done
\* nothing, or has created an index that the log lacks.
LEMMA KeptByBulk ==
    ASSUME NEW strict, NEW d0 \in Databases, NEW d, NEW e, Kept(strict, d0, d, e),
           NEW op \in WriteOps
    PROVE  LET r == BulkOf(d, op)
               ms == PrepareWriteOperation(d, op).mutations
           IN  /\ r \in Results
               /\ r.status = Accepted => Kept(strict, d0, r.db, Replay(e, ms))
               /\ r.status # Accepted => Kept(FALSE, d0, r.db, e)
<1> DEFINE p == PrepareWriteOperation(d, op)
           ms == p.mutations
           r0 == Result(p.status, d)
           r == FoldLeft(BulkMutation, r0, ms)
<1>1. d \in GoodDatabases /\ e \in GoodDatabases /\ d \in Databases
  BY DEF Kept, Good, GoodDatabases
<1>2. IsPrepared(p)
  BY <1>1, PreparedType
<1>3. BulkOf(d, op) = r
  BY DEF BulkOf
<1> HIDE DEF p
<1>4. /\ r0 \in Results /\ r0.db = d /\ r0.status = p.status
      /\ ms # <<>> => r0.status = Accepted
  BY <1>1, <1>2 DEF Result, Results, IsPrepared
<1>5. Kept(FALSE, d0, d, e)
  BY KeptWeaker
<1> HIDE DEF r0
<1>6. r \in Results /\ AppliesAll(r0, ms, r)
  BY <1>2, <1>4, BulkMutations
<1> HIDE DEF r
<1>7. ASSUME ms = <<>>
      PROVE  /\ r.status = Accepted => Kept(strict, d0, r.db, Replay(e, ms))
             /\ r.status # Accepted => Kept(FALSE, d0, r.db, e)
  <2>1. r = r0 /\ Replay(e, ms) = e
    BY <1>1, <1>6, <1>7, ReplayEmpty DEF AppliesAll
  <2>2. QED
    BY <1>4, <1>5, <2>1
<1>8. ASSUME NEW m \in PutMutations \cup DeleteMutations, ms = <<m>>
      PROVE  /\ r.status = Accepted => Kept(strict, d0, r.db, Replay(e, ms))
             /\ r.status # Accepted => Kept(FALSE, d0, r.db, e)
  <2>1. m \in WriteMutations /\ m \in Mutations /\ m \in Replayable
    BY DEF WriteMutations, Mutations, Replayable
  <2>2. r = BulkMutation(r0, m)
    BY <1>6, <1>8 DEF AppliesAll
  <2>3. Replay(e, ms) = ApplyMutation(e, m)
    BY <1>1, <1>8, <2>1, ReplayOne
  <2>4. ASSUME r.status = Accepted PROVE Kept(strict, d0, r.db, Replay(e, ms))
    <3>1. /\ ValidateMutation(d, m) = Accepted /\ r.db = ApplyMutation(d, m)
          /\ FitsMemory(EstimateDatabase(ApplyMutation(d, m)))
      BY <1>4, <2>1, <2>2, <2>4, BulkMutationType
    <3>2. QED
      BY <2>1, <2>3, <3>1, KeptByMutation
  <2>5. ASSUME r.status # Accepted PROVE Kept(FALSE, d0, r.db, e)
    BY <1>4, <1>5, <2>1, <2>2, <2>5, BulkMutationType
  <2>6. QED
    BY <2>4, <2>5
<1>9. ASSUME NEW c \in CreateMutations, NEW m \in PutMutations, ms = <<c, m>>
      PROVE  /\ r.status = Accepted => Kept(strict, d0, r.db, Replay(e, ms))
             /\ r.status # Accepted => Kept(FALSE, d0, r.db, e)
  <2> DEFINE r1 == BulkMutation(r0, c)
  <2>1. /\ m \in WriteMutations /\ m \in Mutations /\ m \in Replayable
        /\ c \in WriteMutations /\ c \in Mutations /\ c \in Replayable
    BY DEF WriteMutations, Mutations, Replayable
  <2>2. r = BulkMutation(r1, m)
    BY <1>6, <1>9 DEF AppliesAll
  <2>3. /\ r1 \in Results
        /\ r1.status # Accepted => r1.db = d
        /\ r1.status = Accepted => /\ ValidateMutation(d, c) = Accepted
                                   /\ r1.db = ApplyMutation(d, c)
                                   /\ FitsMemory(EstimateDatabase(ApplyMutation(d, c)))
    BY <1>4, <2>1, BulkMutationType
  <2> HIDE DEF r1
  <2>4. CASE r1.status # Accepted
    <3>1. r = r1
      BY <2>1, <2>2, <2>3, <2>4, BulkMutationType
    <3>2. QED
      BY <1>5, <2>3, <2>4, <3>1
  <2>5. CASE r1.status = Accepted
    <3> DEFINE e1 == ApplyMutation(e, c)
    <3>1. Kept(strict, d0, r1.db, e1)
      BY <2>1, <2>3, <2>5, KeptByMutation
    <3>2. Kept(FALSE, d0, r1.db, e)
      BY <1>5, <2>3, <2>5, KeptByPhantom
    <3>3. Replay(e, ms) = ApplyMutation(e1, m)
      <4>1. e1 \in GoodDatabases /\ Replay(e, <<c>>) = e1 /\ Replay(e1, <<m>>) = ApplyMutation(e1, m)
        BY <1>1, <2>1, ApplyStays, ReplayOne
      <4>2. <<c>> \in Seq(Replayable) /\ <<m>> \in Seq(Replayable)
        BY <2>1
      <4>3. Replay(e, <<c>> \o <<m>>) = Replay(Replay(e, <<c>>), <<m>>)
        BY <1>1, <4>2, ReplayConcat
      <4>4. <<c>> \o <<m>> = <<c, m>>
        BY ConcatTwo
      <4>5. QED
        BY <1>9, <4>1, <4>3, <4>4
    <3> HIDE DEF e1
    <3>4. ASSUME r.status = Accepted PROVE Kept(strict, d0, r.db, Replay(e, ms))
      <4>1. /\ ValidateMutation(r1.db, m) = Accepted /\ r.db = ApplyMutation(r1.db, m)
            /\ FitsMemory(EstimateDatabase(ApplyMutation(r1.db, m)))
        BY <2>1, <2>2, <2>3, <3>4, BulkMutationType
      <4>2. QED
        BY <2>1, <3>1, <3>3, <4>1, KeptByMutation
    <3>5. ASSUME r.status # Accepted PROVE Kept(FALSE, d0, r.db, e)
      BY <2>1, <2>2, <2>3, <3>2, <3>5, BulkMutationType
    <3>6. QED
      BY <3>4, <3>5
  <2>6. QED
    BY <2>4, <2>5
<1>10. \/ ms = <<>>
       \/ \E m \in PutMutations \cup DeleteMutations : ms = <<m>>
       \/ \E c \in CreateMutations, m \in PutMutations : ms = <<c, m>>
  BY <1>2 DEF IsPrepared
<1>11. /\ r.status = Accepted => Kept(strict, d0, r.db, Replay(e, ms))
       /\ r.status # Accepted => Kept(FALSE, d0, r.db, e)
  BY <1>7, <1>8, <1>9, <1>10
<1>12. QED
  BY <1>3, <1>6, <1>11 DEF p

Outcomes == {"error", "deleted", "not_found", "created", "updated"}

\* The candidate of a bulk request on the way, with what it is to log.
BulkStates(d0, e) ==
    {b \in [db : GoodDatabases, committed : Seq(WriteMutations), results : Seq(Outcomes)] :
         Kept(FALSE, d0, b.db, Replay(e, b.committed))}

BulkStart(d) == [db |-> d, committed |-> <<>>, results |-> <<>>]

LEMMA WriteSequences ==
    ASSUME NEW ms \in Seq(WriteMutations)
    PROVE  ms \in Seq(Mutations) /\ ms \in Seq(Replayable)
<1>1. WriteMutations \subseteq Mutations /\ WriteMutations \subseteq Replayable
  BY DEF Mutations, Replayable
<1>2. QED
  BY <1>1

LEMMA BulkOperationStays ==
    ASSUME NEW d0 \in Databases, NEW e \in GoodDatabases, NEW b \in BulkStates(d0, e),
           NEW op \in WriteOps
    PROVE  BulkOperation(b, op) \in BulkStates(d0, e)
<1> DEFINE d == b.db
           cm == b.committed
           e1 == Replay(e, cm)
           ms == PrepareWriteOperation(d, op).mutations
           r == BulkOf(d, op)
           o == WriteResult(op, d, r)
           all == IF r.status = Accepted THEN cm \o ms ELSE cm
<1>1. /\ d \in GoodDatabases /\ cm \in Seq(WriteMutations) /\ b.results \in Seq(Outcomes)
      /\ Kept(FALSE, d0, d, e1)
  BY DEF BulkStates
<1>2. d \in Databases
  BY <1>1 DEF GoodDatabases
<1>3. BulkOperation(b, op) = [db |-> r.db, committed |-> all, results |-> Append(b.results, o)]
  BY DEF BulkOperation, BulkOf
<1>4. /\ r \in Results
      /\ r.status = Accepted => Kept(FALSE, d0, r.db, Replay(e1, ms))
      /\ r.status # Accepted => Kept(FALSE, d0, r.db, e1)
  BY <1>1, KeptByBulk
<1>5. ms \in Seq(WriteMutations)
  BY <1>2, PreparedType, PreparedSequence
<1>6. Append(b.results, o) \in Seq(Outcomes)
  <2>1. o \in Outcomes
    BY DEF WriteResult, Outcomes
  <2> HIDE DEF o
  <2>2. QED
    BY <1>1, <2>1
<1>7. Replay(e, cm \o ms) = Replay(e1, ms)
  BY <1>1, <1>5, WriteSequences, ReplayConcat
<1> HIDE DEF d, r, o, ms, e1
<1>8. all \in Seq(WriteMutations) /\ Kept(FALSE, d0, r.db, Replay(e, all))
  <2>1. CASE r.status = Accepted
    <3>1. all = cm \o ms
      BY <2>1
    <3>2. cm \o ms \in Seq(WriteMutations)
      BY <1>1, <1>5, ConcatProperties
    <3> HIDE DEF all
    <3>3. QED
      BY <1>4, <1>7, <2>1, <3>1, <3>2
  <2>2. CASE r.status # Accepted
    <3>1. all = cm
      BY <2>2
    <3> HIDE DEF all, cm
    <3>2. QED
      BY <1>1, <1>4, <2>2, <3>1 DEF e1
  <2>3. QED
    BY <2>1, <2>2
<1>9. r.db \in GoodDatabases
  BY <1>4 DEF Results
<1> HIDE DEF all
<1> DEFINE rec == [db |-> r.db, committed |-> all, results |-> Append(b.results, o)]
<1>10. /\ rec \in [db : GoodDatabases, committed : Seq(WriteMutations), results : Seq(Outcomes)]
       /\ rec.db = r.db /\ rec.committed = all
  BY <1>6, <1>8, <1>9
<1>11. BulkOperation(b, op) = rec
  BY <1>3
<1> HIDE DEF rec
<1>12. Kept(FALSE, d0, rec.db, Replay(e, rec.committed))
  BY <1>8, <1>10
<1>13. QED
  BY <1>10, <1>11, <1>12 DEF BulkStates

LEMMA BulkStartStays ==
    ASSUME NEW d, NEW e, Kept(FALSE, d, d, e)
    PROVE  BulkStart(d) \in BulkStates(d, e) /\ e \in GoodDatabases /\ d \in Databases
<1>1. d \in GoodDatabases /\ e \in GoodDatabases /\ d \in Databases
  BY DEF Kept, Good, GoodDatabases
<1>2. Replay(e, <<>>) = e
  BY <1>1, ReplayEmpty
<1> DEFINE rec == BulkStart(d)
<1>3. /\ rec \in [db : GoodDatabases, committed : Seq(WriteMutations), results : Seq(Outcomes)]
      /\ rec.db = d /\ rec.committed = <<>>
  BY <1>1 DEF BulkStart
<1> HIDE DEF rec
<1>4. Kept(FALSE, d, rec.db, Replay(e, rec.committed))
  BY <1>2, <1>3
<1>5. rec \in BulkStates(d, e)
  BY <1>3, <1>4 DEF BulkStates
<1>6. QED
  BY <1>1, <1>5 DEF rec

LEMMA BulkChain ==
    ASSUME NEW d, NEW e, Kept(FALSE, d, d, e), NEW ops \in Seq(WriteOps)
    PROVE  /\ FoldsTo(BulkStates(d, e),
                      [p \in BulkStates(d, e) \X WriteOps |-> BulkOperation(p[1], p[2])],
                      BulkStart(d), ops, ApplyWriteOperations(d, ops))
           /\ ApplyWriteOperations(d, ops) \in BulkStates(d, e)
<1> DEFINE R == BulkStates(d, e)
           base == BulkStart(d)
<1>1. base \in R /\ e \in GoodDatabases /\ d \in Databases
  BY BulkStartStays
<1>2. \A b \in R, op \in WriteOps : BulkOperation(b, op) \in R
  BY <1>1, BulkOperationStays
<1>3. ApplyWriteOperations(d, ops) = FoldLeft(BulkOperation, base, ops)
  BY DEF ApplyWriteOperations, BulkStart
<1> DEFINE r == FoldLeft(BulkOperation, base, ops)
<1> HIDE DEF R, base
<1>4. FoldsTo(R, [p \in R \X WriteOps |-> BulkOperation(p[1], p[2])], base, ops, r) /\ r \in R
  BY <1>1, <1>2, BulkOperationFold
<1> HIDE DEF r
<1>5. QED
  BY <1>3, <1>4 DEF R, base, r

LEMMA KeptByBulkRequest ==
    ASSUME NEW d, NEW e, Kept(FALSE, d, d, e), NEW ops \in Seq(WriteOps)
    PROVE  LET b == ApplyWriteOperations(d, ops)
           IN  b.committed \in Seq(WriteMutations) /\ Kept(FALSE, d, b.db, Replay(e, b.committed))
<1> DEFINE b == ApplyWriteOperations(d, ops)
<1>1. b \in BulkStates(d, e)
  BY BulkChain
<1> HIDE DEF b
<1>2. QED
  BY <1>1 DEF BulkStates, b

\* No operation, and one.
LEMMA BulkOfNone ==
    ASSUME NEW d, NEW e, Kept(FALSE, d, d, e)
    PROVE  ApplyWriteOperations(d, <<>>) = BulkStart(d)
<1> DEFINE R == BulkStates(d, e)
           F == [p \in R \X WriteOps |-> BulkOperation(p[1], p[2])]
<1>1. <<>> \in Seq(WriteOps) /\ Len(<<>>) \in Nat
  OBVIOUS
<1>2. FoldsTo(R, F, BulkStart(d), <<>>, ApplyWriteOperations(d, <<>>))
  BY <1>1, BulkChain
<1>3. BulkStart(d) \in R
  BY BulkStartStays
<1> HIDE DEF R, F
<1>4. FoldsTo(R, F, BulkStart(d), <<>>, BulkStart(d))
  BY <1>3, FoldEmpty
<1>5. QED
  BY <1>1, <1>2, <1>4, FoldUnique

LEMMA BulkOfOne ==
    ASSUME NEW d, NEW e, Kept(FALSE, d, d, e), NEW op \in WriteOps
    PROVE  LET b == ApplyWriteOperations(d, <<op>>)
               r == BulkOf(d, op)
           IN  /\ b.db = r.db
               /\ b.committed = IF r.status = Accepted THEN PrepareWriteOperation(d, op).mutations
                                ELSE <<>>
               /\ b.results[1] = WriteResult(op, d, r)
<1> DEFINE R == BulkStates(d, e)
           F == [p \in R \X WriteOps |-> BulkOperation(p[1], p[2])]
           base == BulkStart(d)
           b == BulkOperation(base, op)
           ms == PrepareWriteOperation(d, op).mutations
           r == BulkOf(d, op)
           o == WriteResult(op, d, r)
<1>1. <<op>> \in Seq(WriteOps) /\ Len(<<op>>) \in Nat
  OBVIOUS
<1>2. FoldsTo(R, F, base, <<op>>, ApplyWriteOperations(d, <<op>>))
  BY <1>1, BulkChain
<1>3. base \in R /\ b \in R
  BY BulkStartStays, BulkOperationStays
<1>4. F[<<base, op>>] = b
  BY <1>3
<1>5. base.db = d /\ base.committed = <<>> /\ base.results = <<>>
  BY DEF BulkStart
<1>6. ms \in Seq(WriteMutations)
  BY PreparedType, PreparedSequence DEF Kept, Good
<1> HIDE DEF R, F, base
<1>7. b = [db |-> r.db, committed |-> IF r.status = Accepted THEN <<>> \o ms ELSE <<>>,
           results |-> Append(<<>>, o)]
  BY <1>5 DEF BulkOperation, BulkOf
<1> HIDE DEF b
<1>8. FoldsTo(R, F, base, <<op>>, F[<<base, op>>])
  BY <1>3, <1>4, FoldOne
<1>9. ApplyWriteOperations(d, <<op>>) = b
  BY <1>1, <1>2, <1>4, <1>8, FoldUnique
<1> HIDE DEF r, ms, o
<1>10. <<>> \o ms = ms /\ Append(<<>>, o)[1] = o
  BY <1>6
<1>11. QED
  BY <1>7, <1>9, <1>10 DEF r, ms, o

\* A single operation that is logged leaves no index in memory only.
LEMMA KeptBySingle ==
    ASSUME NEW strict, NEW d, NEW e, Kept(strict, d, d, e), NEW op \in WriteOps
    PROVE  LET b == ApplyWriteOperations(d, <<op>>)
           IN  /\ b.committed \in Seq(WriteMutations)
               /\ b.committed # <<>> => Kept(strict, d, b.db, Replay(e, b.committed))
<1> DEFINE b == ApplyWriteOperations(d, <<op>>)
           r == BulkOf(d, op)
           ms == PrepareWriteOperation(d, op).mutations
<1>1. Kept(FALSE, d, d, e) /\ d \in Databases
  BY KeptWeaker DEF Kept, Good
<1>2. /\ b.db = r.db
      /\ b.committed = IF r.status = Accepted THEN ms ELSE <<>>
  BY <1>1, BulkOfOne
<1>3. r.status = Accepted => Kept(strict, d, r.db, Replay(e, ms))
  BY <1>1, KeptByBulk
<1>4. ms \in Seq(WriteMutations)
  BY <1>1, PreparedType, PreparedSequence
<1> HIDE DEF b, r, ms
<1>5. b.committed \in Seq(WriteMutations)
  <2>1. <<>> \in Seq(WriteMutations)
    OBVIOUS
  <2>2. QED
    BY <1>2, <1>4, <2>1
<1>6. ASSUME b.committed # <<>> PROVE Kept(strict, d, b.db, Replay(e, b.committed))
  <2>1. r.status = Accepted /\ b.committed = ms
    BY <1>2, <1>6
  <2>2. QED
    BY <1>2, <1>3, <2>1
<1>7. QED
  BY <1>5, <1>6 DEF b

-----------------------------------------------------------------------------
(* apply_dynamic_write_operations_atomic.                                  *)

AtomicStates(strict, d0, e) ==
    {a \in [status : Statuses, db : GoodDatabases, committed : Seq(WriteMutations)] :
         a.status = Accepted => Kept(strict, d0, a.db, Replay(e, a.committed))}

LEMMA AtomicOperationStays ==
    ASSUME NEW strict, NEW d0 \in Databases, NEW e \in GoodDatabases,
           NEW a \in AtomicStates(strict, d0, e), NEW op \in WriteOps
    PROVE  AtomicOperation(a, op) \in AtomicStates(strict, d0, e)
<1> DEFINE d == a.db
           cm == a.committed
           e1 == Replay(e, cm)
           p == PrepareWriteOperation(d, op)
           ms == p.mutations
           r0 == Result(p.status, d)
           r == FoldLeft(CommitOne, r0, ms)
<1>1. /\ d \in GoodDatabases /\ cm \in Seq(WriteMutations) /\ a.status \in Statuses
      /\ a.status = Accepted => Kept(strict, d0, d, e1)
  BY DEF AtomicStates
<1>2. d \in Databases
  BY <1>1 DEF GoodDatabases
<1>3. AtomicOperation(a, op) = IF a.status # Accepted THEN a
                               ELSE [status |-> r.status, db |-> r.db, committed |-> cm \o ms]
  BY DEF AtomicOperation
<1>4. CASE a.status # Accepted
  BY <1>3, <1>4
<1>5. CASE a.status = Accepted
  <2>1. IsPrepared(p)
    BY <1>2, PreparedType
  <2> HIDE DEF p
  <2>2. ms \in Seq(WriteMutations) /\ ms \in Seq(Mutations)
    BY <2>1, PreparedSequence
  <2>3. r0 \in Results /\ r0.db = d
    BY <1>1, <2>1 DEF Result, Results, IsPrepared
  <2>4. e1 \in GoodDatabases /\ Replay(e, cm \o ms) = Replay(e1, ms)
    BY <1>1, <2>2, WriteSequences, ReplayConcat, ReplayChain
  <2> HIDE DEF r0, e1
  <2>5. Kept(strict, d0, r0.db, e1)
    BY <1>1, <1>5, <2>3
  <2>6. r \in Results /\ (r.status = Accepted => Kept(strict, d0, r.db, Replay(e1, ms)))
    BY <2>2, <2>3, <2>4, <2>5, CommitsAndReplay
  <2> HIDE DEF r
  <2>7. r.status \in Statuses /\ r.db \in GoodDatabases
    BY <2>6 DEF Results
  <2>8. cm \o ms \in Seq(WriteMutations)
    BY <1>1, <2>2
  <2> DEFINE rec == [status |-> r.status, db |-> r.db, committed |-> cm \o ms]
  <2>9. /\ rec \in [status : Statuses, db : GoodDatabases, committed : Seq(WriteMutations)]
        /\ rec.status = r.status /\ rec.db = r.db /\ rec.committed = cm \o ms
    BY <2>7, <2>8
  <2>10. AtomicOperation(a, op) = rec
    BY <1>3, <1>5
  <2> HIDE DEF rec
  <2>11. rec.status = Accepted => Kept(strict, d0, rec.db, Replay(e, rec.committed))
    BY <2>4, <2>6, <2>9
  <2>12. QED
    BY <2>9, <2>10, <2>11 DEF AtomicStates
<1>6. QED
  BY <1>4, <1>5

LEMMA KeptByAtomic ==
    ASSUME NEW strict, NEW d, NEW e, Kept(strict, d, d, e), NEW ops \in Seq(WriteOps)
    PROVE  LET a == ApplyAtomic(d, ops)
           IN  /\ a.committed \in Seq(WriteMutations)
               /\ a.status = Accepted => Kept(strict, d, a.db, Replay(e, a.committed))
<1> DEFINE R == AtomicStates(strict, d, e)
           base == [status |-> Accepted, db |-> d, committed |-> <<>>]
           a == ApplyAtomic(d, ops)
<1>1. d \in GoodDatabases /\ e \in GoodDatabases /\ d \in Databases
  BY DEF Kept, Good, GoodDatabases
<1>2. base \in R
  BY <1>1, ReplayEmpty DEF AtomicStates, Statuses, Accepted
<1>3. \A b \in R, op \in WriteOps : AtomicOperation(b, op) \in R
  BY <1>1, AtomicOperationStays
<1>4. a = FoldLeft(AtomicOperation, base, ops)
  BY DEF ApplyAtomic
<1> HIDE DEF R, base, a
<1>5. a \in R
  BY <1>2, <1>3, <1>4, AtomicOperationFold
<1>6. QED
  BY <1>5 DEF R, AtomicStates, a

-----------------------------------------------------------------------------
(* The sequences that requests are made of.                                *)

LEMMA SetToSeqType ==
    ASSUME NEW S, IsFiniteSet(S)
    PROVE  SetToSeq(S) \in Seq(S)
<1> DEFINE n == Cardinality(S)
<1>1. n \in Nat /\ ExistsBijection(1..n, S)
  BY FS_CardinalityType
<1> HIDE DEF n
<1>2. PICK f \in [1..n -> S] : IsInjective(f)
  BY <1>1 DEF ExistsBijection, Bijection, Injection
<1>3. SetToSeq(S) \in [1..n -> S]
  BY <1>2 DEF SetToSeq, n
<1>4. QED
  BY <1>1, <1>3

LEMMA SeqOfType ==
    ASSUME NEW S, NEW n \in Nat, NEW s \in SeqOf(S, n)
    PROVE  s \in Seq(S) /\ Len(s) <= n
<1>1. PICK m \in 0..n : s \in [1..m -> S]
  BY DEF SeqOf
<1>2. m \in Nat
  OBVIOUS
<1>3. s \in Seq(S) /\ Len(s) = m
  BY <1>1, <1>2
<1>4. QED
  BY <1>3

LEMMA DocumentsFinite ==
    ASSUME NEW d \in Databases, NEW names, NEW ids
    PROVE  IsFiniteSet(DocumentsOf(d, names, ids))
<1> DEFINE N == DOMAIN d.indexes
           f == [n \in N |-> DOMAIN d.indexes[n].documents]
           T == {f[n] : n \in N}
<1>1. IsFiniteSet(N) /\ \A n \in N : d.indexes[n] \in Indexes
  BY TableOf DEF Databases
<1>2. ASSUME NEW n \in N PROVE IsFiniteSet(f[n])
  <2>1. d.indexes[n].documents \in DocumentTables
    BY <1>1 DEF Indexes
  <2>2. QED
    BY <2>1, TableOf DEF DocumentTables
<1>3. f \in Surjection(N, T)
  BY DEF Surjection
<1>4. IsFiniteSet(T)
  <2> HIDE DEF f, N, T
  <2>1. QED
    BY <1>1, <1>3, FS_Surjection
<1>5. IsFiniteSet(UNION T)
  <2>1. \A x \in T : IsFiniteSet(x)
    BY <1>2
  <2> HIDE DEF T
  <2>2. QED
    BY <1>4, <2>1, FS_UNION
<1>6. IsFiniteSet(N \X UNION T)
  <2> HIDE DEF N, T
  <2>1. QED
    BY <1>1, <1>5, FS_Product
<1>7. DocumentsOf(d, names, ids) \subseteq N \X UNION T
  BY DEF DocumentsOf, Has
<1> HIDE DEF N, T
<1>8. QED
  BY <1>6, <1>7, FS_Subset

LEMMA MatchedType ==
    ASSUME NEW d \in Databases, NEW names \in SUBSET Names, NEW ids \in SUBSET Ids,
           NEW docs \in SUBSET DocumentsOf(d, names, ids)
    PROVE  /\ SetToSeq(docs) \in Seq(docs) /\ SetToSeq(docs) \in Seq(DocumentsOf(d, names, ids))
           /\ \A doc \in docs : /\ doc[1] \in names /\ doc[2] \in ids
                                /\ d.indexes[doc[1]].documents[doc[2]].source \in Objects
<1>1. IsFiniteSet(docs)
  BY DocumentsFinite, FS_Subset
<1>2. SetToSeq(docs) \in Seq(docs)
  BY <1>1, SetToSeqType
<1>3. SetToSeq(docs) \in Seq(DocumentsOf(d, names, ids))
  BY <1>2, SeqMonotonic
<1>4. ASSUME NEW doc \in docs
      PROVE  /\ doc[1] \in names /\ doc[2] \in ids
             /\ d.indexes[doc[1]].documents[doc[2]].source \in Objects
  <2>1. /\ doc[1] \in names /\ doc[2] \in ids
        /\ doc[1] \in DOMAIN d.indexes /\ doc[2] \in DOMAIN d.indexes[doc[1]].documents
    BY DEF DocumentsOf, Has
  <2>2. d.indexes[doc[1]] \in Indexes
    BY <2>1, TableOf DEF Databases
  <2>3. d.indexes[doc[1]].documents \in DocumentTables
    BY <2>2 DEF Indexes
  <2>4. d.indexes[doc[1]].documents[doc[2]] \in StoredDocuments
    BY <2>1, <2>3, TableOf DEF DocumentTables
  <2>5. QED
    BY <2>1, <2>4 DEF StoredDocuments
<1>5. QED
  BY <1>2, <1>3, <1>4

LEMMA EmitStays ==
    ASSUME NEW removed, NEW s \in Seq(AliasMutations), NEW m \in AliasMutations
    PROVE  EmitInto(removed, s, m) \in Seq(AliasMutations)
<1> DEFINE R == Seq(AliasMutations)
<1>1. CASE m.kind = "PutAlias"
  <2> DEFINE x == [kind |-> "DeleteIndex", index |-> m.alias]
  <2>1. m.alias \in Names
    BY <1>1 DEF AliasMutations
  <2>2. x \in AliasMutations
    BY <2>1 DEF AliasMutations
  <2>3. <<x, m>> \in R
    BY <2>2
  <2>4. s \o <<x, m>> \in R /\ Append(s, m) \in R
    BY <2>3, ConcatProperties, AppendProperties
  <2> HIDE DEF R
  <2>5. EmitInto(removed, s, m) \in R
    BY <1>1, <2>4 DEF EmitInto
  <2>6. QED
    BY <2>5 DEF R
<1>2. CASE m.kind # "PutAlias"
  <2>1. Append(s, m) \in R
    OBVIOUS
  <2>2. QED
    BY <1>2, <2>1 DEF EmitInto
<1>3. QED
  BY <1>1, <1>2

LEMMA OrderedType ==
    ASSUME NEW ms \in Seq(AliasMutations)
    PROVE  OrderAliasMutations(ms) \in Seq(Mutations)
<1> DEFINE R == Seq(AliasMutations)
           removed == RemovedBy(ms)
<1>1. <<>> \in R
  OBVIOUS
<1>2. \A s \in R, m \in AliasMutations : EmitInto(removed, s, m) \in R
  BY EmitStays
<1> HIDE DEF R, removed
<1>3. OrderAliasMutations(ms) \in R
  BY <1>1, <1>2, OrderFold DEF removed
<1>4. AliasMutations \subseteq Mutations
  BY DEF AliasMutations, Mutations, NamedMutations
<1>5. QED
  BY <1>3, <1>4, SeqMonotonic DEF R

LEMMA ReindexType ==
    ASSUME db \in Databases, NEW docs \in SUBSET MatchedDocs, NEW dest \in Names,
           NEW create \in BOOLEAN, NEW proceed \in BOOLEAN
    PROVE  ReindexPlan(SetToSeq(docs), dest, create, proceed).ops \in Seq(WriteOps)
<1> DEFINE R == [failed : BOOLEAN, ops : Seq(PutOps)]
           base == [failed |-> FALSE, ops |-> <<>>]
           arg == [dest |-> dest, create |-> create, proceed |-> proceed]
           s == SetToSeq(docs)
<1>1. /\ s \in Seq(docs)
      /\ \A doc \in docs : doc[1] \in Names /\ doc[2] \in Ids /\ Source(doc) \in Objects
  BY MatchedType DEF MatchedDocs, Source
<1>2. ASSUME NEW plan \in R, NEW doc \in docs
      PROVE  PlanCopy(arg, plan, doc) \in R
  <2> DEFINE op == [kind |-> IF create THEN "CreateDocument" ELSE "IndexDocument",
                    name |-> dest, id |-> doc[2], source |-> Source(doc)]
  <2>1. op \in PutOps
    BY <1>1 DEF PutOps
  <2>2. plan.failed \in BOOLEAN /\ plan.ops \in Seq(PutOps)
    OBVIOUS
  <2> HIDE DEF op
  <2>3. Append(plan.ops, op) \in Seq(PutOps)
    BY <2>1, <2>2
  <2>4. [plan EXCEPT !.ops = Append(@, op)] \in R /\ [plan EXCEPT !.failed = ~proceed] \in R
    BY <2>3
  <2>5. QED
    BY <2>4 DEF PlanCopy, op
<1>3. base \in R
  OBVIOUS
<1> DEFINE r == ReindexPlan(s, dest, create, proceed)
<1>4. r = ReindexPlan(s, arg.dest, arg.create, arg.proceed)
  OBVIOUS
<1>5. r \in R
  <2> HIDE DEF R, arg, s, r
  <2>1. \A plan \in R, doc \in docs : PlanCopy(arg, plan, doc) \in R
    BY <1>2
  <2>2. ReindexPlan(s, arg.dest, arg.create, arg.proceed) \in R
    BY <1>1, <1>3, <2>1, ReindexFold
  <2>3. QED
    BY <1>4, <2>2
<1>6. r.ops \in Seq(PutOps)
  <2> HIDE DEF r
  <2>1. QED
    BY <1>5
<1>7. PutOps \subseteq WriteOps
  BY DEF WriteOps
<1>8. QED
  BY <1>6, <1>7, SeqMonotonic

LEMMA RepairsType ==
    ASSUME NEW d \in Databases
    PROVE  Repairs(d) \in Seq(Renames)
<1> DEFINE R == Seq(Renames)
           M == DocumentsOf(d, Dashboards, DOMAIN Legacy)
           s == SetToSeq(M)
<1>1. /\ Dashboards \subseteq Names /\ DOMAIN Legacy \subseteq Ids /\ Range(Legacy) \subseteq Ids
  BY DatabaseAssumption
<1>2. s \in Seq(M)
  BY <1>1, MatchedType
<1>3. ASSUME NEW ms \in R, NEW doc \in M
      PROVE  PlanRepair(d, ms, doc) \in R
  <2> DEFINE m == [kind |-> "RenameDocument", index |-> doc[1], id |-> doc[2],
                   newId |-> Legacy[doc[2]]]
  <2>1. doc[1] \in Names /\ doc[2] \in DOMAIN Legacy
    BY <1>1 DEF DocumentsOf
  <2>2. Legacy[doc[2]] \in Ids
    BY <1>1, <2>1 DEF Range
  <2>3. m \in Renames
    BY <2>1, <2>2 DEF Renames
  <2> HIDE DEF m
  <2>4. Append(ms, m) \in R
    BY <2>3
  <2>5. QED
    BY <2>4 DEF PlanRepair, m
<1>4. <<>> \in R
  OBVIOUS
<1> HIDE DEF R, M
<1>5. \A ms \in R, doc \in M : PlanRepair(d, ms, doc) \in R
  BY <1>3
<1>6. Repairs(d) \in R
  BY <1>2, <1>4, <1>5, RepairFold DEF M
<1>7. QED
  BY <1>6 DEF R

-----------------------------------------------------------------------------
(* Opening the store.                                                      *)

LEMMA KeptByRepairs ==
    ASSUME NEW strict, NEW d, Kept(strict, d, d, d), NEW ms \in Seq(Renames)
    PROVE  LET e == Replay(d, ms) IN Kept(strict, e, e, e)
<1> DEFINE R == {x \in GoodDatabases : Kept(strict, x, x, x)}
<1>1. d \in R
  BY DEF Kept, Good, GoodDatabases
<1>2. ASSUME NEW x \in R, NEW m \in Renames
      PROVE  ApplyMutation(x, m) \in R
  <2> DEFINE y == ApplyMutation(x, m)
  <2>1. Kept(strict, y, y, y)
    BY KeptByRename DEF GoodDatabases
  <2> HIDE DEF y
  <2>2. y \in GoodDatabases
    BY <2>1 DEF Kept, Good, GoodDatabases
  <2>3. QED
    BY <2>1, <2>2 DEF y
<1> HIDE DEF R
<1>3. \A x \in R, m \in Renames : ApplyMutation(x, m) \in R
  BY <1>2
<1>4. FoldLeft(ApplyMutation, d, ms) \in R
  BY <1>1, <1>3, ReplayFold
<1>5. QED
  BY <1>4 DEF R, Replay

\* What was committed can be opened again.
LEMMA LoadAlwaysFits ==
    ASSUME NEW strict, NEW d, NEW e, Kept(strict, d, d, e)
    PROVE  LoadFits(e)
<1>1. d \in Databases /\ e \in Databases
  BY DEF Kept, Good
<1>2. Kept(strict, e, e, e)
  BY <1>1, KeptByLoad
<1>3. Repairs(e) \in Seq(Renames)
  BY <1>1, RepairsType
<1> DEFINE ms == Repairs(e)
<1>4. ASSUME NEW k \in 0..Len(ms)
      PROVE  FitsMemory(EstimateDatabase(Replay(e, SubSeq(ms, 1, k))))
  <2>1. \A i \in 1..k : ms[i] \in Renames
    BY <1>3
  <2>2. SubSeq(ms, 1, k) \in Seq(Renames)
    <3>1. 1 \in Int /\ k \in Int
      BY <1>3
    <3> HIDE DEF ms
    <3>2. QED
      BY <2>1, <3>1, SubSeqProperties
  <2> DEFINE x == SubSeq(ms, 1, k)
             y == Replay(e, x)
  <2> HIDE DEF x, ms
  <2>3. Kept(strict, y, y, y)
    BY <1>2, <2>2, KeptByRepairs DEF x
  <2> HIDE DEF y
  <2>4. FitsMemory(EstimateDatabase(y))
    BY <2>3 DEF Kept
  <2>5. QED
    BY <2>4 DEF x, y
<1>5. QED
  BY <1>4 DEF LoadFits

-----------------------------------------------------------------------------
(* The inductive invariant.  An index can be in memory only where a bulk   *)
(* request may carry a failing operation next to one that succeeds.        *)

NoPhantoms == "Bulk" \notin Requests \/ MaxBulk <= 1

\* What a client holds that looked a document up.
DocumentRequests ==
    [kind : {"DocumentRequest"}, request : {"IndexDocument", "DeleteDocument"},
     name : Names, id : Ids, seen : SUBSET Nat, index : Names \cup {NoName}, since : Nat]

PendingStates ==
    {Nothing} \cup [kind : {"DeleteIndex"}, index : Names]
    \cup [kind : {"PutConfig"}, index : Names, config : Objects]
    \cup [kind : {"PutAlias", "DeleteAlias"}, index : Names, alias : Names]
    \cup AgentRequests \cup [kind : {"Answer"}, status : Nat]
    \cup DocumentRequests
    \cup [kind : {"DocumentAnswer"}, result : Outcomes, version : SUBSET Nat]

VersionsAt(ix, id) == IF Has(ix.documents, id) THEN {ix.documents[id].version} ELSE {}

\* A document is as the request saw it, or the database shows why it is not.
Explained(d, p) ==
    /\ p.since <= d.seqNo
    /\ p.index = NoName => p.seen = {}
    /\ Has(d.indexes, p.index) =>
           LET ix == d.indexes[p.index]
           IN  WrittenSince(ix, p.id, p.since) \/ p.seen = VersionsAt(ix, p.id)

WriteInv ==
    /\ Kept(NoPhantoms, db, db, disk)
    /\ pending \in [Clients -> PendingStates]
    /\ \A c \in Clients : pending[c].kind = "DocumentRequest" => Explained(db, pending[c])

\* What every step establishes: only a restart, which ends every request, does
\* not trace back to the database before it.
StepKept ==
    /\ \/ Kept(NoPhantoms, db, db', disk')
       \/ Kept(NoPhantoms, db', db', disk') /\ \A c \in Clients : pending'[c] = Nothing
    /\ pending' \in [Clients -> PendingStates]

LEMMA PersistKeeps ==
    ASSUME NEW strict, NEW candidate, NEW ms, db \in Databases,
           Kept(strict, db, candidate, Replay(disk, ms)), Persist(candidate, ms)
    PROVE  Kept(strict, db, db', disk')
<1>1. Kept(strict, db, candidate, RecomputeStoreSizes(candidate))
  BY KeptBySnapshot
<1>2. QED
  BY <1>1 DEF Persist

LEMMA CommitKeeps ==
    ASSUME NEW strict, Kept(strict, db, db, disk), NEW ms \in Seq(Mutations),
           CommitMutations(ms)
    PROVE  Kept(strict, db, db', disk')
<1> DEFINE r == CommitAll(db, ms)
<1>1. r.status = Accepted /\ Persist(r.db, ms)
  BY DEF CommitMutations
<1>2. r.status = Accepted => Kept(strict, db, r.db, Replay(disk, ms))
  BY KeptByCommit
<1>3. db \in Databases
  BY DEF Kept, Good
<1> HIDE DEF r
<1>4. QED
  BY <1>1, <1>2, <1>3, PersistKeeps

\* A request that commits one mutation of the client.
LEMMA CommitOneKeeps ==
    ASSUME NEW strict, Kept(strict, db, db, disk), NEW m \in Mutations,
           CommitMutations(<<m>>)
    PROVE  Kept(strict, db, db', disk')
<1>1. <<m>> \in Seq(Mutations)
  OBVIOUS
<1>2. QED
  BY <1>1, CommitKeeps

LEMMA CatalogSteps ==
    ASSUME WriteInv,
           CreateIndex \/ Template \/ RegistryObject \/ ComponentTemplate \/ LegacyTemplate
    PROVE  StepKept
<1>1. Kept(NoPhantoms, db, db, disk) /\ pending \in [Clients -> PendingStates]
  BY DEF WriteInv
<1>2. pending' = pending
  BY DEF CreateIndex, Template, RegistryObject, ComponentTemplate, LegacyTemplate
<1>3. db \in Databases
  BY <1>1 DEF Kept, Good
<1>4. CASE CreateIndex
  <2>1. PICK n \in Names, config \in Objects :
            CommitMutations(<<[kind |-> "CreateIndex", index |-> n, config |-> config]>>)
    BY <1>4 DEF CreateIndex
  <2> DEFINE m == [kind |-> "CreateIndex", index |-> n, config |-> config]
  <2>2. m \in Mutations
    BY DEF Mutations, WriteMutations, CreateMutations
  <2> HIDE DEF m
  <2>3. QED
    BY <1>1, <1>2, <2>1, <2>2, CommitOneKeeps DEF StepKept, m
<1>5. CASE Template
  <2>1. PICK t \in Templates :
          \/ \E patterns \in SUBSET Names, config \in Objects :
                 CommitMutations(<<[kind |-> "PutTemplate", template |-> t,
                     body |-> [patterns |-> patterns, config |-> config]]>>)
          \/ CommitMutations(<<[kind |-> "DeleteTemplate", template |-> t]>>)
    BY <1>5 DEF Template
  <2>2. PICK m \in Mutations : CommitMutations(<<m>>)
    <3>1. ASSUME NEW patterns \in SUBSET Names, NEW config \in Objects
          PROVE  [kind |-> "PutTemplate", template |-> t,
                  body |-> [patterns |-> patterns, config |-> config]] \in Mutations
      BY DEF Mutations, CatalogMutations, Bodies
    <3>2. [kind |-> "DeleteTemplate", template |-> t] \in Mutations
      BY DEF Mutations, CatalogMutations
    <3>3. QED
      BY <2>1, <3>1, <3>2
  <2>3. QED
    BY <1>1, <1>2, <2>2, CommitOneKeeps DEF StepKept
<1>6. CASE RegistryObject \/ ComponentTemplate \/ LegacyTemplate
  <2>1. ASSUME NEW o \in Registry, NEW body \in Objects
        PROVE  [kind |-> "PutRegistryObject", object |-> o, body |-> body] \in Mutations
    BY DEF Mutations, CatalogMutations
  <2>2. ASSUME NEW o \in Registry
        PROVE  [kind |-> "DeleteRegistryObject", object |-> o] \in Mutations
    BY DEF Mutations, CatalogMutations
  <2>3. DOMAIN db.registry \subseteq Registry
    BY <1>3, TableOf DEF Databases
  <2>4. PICK m \in Mutations : CommitMutations(<<m>>)
    <3>1. CASE LegacyTemplate
      BY <2>2, <2>3, <3>1 DEF LegacyTemplate
    <3>2. CASE RegistryObject \/ ComponentTemplate
      <4>1. PICK o \in Registry :
              \/ \E body \in Objects :
                     CommitMutations(<<[kind |-> "PutRegistryObject", object |-> o,
                                        body |-> body]>>)
              \/ CommitMutations(<<[kind |-> "DeleteRegistryObject", object |-> o]>>)
        BY <3>2 DEF RegistryObject, ComponentTemplate
      <4>2. QED
        BY <2>1, <2>2, <4>1
    <3>3. QED
      BY <1>6, <3>1, <3>2
  <2>5. QED
    BY <1>1, <1>2, <2>4, CommitOneKeeps DEF StepKept
<1>7. QED
  BY <1>4, <1>5, <1>6

\* A client notes what it is about to do, or what it was answered.
LEMMA HeldSteps ==
    ASSUME WriteInv, NEW c \in Clients, NEW p \in PendingStates,
           UNCHANGED <<db, disk>>, pending' = [pending EXCEPT ![c] = p]
    PROVE  StepKept
BY DEF WriteInv, StepKept

LEMMA NamedSteps ==
    ASSUME WriteInv, NEW c \in Clients,
           DeleteIndex(c) \/ PutConfig(c) \/ PutAlias(c) \/ DeleteAlias(c) \/ AskAgent(c)
    PROVE  StepKept
<1>1. db \in Databases
  BY DEF WriteInv, Kept, Good
<1>2. ASSUME NEW n \in Names, Resolves(c, n)
      PROVE  ResolveIndex(db, n) \in Names
  BY <1>1, <1>2, ResolveType DEF Resolves
<1>3. PICK p \in PendingStates : Hold(c, p)
  <2>1. CASE DeleteIndex(c)
    <3>1. PICK n \in Names : /\ Resolves(c, n)
                             /\ Hold(c, [kind |-> "DeleteIndex", index |-> ResolveIndex(db, n)])
      BY <2>1 DEF DeleteIndex
    <3>2. [kind |-> "DeleteIndex", index |-> ResolveIndex(db, n)] \in PendingStates
      BY <1>2, <3>1 DEF PendingStates
    <3>3. QED
      BY <3>1, <3>2
  <2>2. CASE PutConfig(c)
    <3>1. PICK n \in Names, config \in Objects :
              /\ Resolves(c, n)
              /\ Hold(c, [kind |-> "PutConfig", index |-> ResolveIndex(db, n),
                          config |-> config])
      BY <2>2 DEF PutConfig
    <3>2. [kind |-> "PutConfig", index |-> ResolveIndex(db, n), config |-> config]
              \in PendingStates
      BY <1>2, <3>1 DEF PendingStates
    <3>3. QED
      BY <3>1, <3>2
  <2>3. CASE PutAlias(c)
    <3>1. PICK n \in Names, alias \in Names :
              /\ Resolves(c, n)
              /\ Hold(c, [kind |-> "PutAlias", index |-> ResolveIndex(db, n),
                          alias |-> alias])
      BY <2>3 DEF PutAlias
    <3>2. [kind |-> "PutAlias", index |-> ResolveIndex(db, n), alias |-> alias]
              \in PendingStates
      BY <1>2, <3>1 DEF PendingStates
    <3>3. QED
      BY <3>1, <3>2
  <2>4. CASE DeleteAlias(c)
    <3>1. PICK n \in Names, alias \in Names :
              /\ Resolves(c, n)
              /\ Hold(c, [kind |-> "DeleteAlias", index |-> ResolveIndex(db, n),
                          alias |-> alias])
      BY <2>4 DEF DeleteAlias
    <3>2. [kind |-> "DeleteAlias", index |-> ResolveIndex(db, n), alias |-> alias]
              \in PendingStates
      BY <1>2, <3>1 DEF PendingStates
    <3>3. QED
      BY <3>1, <3>2
  <2>5. CASE AskAgent(c)
    BY <2>5 DEF AskAgent, PendingStates
  <2>6. QED
    BY <2>1, <2>2, <2>3, <2>4, <2>5
<1>4. QED
  BY <1>3, HeldSteps DEF Hold

LEMMA CommitPendingStep ==
    ASSUME WriteInv, NEW c \in Clients, CommitPending(c)
    PROVE  StepKept
<1>1. Kept(NoPhantoms, db, db, disk) /\ pending \in [Clients -> PendingStates]
  BY DEF WriteInv
<1>2. pending' = [pending EXCEPT ![c] = Nothing] /\ Nothing \in PendingStates
  BY DEF CommitPending, PendingStates
<1>3. pending' \in [Clients -> PendingStates]
  BY <1>1, <1>2
<1>4. pending[c] \in Mutations
  <2>1. /\ pending[c] \in PendingStates
        /\ pending[c].kind \notin {"Nothing", "Answer", "AgentWrite", "DocumentRequest",
                                   "DocumentAnswer"}
    BY <1>1 DEF CommitPending, Holding, Idle
  <2>2. \A r \in AgentRequests : r.kind = "AgentWrite"
    BY DEF AgentRequests
  <2>3. Nothing.kind = "Nothing"
    BY DEF Nothing
  <2>4. /\ \A r \in [kind : {"Answer"}, status : Nat] : r.kind = "Answer"
        /\ \A r \in DocumentRequests : r.kind = "DocumentRequest"
        /\ \A r \in [kind : {"DocumentAnswer"}, result : Outcomes, version : SUBSET Nat] :
               r.kind = "DocumentAnswer"
    BY DEF DocumentRequests
  <2>5. pending[c] \in NamedMutations
    BY <2>1, <2>2, <2>3, <2>4 DEF PendingStates, NamedMutations
  <2>6. QED
    BY <2>5 DEF Mutations
<1>5. CASE CommitMutations(<<pending[c]>>)
  BY <1>1, <1>3, <1>4, <1>5, CommitOneKeeps DEF StepKept
<1>6. CASE UNCHANGED <<db, disk>>
  BY <1>2, <1>6, HeldSteps
<1>7. QED
  BY <1>5, <1>6 DEF CommitPending

-----------------------------------------------------------------------------
(* A write through the agent.                                              *)

LEMMA NoCallsNoMutations == AllMutations(<<>>) = <<>>
<1> DEFINE f == [i \in DOMAIN <<>> |-> <<>>[i].mutations]
<1>1. DOMAIN <<>> = 1..0
  BY EmptySeq, LenProperties
<1>2. f \in [1..0 -> {}]
  BY <1>1
<1>3. f \in Seq({}) /\ Len(f) = 0
  BY <1>2, SeqDef, LenProperties
<1> HIDE DEF f
<1>4. FlattenSeq(f) = f
  BY <1>3 DEF FlattenSeq
<1>5. f = <<>>
  BY <1>3, EmptySeq
<1>6. QED
  BY <1>4, <1>5 DEF AllMutations, f

AnswerTo(c, status) ==
    pending' = [pending EXCEPT ![c] = [kind |-> "Answer", status |-> status]]

\* Whatever the endpoint replies, the request is committed and answered with a
\* success, or nothing is committed and the answer is none.
LEMMA AgentCases ==
    ASSUME WriteInv, NEW c \in Clients, AgentReply(c)
    PROVE  /\ pending[c] \in AgentRequests
           /\ \E status \in Nat :
                  /\ AnswerTo(c, status)
                  /\ \/ UNCHANGED <<db, disk>> /\ ~Success(status)
                     \/ CommitMutations(<<Requested(pending[c])>>) /\ Success(status)
<1>1. Kept(NoPhantoms, db, db, disk) /\ pending \in [Clients -> PendingStates]
  BY DEF WriteInv
<1>2. pending[c] \in AgentRequests
  <2>1. pending[c] \in PendingStates /\ pending[c].kind = "AgentWrite"
    BY <1>1 DEF AgentReply
  <2>2. Nothing.kind = "Nothing"
    BY DEF Nothing
  <2>3. \A r \in DocumentRequests : r.kind = "DocumentRequest"
    BY DEF DocumentRequests
  <2>4. QED
    BY <2>1, <2>2, <2>3 DEF PendingStates
<1> DEFINE q == pending[c]
           m == Requested(q)
<1>3. m \in Mutations
  BY <1>2 DEF AgentRequests, Requested, Mutations, CatalogMutations
<1>4. <<>> \in Seq(Mutations) /\ <<m>> \in Seq(Mutations) /\ <<m>> # <<>>
  BY <1>3
<1>5. ~Success(FailureResponse) /\ FailureResponse \in Nat
  BY DEF Success, FailureResponse
<1>6. PICK w \in {NoWrapper} \cup Wrappers :
          IF ~ReplyActedOn(q, w)
          THEN Answer(c, FailureResponse) /\ UNCHANGED <<db, disk>>
          ELSE LET ms == AllMutations(w.calls)
                   r  == CommitAll(db, ms)
               IN  \/ /\ ms = <<>>
                      /\ Answer(c, AnswerStatus(w, FALSE))
                      /\ UNCHANGED <<db, disk>>
                   \/ /\ r.status # Accepted
                      /\ Answer(c, r.status)
                      /\ UNCHANGED <<db, disk>>
                   \/ /\ ms # <<>>
                      /\ CommitMutations(ms)
                      /\ Answer(c, AnswerStatus(w, TRUE))
  BY DEF AgentReply
<1> HIDE DEF q, m
<1>7. CASE ~ReplyActedOn(q, w)
  BY <1>2, <1>5, <1>6, <1>7 DEF Answer, AnswerTo, q
<1>8. CASE ReplyActedOn(q, w)
  <2> DEFINE ms == AllMutations(w.calls)
             r  == CommitAll(db, ms)
  <2>1. w \in Wrappers /\ ValidBeforeTools(w)
    BY <1>8 DEF ReplyActedOn
  <2>2. w.status \in Nat /\ w.readOnly \in BOOLEAN
    BY <2>1 DEF Wrappers
  <2>3. ms = <<>> \/ ms = <<m>>
    BY <1>8 DEF ReplyActedOn, ValidMutationScope, m
  <2>4. ms # <<>> => Success(w.status) /\ ~w.readOnly
    BY <2>1, NoCallsNoMutations DEF ValidBeforeTools
  <2>5. ValidConfidenceAndStatus(w)
    BY <2>1 DEF ValidBeforeTools
  <2> HIDE DEF ms
  <2>6. r.status \in Statuses
    BY <1>1, <1>4, <2>3, KeptByCommit DEF Results
  <2>7. CASE ms = <<>> /\ Answer(c, AnswerStatus(w, FALSE)) /\ UNCHANGED <<db, disk>>
    <3>1. ~Success(AnswerStatus(w, FALSE)) /\ AnswerStatus(w, FALSE) \in Nat
      BY <1>5, <2>2 DEF AnswerStatus, ValidWrapper
    <3>2. QED
      BY <1>2, <2>7, <3>1 DEF Answer, AnswerTo
  <2>8. CASE r.status # Accepted /\ Answer(c, r.status) /\ UNCHANGED <<db, disk>>
    <3>1. ~Success(r.status) /\ r.status \in Nat
      BY <2>6, <2>8 DEF Statuses, Success, Accepted
    <3>2. QED
      BY <1>2, <2>8, <3>1 DEF Answer, AnswerTo
  <2>9. CASE ms # <<>> /\ CommitMutations(ms) /\ Answer(c, AnswerStatus(w, TRUE))
    <3>1. AnswerStatus(w, TRUE) = w.status
      BY <2>4, <2>5, <2>9 DEF AnswerStatus, ValidWrapper
    <3>2. Success(AnswerStatus(w, TRUE)) /\ AnswerStatus(w, TRUE) \in Nat
      BY <2>2, <2>4, <2>9, <3>1
    <3>3. CommitMutations(<<m>>)
      BY <2>3, <2>9
    <3>4. QED
      BY <1>2, <2>9, <3>2, <3>3 DEF Answer, AnswerTo, m, q
  <2>10. QED
    BY <1>6, <1>8, <2>7, <2>8, <2>9 DEF ms
<1>9. QED
  BY <1>7, <1>8

LEMMA AgentStep ==
    ASSUME WriteInv, NEW c \in Clients, AgentReply(c)
    PROVE  StepKept
<1>1. Kept(NoPhantoms, db, db, disk) /\ pending \in [Clients -> PendingStates]
  BY DEF WriteInv
<1>2. pending[c] \in AgentRequests
  BY AgentCases
<1>3. PICK status \in Nat :
          /\ AnswerTo(c, status)
          /\ UNCHANGED <<db, disk>> \/ CommitMutations(<<Requested(pending[c])>>)
  BY AgentCases
<1>4. [kind |-> "Answer", status |-> status] \in PendingStates
  BY DEF PendingStates
<1>5. pending' \in [Clients -> PendingStates]
  BY <1>1, <1>3, <1>4 DEF AnswerTo
<1>6. CASE UNCHANGED <<db, disk>>
  BY <1>3, <1>4, <1>6, HeldSteps DEF AnswerTo
<1>7. CASE CommitMutations(<<Requested(pending[c])>>)
  <2>1. Requested(pending[c]) \in Mutations
    BY <1>2 DEF AgentRequests, Requested, Mutations, CatalogMutations
  <2>2. QED
    BY <1>1, <1>5, <1>7, <2>1, CommitOneKeeps DEF StepKept
<1>8. QED
  BY <1>3, <1>6, <1>7

-----------------------------------------------------------------------------
(* The requests that carry several mutations or documents, and a restart.  *)

LEMMA AliasActionsStep ==
    ASSUME WriteInv, AliasActions
    PROVE  StepKept
<1>1. Kept(NoPhantoms, db, db, disk) /\ pending \in [Clients -> PendingStates]
  BY DEF WriteInv
<1>2. PICK ms \in SeqOf(AliasMutations, MaxActions) : CommitMutations(OrderAliasMutations(ms))
  BY DEF AliasActions
<1>3. ms \in Seq(AliasMutations)
  BY SeqOfType, RequestsAssumption
<1>4. OrderAliasMutations(ms) \in Seq(Mutations)
  BY <1>3, OrderedType
<1>5. Kept(NoPhantoms, db, db', disk')
  BY <1>1, <1>2, <1>4, CommitKeeps
<1>6. QED
  BY <1>1, <1>5 DEF StepKept, AliasActions

LEMMA DocumentStep ==
    ASSUME WriteInv, Document
    PROVE  StepKept
<1>1. Kept(NoPhantoms, db, db, disk) /\ pending \in [Clients -> PendingStates]
  BY DEF WriteInv
<1>2. PICK op \in WriteOps :
          LET b == ApplyWriteOperations(db, <<op>>)
          IN  b.committed # <<>> /\ Persist(b.db, b.committed)
  BY DEF Document, WriteOps
<1> DEFINE b == ApplyWriteOperations(db, <<op>>)
<1>3. b.committed # <<>> => Kept(NoPhantoms, db, b.db, Replay(disk, b.committed))
  BY <1>1, KeptBySingle
<1>4. db \in Databases
  BY <1>1 DEF Kept, Good
<1> HIDE DEF b
<1>5. Kept(NoPhantoms, db, db', disk')
  BY <1>2, <1>3, <1>4, PersistKeeps DEF b
<1>6. QED
  BY <1>1, <1>5 DEF StepKept, Document

LEMMA BulkStep ==
    ASSUME WriteInv, Bulk
    PROVE  StepKept
<1>1. Kept(NoPhantoms, db, db, disk) /\ pending \in [Clients -> PendingStates]
  BY DEF WriteInv
<1>2. PICK ops \in SeqOf(WriteOps, MaxBulk) :
          LET b == ApplyWriteOperations(db, ops)
          IN  b.committed # <<>> /\ Persist(b.db, b.committed)
  BY DEF Bulk
<1> DEFINE b == ApplyWriteOperations(db, ops)
<1>3. ops \in Seq(WriteOps) /\ Len(ops) <= MaxBulk
  BY SeqOfType, RequestsAssumption
<1>4. db \in Databases /\ Kept(FALSE, db, db, disk)
  BY <1>1, KeptWeaker DEF Kept, Good
<1>5. b.committed # <<>> /\ Persist(b.db, b.committed)
  BY <1>2
<1>6. Kept(NoPhantoms, db, b.db, Replay(disk, b.committed))
  <2>1. CASE NoPhantoms
    <3>1. Len(ops) = 0 \/ Len(ops) = 1
      <4>1. MaxBulk <= 1 /\ MaxBulk \in Nat
        BY <2>1, RequestsAssumption DEF NoPhantoms, Bulk
      <4>2. Len(ops) \in Nat
        BY <1>3
      <4>3. Len(ops) <= MaxBulk
        BY <1>3
      <4>4. \A n, k \in Nat : n <= k /\ k <= 1 => n = 0 \/ n = 1
        OBVIOUS
      <4>5. QED
        BY <4>1, <4>2, <4>3, <4>4
    <3>2. CASE Len(ops) = 0
      <4>1. ops = <<>>
        BY <1>3, <3>2, EmptySeq
      <4>2. b = BulkStart(db)
        BY <1>4, <4>1, BulkOfNone
      <4>3. BulkStart(db).committed = <<>>
        BY DEF BulkStart
      <4>4. QED
        BY <1>5, <4>2, <4>3
    <3>3. CASE Len(ops) = 1
      <4>1. PICK op \in WriteOps : ops = <<op>>
        BY <1>3, <3>3
      <4>2. b = ApplyWriteOperations(db, <<op>>)
        BY <4>1
      <4>3. QED
        BY <1>1, <1>5, <4>2, KeptBySingle
    <3>4. QED
      BY <3>1, <3>2, <3>3
  <2>2. CASE ~NoPhantoms
    <3>1. Kept(FALSE, db, b.db, Replay(disk, b.committed))
      BY <1>3, <1>4, KeptByBulkRequest
    <3>2. QED
      BY <2>2, <3>1 DEF Kept, KeptStrictly
  <2>3. QED
    BY <2>1, <2>2
<1> HIDE DEF b
<1>7. Kept(NoPhantoms, db, db', disk')
  BY <1>4, <1>5, <1>6, PersistKeeps
<1>8. QED
  BY <1>1, <1>7 DEF StepKept, Bulk

LEMMA DynamicStep ==
    ASSUME WriteInv, NEW ops \in Seq(WriteOps), DynamicWrite(ops), UNCHANGED pending
    PROVE  StepKept
<1>1. Kept(NoPhantoms, db, db, disk) /\ pending \in [Clients -> PendingStates]
  BY DEF WriteInv
<1> DEFINE a == ApplyAtomic(db, ops)
<1>2. a.status = Accepted /\ Persist(a.db, a.committed)
  BY DEF DynamicWrite
<1>3. a.status = Accepted => Kept(NoPhantoms, db, a.db, Replay(disk, a.committed))
  BY <1>1, KeptByAtomic
<1>4. db \in Databases
  BY <1>1 DEF Kept, Good
<1> HIDE DEF a
<1>5. Kept(NoPhantoms, db, db', disk')
  BY <1>2, <1>3, <1>4, PersistKeeps
<1>6. QED
  BY <1>1, <1>5 DEF StepKept

LEMMA ByQuerySteps ==
    ASSUME WriteInv, DeleteByQuery \/ UpdateByQuery \/ Reindex
    PROVE  StepKept
<1>1. db \in Databases
  BY DEF WriteInv, Kept, Good
<1>2. pending' = pending
  BY DEF DeleteByQuery, UpdateByQuery, Reindex
<1>3. ASSUME NEW docs \in SUBSET MatchedDocs
      PROVE  /\ SetToSeq(docs) \in Seq(docs)
             /\ \A doc \in docs : doc[1] \in Names /\ doc[2] \in Ids /\ Source(doc) \in Objects
  BY <1>1, MatchedType DEF MatchedDocs, Source
<1>4. PICK ops \in Seq(WriteOps) : DynamicWrite(ops)
  <2>1. CASE DeleteByQuery
    <3>1. PICK docs \in SUBSET MatchedDocs :
              LET Op(doc) == [kind |-> "DeleteDocument", name |-> doc[1], id |-> doc[2]]
                  matched == SetToSeq(docs)
              IN  DynamicWrite([i \in DOMAIN matched |-> Op(matched[i])])
      BY <2>1 DEF DeleteByQuery
    <3> DEFINE s == SetToSeq(docs)
               ops == [i \in DOMAIN s |->
                          [kind |-> "DeleteDocument", name |-> s[i][1], id |-> s[i][2]]]
    <3>2. s \in Seq(docs)
      BY <1>3
    <3> HIDE DEF s
    <3>3. ASSUME NEW i \in DOMAIN s
          PROVE  [kind |-> "DeleteDocument", name |-> s[i][1], id |-> s[i][2]] \in WriteOps
      <4>1. s[i] \in docs
        BY <3>2, ElementOfSeq, LenProperties
      <4>2. QED
        BY <1>3, <4>1 DEF WriteOps, DeleteOps
    <3>4. DOMAIN s = 1..Len(s) /\ Len(s) \in Nat
      BY <3>2, LenProperties
    <3>5. ops \in [1..Len(s) -> WriteOps]
      BY <3>3, <3>4
    <3> HIDE DEF ops
    <3>6. ops \in Seq(WriteOps)
      BY <3>4, <3>5, SeqDef
    <3>7. QED
      BY <3>1, <3>6 DEF ops, s
  <2>2. CASE UpdateByQuery
    <3>1. PICK docs \in SUBSET MatchedDocs, target \in Fields :
              LET changed == SetToSeq({doc \in docs :
                                           ScriptAction(Source(doc), target) # "Noop"})
              IN  DynamicWrite([i \in DOMAIN changed |-> UpdateByQueryOp(changed[i], target)])
      BY <2>2 DEF UpdateByQuery
    <3> DEFINE hit == {doc \in docs : ScriptAction(Source(doc), target) # "Noop"}
               s == SetToSeq(hit)
               ops == [i \in DOMAIN s |-> UpdateByQueryOp(s[i], target)]
    <3>2. s \in Seq(hit) /\ \A doc \in hit : /\ doc[1] \in Names /\ doc[2] \in Ids
                                             /\ Source(doc) \in Objects
      BY <1>3
    <3> HIDE DEF hit, s
    <3>3. ASSUME NEW i \in DOMAIN s
          PROVE  UpdateByQueryOp(s[i], target) \in WriteOps
      <4>1. s[i] \in hit
        BY <3>2, ElementOfSeq, LenProperties
      <4>2. s[i][1] \in Names /\ s[i][2] \in Ids /\ Source(s[i]) \ {target} \in Objects
        BY <3>2, <4>1 DEF Objects
      <4>3. /\ [kind |-> "DeleteDocument", name |-> s[i][1], id |-> s[i][2]] \in WriteOps
            /\ [kind |-> "IndexDocument", name |-> s[i][1], id |-> s[i][2],
                source |-> Source(s[i]) \ {target}] \in WriteOps
        BY <4>2 DEF WriteOps, DeleteOps, PutOps
      <4>4. QED
        BY <4>3 DEF UpdateByQueryOp
    <3>4. DOMAIN s = 1..Len(s) /\ Len(s) \in Nat
      BY <3>2, LenProperties
    <3>5. ops \in [1..Len(s) -> WriteOps]
      BY <3>3, <3>4
    <3> HIDE DEF ops
    <3>6. ops \in Seq(WriteOps)
      BY <3>4, <3>5, SeqDef
    <3>7. QED
      BY <3>1, <3>6 DEF ops, s, hit
  <2>3. CASE Reindex
    <3>1. PICK docs \in SUBSET MatchedDocs, dest \in Names, create \in BOOLEAN,
               proceed \in BOOLEAN :
              DynamicWrite(ReindexPlan(SetToSeq(docs), dest, create, proceed).ops)
      BY <2>3 DEF Reindex
    <3>2. QED
      BY <1>1, <3>1, ReindexType
  <2>4. QED
    BY <2>1, <2>2, <2>3
<1>5. QED
  BY <1>2, <1>4, DynamicStep

LEMMA ReopenStep ==
    ASSUME WriteInv, Reopen
    PROVE  StepKept
<1>1. Kept(NoPhantoms, db, db, disk)
  BY DEF WriteInv
<1>2. db \in Databases /\ disk \in Databases
  BY <1>1 DEF Kept, Good
<1>3. Kept(NoPhantoms, disk, disk, disk)
  BY <1>1, <1>2, KeptByLoad
<1>4. Repairs(disk) \in Seq(Renames)
  BY <1>2, RepairsType
<1> DEFINE e == Replay(disk, Repairs(disk))
<1>5. Kept(NoPhantoms, e, e, e)
  BY <1>3, <1>4, KeptByRepairs
<1>6. /\ pending' \in [Clients -> PendingStates]
      /\ \A c \in Clients : pending'[c] = Nothing
  BY DEF Reopen, PendingStates
<1>7. db' = e /\ disk' = e
  BY DEF Reopen
<1> HIDE DEF e
<1>8. QED
  BY <1>5, <1>6, <1>7 DEF StepKept

-----------------------------------------------------------------------------
(* PUT, POST and DELETE of _doc: what a request saw, and what shows why it *)
(* is no longer so.                                                        *)

\* Sequence numbers beyond s, as the trace of an index tells them.
LEMMA NumbersShow ==
    ASSUME NEW ix \in Indexes, NEW s \in Nat
    PROVE  /\ \A id \in Ids : NewAt(ix, id, s + 1) /\ UsedAt(ix, id) =>
                  \E x \in NumbersAt(ix, id) : x > s
           /\ MadeSince(ix, s + 1) <=> \A id \in Ids : \A x \in NumbersAt(ix, id) : x > s
<1>1. ASSUME NEW id \in Ids
      PROVE  /\ Has(ix.documents, id) => ix.documents[id].seqNo \in Nat
             /\ Has(ix.tombstones, id) => ix.tombstones[id] \in Nat
  <2>1. ix.documents \in DocumentTables /\ ix.tombstones \in TombstoneTables
    BY DEF Indexes
  <2>2. Has(ix.documents, id) => ix.documents[id] \in StoredDocuments
    BY <2>1, TableOf DEF DocumentTables, Has
  <2>3. Has(ix.tombstones, id) => ix.tombstones[id] \in Nat
    BY <2>1, TableOf DEF TombstoneTables, Has
  <2>4. QED
    BY <2>2, <2>3 DEF StoredDocuments
<1>2. ASSUME NEW id \in Ids
      PROVE  /\ Has(ix.documents, id) => ix.documents[id].seqNo \in NumbersAt(ix, id)
             /\ Has(ix.tombstones, id) => ix.tombstones[id] \in NumbersAt(ix, id)
             /\ \A x \in NumbersAt(ix, id) :
                    \/ Has(ix.documents, id) /\ x = ix.documents[id].seqNo
                    \/ Has(ix.tombstones, id) /\ x = ix.tombstones[id]
  BY DEF NumbersAt, Has
<1>3. ASSUME NEW id \in Ids
      PROVE  NewAt(ix, id, s + 1) <=> \A x \in NumbersAt(ix, id) : x > s
  <2>1. CASE NewAt(ix, id, s + 1)
    BY <1>1, <1>2, <2>1 DEF NewAt
  <2>2. CASE \A x \in NumbersAt(ix, id) : x > s
    BY <1>1, <1>2, <2>2 DEF NewAt
  <2>3. QED
    BY <2>1, <2>2
<1>4. QED
  BY <1>2, <1>3 DEF MadeSince, UsedAt

LEMMA ExplainedLater ==
    ASSUME NEW d0 \in Databases, NEW d \in Databases, Traced(d0, d),
           NEW p \in DocumentRequests, Explained(d0, p)
    PROVE  Explained(d, p)
<1> DEFINE s == p.since
           n == p.index
           id == p.id
           t == d0.seqNo
<1>1. s \in Nat /\ id \in Ids
  BY DEF DocumentRequests
<1>2. t \in Nat /\ d.seqNo \in Nat /\ s <= t /\ t <= d.seqNo
  BY DEF Databases, Traced, Explained
<1>3. p.index = NoName => p.seen = {}
  BY DEF Explained
<1>4. ASSUME Has(d.indexes, n)
      PROVE  WrittenSince(d.indexes[n], id, s) \/ p.seen = VersionsAt(d.indexes[n], id)
  <2> DEFINE ix == d.indexes[n]
             ix0 == d0.indexes[n]
  <2>1. ix \in Indexes /\ (Has(d0.indexes, n) => ix0 \in Indexes)
    BY <1>4, TableOf DEF Databases, Has
  <2>2. \/ MadeSince(ix, t + 1)
        \/ Has(d0.indexes, n) /\ Traces(ix0, ix, t + 1)
    BY <1>4 DEF Traced, Has
  <2>3. Has(d0.indexes, n) => \/ WrittenSince(ix0, id, s)
                              \/ p.seen = VersionsAt(ix0, id)
    BY DEF Explained
  <2> HIDE DEF ix, ix0, s, n, id, t
  <2>4. s + 1 \in Nat /\ t + 1 \in Nat /\ s + 1 <= t + 1
    BY <1>1, <1>2
  <2>5. MadeSince(ix, s + 1) => WrittenSince(ix, id, s)
    BY <1>1, <2>1, NumbersShow DEF WrittenSince
  <2>6. CASE MadeSince(ix, t + 1)
    <3>1. \A i \in Ids : NewAt(ix, i, s + 1)
      BY <2>1, <2>4, <2>6, NewLater DEF MadeSince
    <3>2. QED
      BY <2>5, <3>1 DEF MadeSince, ix
  <2>7. CASE Has(d0.indexes, n) /\ Traces(ix0, ix, t + 1)
    <3>1. CASE NewAt(ix, id, t + 1) /\ UsedAt(ix, id)
      <4>1. NewAt(ix, id, s + 1)
        BY <1>1, <2>1, <2>4, <3>1, NewLater
      <4>2. \E x \in NumbersAt(ix, id) : x > s
        BY <1>1, <2>1, <3>1, <4>1, NumbersShow
      <4>3. QED
        BY <4>2 DEF WrittenSince, ix
    <3>2. CASE SameAt(ix0, ix, id)
      <4>1. NumbersAt(ix, id) = NumbersAt(ix0, id) /\ VersionsAt(ix, id) = VersionsAt(ix0, id)
        BY <3>2 DEF SameAt, NumbersAt, VersionsAt, Has
      <4>2. MadeSince(ix0, s + 1) => MadeSince(ix, s + 1)
        BY <2>1, <2>4, <2>7, TracesNext
      <4>3. WrittenSince(ix0, id, s) =>
                (\E x \in NumbersAt(ix0, id) : x > s) \/ MadeSince(ix0, s + 1)
        BY <1>1, <2>1, <2>7, NumbersShow DEF WrittenSince
      <4>4. WrittenSince(ix0, id, s) => WrittenSince(ix, id, s)
        BY <2>5, <4>1, <4>2, <4>3 DEF WrittenSince
      <4>5. QED
        BY <2>3, <2>7, <4>1, <4>4 DEF ix
    <3>3. QED
      BY <1>1, <2>7, <3>1, <3>2 DEF Traces
  <2>8. QED
    BY <2>2, <2>6, <2>7
<1>5. s <= d.seqNo
  BY <1>1, <1>2
<1>6. QED
  BY <1>3, <1>4, <1>5 DEF Explained

\* A request that has just looked the document up.
LEMMA LookedUp ==
    ASSUME db \in Databases, NEW request \in {"IndexDocument", "DeleteDocument"},
           NEW n \in Names, NEW id \in Ids
    PROVE  /\ DocumentRequest(request, n, id) \in DocumentRequests
           /\ Explained(db, DocumentRequest(request, n, id))
<1> DEFINE ix == db.indexes[ResolveIndex(db, n)]
<1>1. db.seqNo \in Nat /\ DOMAIN db.indexes \subseteq Names
  BY TableOf DEF Databases
<1>2. ResolveIndex(db, n) \in Names \cup {NoName}
  BY ResolveType
<1>3. Has(db.indexes, ResolveIndex(db, n)) =>
          Versions(GetDocument(db, n, id)) = VersionsAt(ix, id)
  BY DEF Versions, GetDocument, VersionsAt
<1>4. ~Has(db.indexes, ResolveIndex(db, n)) => Versions(GetDocument(db, n, id)) = {}
  BY DEF Versions, GetDocument
<1>5. VersionsAt(ix, id) \subseteq Nat \/ ~Has(db.indexes, ResolveIndex(db, n))
  <2> SUFFICES ASSUME Has(db.indexes, ResolveIndex(db, n)), Has(ix.documents, id)
               PROVE  ix.documents[id].version \in Nat
    BY DEF VersionsAt
  <2>1. ix \in Indexes
    BY TableOf DEF Databases, Has
  <2>2. ix.documents \in DocumentTables
    BY <2>1 DEF Indexes
  <2>3. ix.documents[id] \in StoredDocuments
    BY <2>2, TableOf DEF DocumentTables, Has
  <2>4. QED
    BY <2>3 DEF StoredDocuments
<1>6. Versions(GetDocument(db, n, id)) \subseteq Nat
  BY <1>3, <1>4, <1>5
<1>7. ~Has(db.indexes, NoName)
  BY <1>1, NamesAssumption DEF Has
<1> HIDE DEF ix
<1>8. DocumentRequest(request, n, id) \in DocumentRequests
  BY <1>1, <1>2, <1>6 DEF DocumentRequest, DocumentRequests
<1>9. Explained(db, DocumentRequest(request, n, id))
  BY <1>1, <1>3, <1>4, <1>7 DEF DocumentRequest, Explained, ix
<1>10. QED
  BY <1>8, <1>9

LEMMA RequestsHeld ==
    ASSUME NEW p \in PendingStates, p.kind = "DocumentRequest"
    PROVE  p \in DocumentRequests
<1>1. \A r \in AgentRequests : r.kind = "AgentWrite"
  BY DEF AgentRequests
<1>2. Nothing.kind = "Nothing"
  BY DEF Nothing
<1>3. QED
  BY <1>1, <1>2 DEF PendingStates

LEMMA LookUpStep ==
    ASSUME WriteInv, NEW c \in Clients, LookUpDocument(c)
    PROVE  StepKept
<1>1. db \in Databases
  BY DEF WriteInv, Kept, Good
<1>2. PICK request \in {"IndexDocument", "DeleteDocument"}, n \in Names, id \in Ids :
          Hold(c, DocumentRequest(request, n, id))
  BY DEF LookUpDocument
<1>3. DocumentRequest(request, n, id) \in PendingStates
  BY <1>1, LookedUp DEF PendingStates
<1>4. QED
  BY <1>2, <1>3, HeldSteps DEF Hold

\* What a write through _doc commits, and what it is answered.
CommitsDocument(c, op) ==
    LET b == ApplyWriteOperations(db, <<op>>)
    IN  /\ \/ b.committed # <<>> /\ Persist(b.db, b.committed)
           \/ b.committed = <<>> /\ UNCHANGED <<db, disk>>
        /\ pending' = [pending EXCEPT ![c] = DocumentAnswer(pending[c], b.results[1])]

LEMMA DocumentAnswers ==
    ASSUME WriteInv, NEW c \in Clients, CommitDocument(c)
    PROVE  \E op \in WriteOps, result \in Outcomes :
               /\ op \in DocumentOps(pending[c])
               /\ result = WriteResult(op, db, BulkOf(db, op))
               /\ CommitsDocument(c, op)
               /\ pending' = [pending EXCEPT ![c] = DocumentAnswer(pending[c], result)]
<1>1. PICK op \in DocumentOps(pending[c]) : CommitsDocument(c, op)
  BY DEF CommitDocument, CommitsDocument
<1>2. op \in WriteOps
  BY DEF DocumentOps, WriteOps
<1> DEFINE b == ApplyWriteOperations(db, <<op>>)
           result == WriteResult(op, db, BulkOf(db, op))
<1>3. Kept(FALSE, db, db, disk)
  BY KeptWeaker DEF WriteInv
<1>4. b.results[1] = result
  BY <1>2, <1>3, BulkOfOne
<1>5. result \in Outcomes
  BY DEF WriteResult, Outcomes
<1> HIDE DEF b, result
<1>6. pending' = [pending EXCEPT ![c] = DocumentAnswer(pending[c], result)]
  BY <1>1, <1>4 DEF CommitsDocument, b
<1>7. QED
  BY <1>1, <1>2, <1>5, <1>6 DEF result

LEMMA CommitDocumentStep ==
    ASSUME WriteInv, NEW c \in Clients, CommitDocument(c)
    PROVE  StepKept
<1>1. Kept(NoPhantoms, db, db, disk) /\ pending \in [Clients -> PendingStates]
  BY DEF WriteInv
<1>2. db \in Databases
  BY <1>1 DEF Kept, Good
<1>3. pending[c] \in DocumentRequests
  BY <1>1, RequestsHeld DEF CommitDocument
<1>4. PICK op \in WriteOps, result \in Outcomes :
          /\ CommitsDocument(c, op)
          /\ pending' = [pending EXCEPT ![c] = DocumentAnswer(pending[c], result)]
  BY DocumentAnswers
<1>5. DocumentAnswer(pending[c], result) \in PendingStates
  <2>1. pending[c].seen \subseteq Nat
    BY <1>3 DEF DocumentRequests
  <2>2. {v + 1 : v \in pending[c].seen} \subseteq Nat
    BY <2>1
  <2>3. DocumentResult(pending[c], result) \in Outcomes
    BY DEF DocumentResult, Outcomes
  <2>4. QED
    BY <2>2, <2>3 DEF DocumentAnswer, PendingStates
<1>6. pending' \in [Clients -> PendingStates]
  BY <1>1, <1>4, <1>5
<1> DEFINE b == ApplyWriteOperations(db, <<op>>)
<1>7. b.committed # <<>> => Kept(NoPhantoms, db, b.db, Replay(disk, b.committed))
  BY <1>1, KeptBySingle
<1> HIDE DEF b
<1>8. CASE b.committed # <<>> /\ Persist(b.db, b.committed)
  <2>1. Kept(NoPhantoms, db, db', disk')
    BY <1>2, <1>7, <1>8, PersistKeeps
  <2>2. QED
    BY <1>6, <2>1 DEF StepKept
<1>9. CASE UNCHANGED <<db, disk>>
  BY <1>4, <1>5, <1>9, HeldSteps
<1>10. QED
  BY <1>4, <1>8, <1>9 DEF CommitsDocument, b

\* The steps of a client that are not under the commit lock alone.
ClientStep(c) ==
    \/ DeleteIndex(c) \/ PutConfig(c) \/ PutAlias(c) \/ DeleteAlias(c)
    \/ CommitPending(c)
    \/ AskAgent(c) \/ AgentReply(c)
    \/ LookUpDocument(c) \/ CommitDocument(c)

LEMMA StepIsKept ==
    ASSUME WriteInv, [Next]_vars
    PROVE  StepKept
<1>1. CASE UNCHANGED vars
  BY <1>1 DEF vars, WriteInv, StepKept
<1>2. CASE CreateIndex \/ Template \/ RegistryObject \/ ComponentTemplate \/ LegacyTemplate
  BY <1>2, CatalogSteps
<1>3. ASSUME NEW c \in Clients, ClientStep(c)
      PROVE  StepKept
  BY <1>3, NamedSteps, CommitPendingStep, AgentStep, LookUpStep, CommitDocumentStep
     DEF ClientStep
<1>4. CASE AliasActions
  BY <1>4, AliasActionsStep
<1>5. CASE Document
  BY <1>5, DocumentStep
<1>6. CASE Bulk
  BY <1>6, BulkStep
<1>7. CASE DeleteByQuery \/ UpdateByQuery \/ Reindex
  BY <1>7, ByQuerySteps
<1>8. CASE Reopen
  BY <1>8, ReopenStep
<1>9. QED
  BY <1>1, <1>2, <1>3, <1>4, <1>5, <1>6, <1>7, <1>8 DEF Next, ClientStep

\* A step changes what one client holds, or ends every request.
LEMMA PendingChanges ==
    ASSUME pending \in [Clients -> PendingStates], [Next]_vars,
           NEW c \in Clients, pending'[c] # pending[c], pending'[c] # Nothing
    PROVE  ClientStep(c)
<1>1. pending' # pending
  OBVIOUS
<1>2. \E x \in Clients : ClientStep(x)
  <2>1. ~Reopen
    BY DEF Reopen
  <2>2. ~(CreateIndex \/ Template \/ RegistryObject \/ ComponentTemplate \/ LegacyTemplate)
    BY <1>1 DEF CreateIndex, Template, RegistryObject, ComponentTemplate, LegacyTemplate
  <2>3. ~(AliasActions \/ Document \/ Bulk \/ DeleteByQuery \/ UpdateByQuery \/ Reindex)
    BY <1>1 DEF AliasActions, Document, Bulk, DeleteByQuery, UpdateByQuery, Reindex
  <2>4. ~UNCHANGED vars
    BY <1>1 DEF vars
  <2>5. QED
    BY <2>1, <2>2, <2>3, <2>4 DEF Next, ClientStep
<1>3. PICK x \in Clients : ClientStep(x)
  BY <1>2
<1>4. PICK p : pending' = [pending EXCEPT ![x] = p]
  BY <1>3 DEF ClientStep, DeleteIndex, PutConfig, PutAlias, DeleteAlias, CommitPending, AskAgent,
              AgentReply, LookUpDocument, CommitDocument, Hold, Answer
<1>5. x = c
  BY <1>4
<1>6. QED
  BY <1>3, <1>5

\* A client that comes to hold a request for a document has looked it up.
LEMMA OnlyLookUpHolds ==
    ASSUME NEW c \in Clients, ClientStep(c), pending \in [Clients -> PendingStates],
           pending'[c].kind = "DocumentRequest"
    PROVE  LookUpDocument(c)
<1>1. ASSUME NEW p, p.kind # "DocumentRequest" PROVE pending' # [pending EXCEPT ![c] = p]
  BY <1>1
<1>2. ~(DeleteIndex(c) \/ PutConfig(c) \/ PutAlias(c) \/ DeleteAlias(c))
  BY <1>1 DEF DeleteIndex, PutConfig, PutAlias, DeleteAlias, Hold
<1>3. ~AskAgent(c)
  <2>1. \A r \in AgentRequests : r.kind # "DocumentRequest"
    BY DEF AgentRequests
  <2>2. QED
    BY <1>1, <2>1 DEF AskAgent, Hold
<1>4. ~CommitPending(c)
  BY <1>1 DEF CommitPending, Nothing
<1>5. ~AgentReply(c)
  BY <1>1 DEF AgentReply, Answer
<1>6. ~CommitDocument(c)
  BY <1>1 DEF CommitDocument, DocumentAnswer
<1>7. QED
  BY <1>2, <1>3, <1>4, <1>5, <1>6 DEF ClientStep

LEMMA WriteInvInit ==
    ASSUME Init
    PROVE  WriteInv
<1>1. pending \in [Clients -> PendingStates] /\ \A c \in Clients : pending[c] = Nothing
  BY DEF Init, PendingStates
<1>2. QED
  BY <1>1, KeptInitially DEF Init, WriteInv, Nothing

LEMMA WriteInvNext ==
    ASSUME WriteInv, [Next]_vars
    PROVE  WriteInv'
<1>1. StepKept
  BY StepIsKept
<1>2. Kept(NoPhantoms, db', db', disk') /\ pending' \in [Clients -> PendingStates]
  BY <1>1, KeptAgain DEF StepKept
<1>3. /\ pending \in [Clients -> PendingStates] /\ Kept(NoPhantoms, db, db, disk)
      /\ db \in Databases /\ db' \in Databases
  BY <1>2 DEF WriteInv, Kept, Good
<1>4. ASSUME NEW c \in Clients, pending'[c].kind = "DocumentRequest"
      PROVE  Explained(db', pending'[c])
  <2>1. pending'[c] # Nothing
    BY <1>4 DEF Nothing
  <2>2. Traced(db, db')
    BY <1>1, <2>1 DEF StepKept, Kept
  <2>3. CASE pending'[c] = pending[c]
    <3>1. pending[c] \in DocumentRequests /\ Explained(db, pending[c])
      BY <1>3, <1>4, <2>3, RequestsHeld DEF WriteInv
    <3>2. QED
      BY <1>3, <2>2, <2>3, <3>1, ExplainedLater
  <2>4. CASE pending'[c] # pending[c]
    <3>1. ClientStep(c)
      BY <1>3, <2>1, <2>4, PendingChanges
    <3>2. LookUpDocument(c)
      BY <1>3, <1>4, <3>1, OnlyLookUpHolds
    <3>3. PICK request \in {"IndexDocument", "DeleteDocument"}, n \in Names, id \in Ids :
              Hold(c, DocumentRequest(request, n, id))
      BY <3>2 DEF LookUpDocument
    <3>4. pending'[c] = DocumentRequest(request, n, id) /\ db' = db
      BY <1>3, <3>3 DEF Hold
    <3>5. QED
      BY <1>3, <3>4, LookedUp
  <2>5. QED
    BY <2>3, <2>4
<1>5. QED
  BY <1>2, <1>4 DEF WriteInv

\* The invariant of the write requests (Store of src/storage/mod.rs and the
\* handlers of src/api/mod.rs): in whatever order requests, restarts and replies
\* of the agent follow each other, memory and log keep the relation Kept.
THEOREM WriteInvariant == Spec => []WriteInv
<1>1. Init => WriteInv
  BY WriteInvInit
<1>2. WriteInv /\ [Next]_vars => WriteInv'
  BY WriteInvNext
<1>3. QED
  BY <1>1, <1>2, PTL DEF Spec

-----------------------------------------------------------------------------
(* What follows from it.                                                   *)

LEMMA RangeOf ==
    ASSUME NEW f, NEW y \in Range(f)
    PROVE  \E x \in DOMAIN f : f[x] = y
BY DEF Range

LEMMA TypedDatabase ==
    ASSUME NEW d \in Databases
    PROVE  TypeOKDatabase(d)
<1>1. /\ d.indexes \in Table(Names, Indexes) /\ d.templates \in Table(Templates, Bodies)
      /\ d.registry \in Table(Registry, Objects) /\ d.aliases \in Table(Names, Names)
      /\ d.seqNo \in Nat
  BY DEF Databases
<1>2. DOMAIN d.indexes \subseteq Names /\ \A n \in DOMAIN d.indexes : d.indexes[n] \in Indexes
  BY <1>1, TableOf
<1>3. DOMAIN d.templates \subseteq Templates
      /\ \A t \in DOMAIN d.templates : d.templates[t] \in Bodies
  BY <1>1, TableOf
<1>4. DOMAIN d.registry \subseteq Registry /\ Range(d.registry) \subseteq Objects
  BY <1>1, TableOf, RangeOf
<1>5. DOMAIN d.aliases \subseteq Names /\ Range(d.aliases) \subseteq Names
  BY <1>1, TableOf, RangeOf
<1>6. ASSUME NEW n \in DOMAIN d.indexes
      PROVE  LET ix == d.indexes[n]
             IN  /\ ix.config \in Objects /\ ix.aliases \subseteq Names
                 /\ DOMAIN ix.documents \subseteq Ids
                 /\ \A id \in DOMAIN ix.documents :
                        ix.documents[id] \in [source : Objects, version : Nat, seqNo : Nat]
                 /\ DOMAIN ix.tombstones \subseteq Ids
                 /\ Range(ix.tombstones) \subseteq Nat
                 /\ ix.storeSize \in Nat
  <2> DEFINE ix == d.indexes[n]
  <2>1. /\ ix.config \in Objects /\ ix.aliases \in AliasSets /\ ix.documents \in DocumentTables
        /\ ix.tombstones \in TombstoneTables /\ ix.storeSize \in Nat
    BY <1>2 DEF Indexes
  <2> HIDE DEF ix
  <2>2. DOMAIN ix.documents \subseteq Ids
        /\ \A id \in DOMAIN ix.documents : ix.documents[id] \in StoredDocuments
    BY <2>1, TableOf DEF DocumentTables
  <2>3. DOMAIN ix.tombstones \subseteq Ids /\ Range(ix.tombstones) \subseteq Nat
    BY <2>1, TableOf, RangeOf DEF TombstoneTables
  <2>4. StoredDocuments \subseteq [source : Objects, version : Nat, seqNo : Nat]
    BY DEF StoredDocuments
  <2>5. QED
    BY <2>1, <2>2, <2>3, <2>4 DEF ix, AliasSets
<1>7. \A t \in DOMAIN d.templates :
          d.templates[t] \in [patterns : SUBSET Names, config : Objects]
  BY <1>3 DEF Bodies
<1>8. QED
  BY <1>1, <1>2, <1>3, <1>4, <1>5, <1>6, <1>7 DEF TypeOKDatabase

\* Type correctness: the database of Store.inner, the one that opening the store
\* loads, and what clients hold while they are between reading and committing.
THEOREM WriteTypeCorrect == Spec => []TypeOK
<1>1. WriteInv => TypeOK
  <2> SUFFICES ASSUME WriteInv PROVE TypeOK
    OBVIOUS
  <2>1. TypeOKDatabase(db) /\ TypeOKDatabase(disk)
    BY TypedDatabase DEF WriteInv, Kept, Good
  <2>2. ASSUME NEW c \in Clients, pending[c] \in DocumentRequests
        PROVE  pending[c] \in [kind : {"DocumentRequest"},
                               request : {"IndexDocument", "DeleteDocument"}, name : Names,
                               id : Ids, seen : SUBSET Nat, index : Names \cup {NoName},
                               since : 0..db.seqNo]
    <3>1. pending[c].kind = "DocumentRequest" /\ pending[c].since \in Nat
      BY <2>2 DEF DocumentRequests
    <3>2. pending[c].since <= db.seqNo
      BY <3>1 DEF WriteInv, Explained
    <3>3. db.seqNo \in Nat
      BY DEF WriteInv, Kept, Good, Databases
    <3>4. pending[c].since \in 0..db.seqNo
      BY <3>1, <3>2, <3>3
    <3>5. QED
      BY <2>2, <3>4 DEF DocumentRequests
  <2>3. \A c \in Clients : pending[c] \in PendingStates
    BY DEF WriteInv
  <2>4. QED
    BY <2>1, <2>2, <2>3 DEF TypeOK, PendingStates, Outcomes
<1>2. QED
  BY <1>1, WriteInvariant, PTL

LEMMA NumbersOfGood ==
    ASSUME NEW d, Good(d)
    PROVE  /\ \A x \in Sequenced(d) : x[4] <= d.seqNo
           /\ \A x, y \in Sequenced(d) : x[4] = y[4] => x = y
<1>1. d \in Databases /\ NumbersBounded(d) /\ NumbersUnique(d)
  BY DEF Good
<1>2. ASSUME NEW x \in Sequenced(d)
      PROVE  \E n \in Names, id \in Ids, k \in Roles, s \in Nat :
                 x = <<n, id, k, s>> /\ Placed(d, n, id, k, s)
  <2>1. PICK n \in DOMAIN d.indexes :
            \/ \E id \in DOMAIN d.indexes[n].documents :
                   x = <<n, id, "document", d.indexes[n].documents[id].seqNo>>
            \/ \E id \in DOMAIN d.indexes[n].tombstones :
                   x = <<n, id, "tombstone", d.indexes[n].tombstones[id]>>
    BY <1>2 DEF Sequenced
  <2>2. n \in Names /\ d.indexes[n] \in Indexes
    BY <1>1, TableOf DEF Databases
  <2> DEFINE ix == d.indexes[n]
  <2>3. ix.documents \in DocumentTables /\ ix.tombstones \in TombstoneTables
    BY <2>2 DEF Indexes
  <2> HIDE DEF ix
  <2>4. CASE \E id \in DOMAIN ix.documents : x = <<n, id, "document", ix.documents[id].seqNo>>
    <3>1. PICK id \in DOMAIN ix.documents : x = <<n, id, "document", ix.documents[id].seqNo>>
      BY <2>4
    <3>2. id \in Ids /\ ix.documents[id] \in StoredDocuments
      BY <2>3, TableOf DEF DocumentTables
    <3>3. ix.documents[id].seqNo \in Nat
      BY <3>2 DEF StoredDocuments
    <3>4. Placed(d, n, id, "document", ix.documents[id].seqNo)
      BY DEF Placed, Numbered, Has, ix
    <3>5. QED
      BY <2>2, <3>1, <3>2, <3>3, <3>4 DEF Roles
  <2>5. CASE \E id \in DOMAIN ix.tombstones : x = <<n, id, "tombstone", ix.tombstones[id]>>
    <3>1. PICK id \in DOMAIN ix.tombstones : x = <<n, id, "tombstone", ix.tombstones[id]>>
      BY <2>5
    <3>2. id \in Ids /\ ix.tombstones[id] \in Nat
      BY <2>3, TableOf DEF TombstoneTables
    <3>3. Placed(d, n, id, "tombstone", ix.tombstones[id])
      BY DEF Placed, Numbered, Has, ix
    <3>4. QED
      BY <2>2, <3>1, <3>2, <3>3 DEF Roles
  <2>6. QED
    BY <2>1, <2>4, <2>5 DEF ix
<1>3. ASSUME NEW x \in Sequenced(d)
      PROVE  x[4] <= d.seqNo
  <2>1. PICK n \in Names, id \in Ids, k \in Roles, s \in Nat :
            x = <<n, id, k, s>> /\ Placed(d, n, id, k, s)
    BY <1>2
  <2>2. s <= d.seqNo
    BY <1>1, <2>1 DEF NumbersBounded
  <2>3. QED
    BY <2>1, <2>2
<1>4. ASSUME NEW x \in Sequenced(d), NEW y \in Sequenced(d), x[4] = y[4]
      PROVE  x = y
  <2>1. PICK n1 \in Names, id1 \in Ids, k1 \in Roles, s1 \in Nat :
            x = <<n1, id1, k1, s1>> /\ Placed(d, n1, id1, k1, s1)
    BY <1>2
  <2>2. PICK n2 \in Names, id2 \in Ids, k2 \in Roles, s2 \in Nat :
            y = <<n2, id2, k2, s2>> /\ Placed(d, n2, id2, k2, s2)
    BY <1>2
  <2>3. s1 = s2
    BY <1>4, <2>1, <2>2
  <2>4. n1 = n2 /\ id1 = id2 /\ k1 = k2
    BY <1>1, <2>1, <2>2, <2>3 DEF NumbersUnique
  <2>5. QED
    BY <2>1, <2>2, <2>3, <2>4
<1>5. QED
  BY <1>3, <1>4

\* No two live documents or tombstones share a sequence number and none is ahead
\* of the counter (next_seq_no of apply_to), in memory and in the log, across
\* restarts: repairs and replay hand no number out again.
THEOREM WriteSeqNosUnique == Spec => []SeqNosUnique
<1>1. WriteInv => SeqNosUnique
  BY NumbersOfGood DEF WriteInv, Kept, SeqNosUnique
<1>2. QED
  BY <1>1, WriteInvariant, PTL

\* store_size_bytes, which apply_to keeps incrementally, is never below the size
\* of the index, and load_durable_state never refuses for its size a database
\* that commit_mutations or apply_write_operations let through.
THEOREM WriteStoreSizeCovers == Spec => []StoreSizeCovers
<1>1. WriteInv => StoreSizeCovers
  BY LoadAlwaysFits DEF WriteInv, Kept, Good, Covered, Covers, StoreSizeCovers
<1>2. QED
  BY <1>1, WriteInvariant, PTL

\* The limits of validate_mutation and of the two memory checks hold after every
\* request and every restart.
THEOREM WriteWithinLimits == Spec => []WithinLimits
<1>1. WriteInv => WithinLimits
  BY DEF WriteInv, Kept, CountsOK, WithinLimits
<1>2. QED
  BY <1>1, WriteInvariant, PTL

LEMMA CommittedOne ==
    ASSUME NEW d \in GoodDatabases, NEW m \in Mutations, CommitAll(d, <<m>>).status = Accepted
    PROVE  CommitAll(d, <<m>>).db = ApplyMutation(d, m)
<1> DEFINE r0 == Result(Accepted, d)
           F == [p \in Results \X Mutations |-> CommitOne(p[1], p[2])]
           r == CommitAll(d, <<m>>)
           q == CommitOne(r0, m)
<1>1. r0 \in Results /\ r0.db = d
  BY DEF Result, Results, Accepted, Statuses
<1>2. <<m>> \in Seq(Mutations) /\ Len(<<m>>) \in Nat
  OBVIOUS
<1>3. \A x \in Results, y \in Mutations : CommitOne(x, y) \in Results
  BY CommitOneType
<1>4. FoldsTo(Results, F, r0, <<m>>, r)
  BY <1>1, <1>2, <1>3, CommitFold DEF CommitAll
<1>5. F[<<r0, m>>] = q /\ q \in Results
  BY <1>1, <1>3
<1> HIDE DEF F, r, r0, q
<1>6. FoldsTo(Results, F, r0, <<m>>, F[<<r0, m>>])
  BY <1>1, <1>5, FoldOne
<1>7. r = q
  BY <1>2, <1>4, <1>5, <1>6, FoldUnique
<1>8. q.status = Accepted => q.db = ApplyMutation(r0.db, m)
  BY <1>1, CommitOneType DEF q
<1>9. QED
  BY <1>1, <1>7, <1>8 DEF r

\* Only a reply of the agent answers a request that waits for it.
LEMMA OnlyReplyAnswers ==
    ASSUME WriteInv, [Next]_vars, NEW c \in Clients,
           pending[c].kind = "AgentWrite", pending'[c].kind = "Answer"
    PROVE  AgentReply(c)
<1>1. ClientStep(c)
  <2>1. pending'[c] # pending[c] /\ pending'[c] # Nothing
    BY DEF Nothing
  <2>2. QED
    BY <2>1, PendingChanges DEF WriteInv
<1>2. ~Idle(c)
  BY DEF Idle
<1>3. ~(\/ DeleteIndex(c) \/ PutConfig(c) \/ PutAlias(c) \/ DeleteAlias(c) \/ AskAgent(c)
        \/ LookUpDocument(c))
  BY <1>2 DEF DeleteIndex, PutConfig, PutAlias, DeleteAlias, AskAgent, LookUpDocument, Resolves
<1>4. ~CommitPending(c) /\ ~CommitDocument(c)
  BY DEF CommitPending, Holding, CommitDocument
<1>5. QED
  BY <1>1, <1>3, <1>4 DEF ClientStep

AnswerTrue(c) ==
    pending[c].kind = "AgentWrite" /\ pending'[c].kind = "Answer" =>
        db' = IF Success(pending'[c].status)
              THEN ApplyMutation(db, Requested(pending[c])) ELSE db

LEMMA StepAnswersTrue ==
    ASSUME WriteInv, [Next]_vars, NEW c \in Clients
    PROVE  AnswerTrue(c)
<1>1. SUFFICES ASSUME pending[c].kind = "AgentWrite", pending'[c].kind = "Answer"
               PROVE  db' = IF Success(pending'[c].status)
                            THEN ApplyMutation(db, Requested(pending[c])) ELSE db
  BY DEF AnswerTrue
<1>2. AgentReply(c)
  BY <1>1, OnlyReplyAnswers
<1>3. pending[c] \in AgentRequests
  BY <1>2, AgentCases
<1>4. PICK status \in Nat :
          /\ AnswerTo(c, status)
          /\ \/ UNCHANGED <<db, disk>> /\ ~Success(status)
             \/ CommitMutations(<<Requested(pending[c])>>) /\ Success(status)
  BY <1>2, AgentCases
<1>5. pending'[c].status = status
  BY <1>4 DEF AnswerTo, WriteInv
<1>6. CASE UNCHANGED <<db, disk>> /\ ~Success(status)
  BY <1>5, <1>6
<1>7. CASE CommitMutations(<<Requested(pending[c])>>) /\ Success(status)
  <2> DEFINE m == Requested(pending[c])
  <2>1. m \in Mutations
    BY <1>3 DEF AgentRequests, Requested, Mutations, CatalogMutations
  <2>2. db \in GoodDatabases
    BY DEF WriteInv, Kept, Good, GoodDatabases
  <2> HIDE DEF m
  <2>3. CommitAll(db, <<m>>).status = Accepted /\ db' = CommitAll(db, <<m>>).db
    BY <1>7 DEF CommitMutations, Persist, m
  <2>4. db' = ApplyMutation(db, m)
    BY <2>1, <2>2, <2>3, CommittedOne
  <2>5. QED
    BY <1>5, <1>7, <2>4 DEF m
<1>8. QED
  BY <1>4, <1>6, <1>7

\* handle_agent_write answers the truth, whatever the endpoint replied: a success
\* has put the requested template and nothing else, any other answer has changed
\* nothing.
THEOREM WriteAgentAnswers == Spec => AgentAnswersTrue
<1>1. WriteInv /\ [Next]_vars => [\A c \in Clients : AnswerTrue(c)]_vars
  BY StepAnswersTrue
<1>2. Spec => [][\A c \in Clients : AnswerTrue(c)]_vars
  BY <1>1, WriteInvariant, PTL DEF Spec
<1>3. QED
  BY <1>2 DEF AgentAnswersTrue, AnswerTrue

\* Without encoded ids to repair, store_size_bytes is what recompute_store_size
\* would compute, however apply_to got there.
THEOREM WriteStoreSizeExact ==
    ASSUME DOMAIN Legacy = {}
    PROVE  Spec => []StoreSizeExact
<1>1. WriteInv => StoreSizeExact
  <2> SUFFICES ASSUME WriteInv, NEW n \in DOMAIN db.indexes
               PROVE  db.indexes[n].storeSize = EstimateIndex(db.indexes[n])
    BY DEF StoreSizeExact
  <2>1. db \in Databases /\ Exact(db)
    BY DEF WriteInv, Kept, Good, KeptExactly
  <2>2. db.indexes[n] \in Indexes
    BY <2>1, TableOf DEF Databases
  <2>3. db.indexes[n].storeSize \in Nat /\ EstimateIndex(db.indexes[n]) \in Nat
    BY <2>2, IndexSize DEF Indexes
  <2>4. Slack(db.indexes[n]) = 0
    BY <2>1 DEF Exact, ExactIndex
  <2>5. QED
    BY <2>3, <2>4 DEF Slack
<1>2. QED
  BY <1>1, WriteInvariant, PTL

LEMMA MirrorRecomputed ==
    ASSUME NEW d \in Databases, NEW e \in Databases, Mirrors(d, e),
           DOMAIN e.indexes = DOMAIN d.indexes
    PROVE  RecomputeStoreSizes(e) = RecomputeStoreSizes(d)
<1> DEFINE x == RecomputeStoreSizes(d)
           y == RecomputeStoreSizes(e)
<1>1. /\ x \in Databases /\ DOMAIN x.indexes = DOMAIN d.indexes
      /\ \A n \in DOMAIN d.indexes : x.indexes[n] = Recompute(d.indexes[n])
                                     /\ d.indexes[n] \in Indexes
      /\ x.templates = d.templates /\ x.registry = d.registry
      /\ x.aliases = d.aliases /\ x.seqNo = d.seqNo
  BY SnapshotIndexes
<1>2. /\ y \in Databases /\ DOMAIN y.indexes = DOMAIN e.indexes
      /\ \A n \in DOMAIN e.indexes : y.indexes[n] = Recompute(e.indexes[n])
                                     /\ e.indexes[n] \in Indexes
      /\ y.templates = e.templates /\ y.registry = e.registry
      /\ y.aliases = e.aliases /\ y.seqNo = e.seqNo
  BY SnapshotIndexes
<1> HIDE DEF x, y
<1>3. ASSUME NEW n \in DOMAIN d.indexes
      PROVE  x.indexes[n] = y.indexes[n]
  <2> DEFINE ix == d.indexes[n]
             jx == e.indexes[n]
             rx == Recompute(ix)
             ry == Recompute(jx)
  <2>1. ix \in Indexes /\ jx \in Indexes /\ x.indexes[n] = rx /\ y.indexes[n] = ry
    BY <1>1, <1>2
  <2>2. /\ jx.config = ix.config /\ jx.aliases = ix.aliases /\ jx.documents = ix.documents
        /\ jx.tombstones = ix.tombstones
    BY DEF Mirrors, Mirrored
  <2> HIDE DEF ix, jx
  <2>3. EstimateIndex(jx) = EstimateIndex(ix)
    BY <2>1, <2>2, SameSize
  <2>4. /\ SameButDocuments(ix, rx, ix.documents, ix.tombstones, EstimateIndex(ix))
        /\ SameButDocuments(jx, ry, jx.documents, jx.tombstones, EstimateIndex(jx))
    BY <2>1, RecomputeEffect
  <2> HIDE DEF rx, ry
  <2>5. /\ rx \in Indexes /\ ry \in Indexes /\ rx.config = ry.config /\ rx.aliases = ry.aliases
        /\ rx.documents = ry.documents /\ rx.tombstones = ry.tombstones
        /\ rx.storeSize = ry.storeSize
    BY <2>2, <2>3, <2>4 DEF SameButDocuments
  <2>6. rx = ry
    BY <2>5 DEF Indexes
  <2>7. QED
    BY <2>1, <2>6
<1>4. x.indexes \in Table(Names, Indexes) /\ y.indexes \in Table(Names, Indexes)
  BY <1>1, <1>2 DEF Databases
<1>5. x.indexes = y.indexes
  BY <1>1, <1>2, <1>3, <1>4, TableEqual
<1>6. x.templates = y.templates /\ x.registry = y.registry /\ x.aliases = y.aliases /\ x.seqNo = y.seqNo
  BY <1>1, <1>2 DEF Mirrors
<1>7. x = y
  BY <1>1, <1>2, <1>5, <1>6 DEF Databases
<1>8. QED
  BY <1>7 DEF x, y

\* What requests write to the log is all they did to memory: opening the store
\* after any of them loads the same database.  A bulk request in which one
\* operation fails and another succeeds is the exception (run BulkPhantomIndex),
\* so no bulk request carries two operations here.
THEOREM WriteLogDescribes ==
    ASSUME NoPhantoms
    PROVE  Spec => []LogDescribesMemory
<1>1. WriteInv => LogDescribesMemory
  BY MirrorRecomputed DEF WriteInv, Kept, Good, KeptStrictly, LogDescribesMemory
<1>2. QED
  BY <1>1, WriteInvariant, PTL

\* An alias leads to an index that exists, although delete_index, put_alias and
\* delete_alias resolve a name before they take the commit lock; and the index
\* that resolve_index picks is one that resolve_indices reads.
THEOREM WriteNamesResolve ==
    ASSUME NoPhantoms
    PROVE  Spec => []NamesResolve
<1>1. WriteInv => NamesResolve
  <2> SUFFICES ASSUME WriteInv
               PROVE  NamesResolve
    OBVIOUS
  <2>1. Linked(db)
    BY DEF WriteInv, Kept, KeptStrictly
  <2>2. ASSUME NEW n \in Names, ResolveIndex(db, n) # NoName
        PROVE  ResolveIndex(db, n) \in ResolveIndices(db, n)
    <3>1. CASE Has(db.indexes, n)
      BY <3>1 DEF ResolveIndex, ResolveIndices
    <3>2. CASE ~Has(db.indexes, n)
      <4>1. Has(db.aliases, n) /\ ResolveIndex(db, n) = db.aliases[n]
        BY <2>2, <3>2 DEF ResolveIndex
      <4>2. Has(db.indexes, db.aliases[n]) /\ n \in db.indexes[db.aliases[n]].aliases
        BY <2>1, <4>1 DEF Linked, Has
      <4>3. db.aliases[n] \in {i \in DOMAIN db.indexes : n \in db.indexes[i].aliases}
        BY <4>2 DEF Has
      <4>4. ResolveIndices(db, n) = {i \in DOMAIN db.indexes : n \in db.indexes[i].aliases}
        BY <3>2, <4>3 DEF ResolveIndices
      <4>5. QED
        BY <4>1, <4>3, <4>4
    <3>3. QED
      BY <3>1, <3>2
  <2>3. QED
    BY <2>1, <2>2 DEF NamesResolve, Linked
<1>2. QED
  BY <1>1, WriteInvariant, PTL

-----------------------------------------------------------------------------
(* Which mutations a document write turns into.                            *)

\* m writes the document at the index that the name leads to.
WritesTo(d, op, ms, m) ==
    \/ ResolveIndex(d, op.name) # NoName /\ m.index = ResolveIndex(d, op.name) /\ ms = <<m>>
    \/ /\ ResolveIndex(d, op.name) = NoName /\ m.index = op.name
       /\ \E c \in CreateMutations : c.index = op.name /\ ms = <<c, m>>

Shape(d, op, p) ==
    \/ /\ p.mutations = <<>>
       /\ p.status = Accepted =>
              op.kind = "DeleteDocument" /\ GetDocument(d, op.name, op.id) = {}
    \/ /\ op.kind = "DeleteDocument" /\ ResolveIndex(d, op.name) # NoName
       /\ \E m \in DeleteMutations :
              /\ m.index = ResolveIndex(d, op.name) /\ m.id = op.id /\ p.mutations = <<m>>
              /\ Has(d.indexes[m.index].documents, m.id)
    \/ /\ op.kind # "DeleteDocument"
       /\ \E m \in PutMutations :
              /\ m.id = op.id /\ (op.kind = "CreateDocument" => m.kind = "CreateDocument")
              /\ WritesTo(d, op, p.mutations, m)

LEMMA AppendWrites ==
    ASSUME NEW d \in Databases, NEW op, op.name \in Names, NEW m \in PutMutations,
           NEW t, Targets(d, op.name, t), m.index = t.index
    PROVE  WritesTo(d, op, Append(t.mutations, m), m)
<1>1. Append(<<>>, m) = <<m>> /\ \A c : Append(<<c>>, m) = <<c, m>>
  BY AppendTwo
<1>2. QED
  BY <1>1 DEF Targets, WritesTo

LEMMA PreparedShape ==
    ASSUME NEW d \in Databases, NEW op \in WriteOps
    PROVE  Shape(d, op, PrepareWriteOperation(d, op))
<1> DEFINE t == ResolveOrCreateIndex(d, op.name)
<1>1. op.name \in Names /\ op.id \in Ids
  BY DEF WriteOps, PutOps, UpdateOps, DeleteOps
<1>2. Targets(d, op.name, t) /\ t.index \in Names
  BY <1>1, TargetType
<1> HIDE DEF t
<1>3. CASE op \in PutOps
  <2> DEFINE m == [kind |-> op.kind, index |-> t.index, id |-> op.id, source |-> op.source]
  <2>1. op.source \in Objects /\ op.kind \in {"IndexDocument", "CreateDocument"}
    BY <1>3 DEF PutOps
  <2>2. m \in PutMutations /\ m.index = t.index /\ m.id = op.id /\ m.kind = op.kind
    BY <1>1, <1>2, <2>1 DEF PutMutations
  <2>3. PrepareWriteOperation(d, op).mutations = Append(t.mutations, m)
    BY <2>1 DEF PrepareWriteOperation, Prepared, t
  <2> HIDE DEF m
  <2>4. WritesTo(d, op, Append(t.mutations, m), m)
    BY <1>1, <1>2, <2>2, AppendWrites
  <2>5. QED
    BY <2>1, <2>2, <2>3, <2>4 DEF Shape
<1>4. CASE op \in UpdateOps
  <2> DEFINE exists == Has(d.indexes, t.index) /\ Has(d.indexes[t.index].documents, op.id)
             u == [kind |-> "UpdateDocument", index |-> t.index,
                   id |-> op.id, source |-> op.source, upsert |-> op.asUpsert]
             src == UNION (IF op.upsert = {} THEN {op.source} ELSE op.upsert)
             c == [kind |-> "CreateDocument", index |-> t.index, id |-> op.id, source |-> src]
             m == IF exists THEN u ELSE c
  <2>1. op.kind = "UpdateDocument" /\ op.source \in Objects /\ op.asUpsert \in BOOLEAN
    BY <1>4 DEF UpdateOps
  <2>2. src \in Objects
    <3>1. op.upsert \in {{}} \cup {{o} : o \in Objects}
      BY <1>4 DEF UpdateOps
    <3>2. CASE op.upsert = {}
      BY <2>1, <3>2 DEF Objects
    <3>3. CASE op.upsert # {}
      <4>1. PICK o \in Objects : op.upsert = {o}
        BY <3>1, <3>3
      <4>2. QED
        BY <3>3, <4>1
    <3>4. QED
      BY <3>2, <3>3
  <2>3. PrepareWriteOperation(d, op) = PrepareUpdate(d, op)
    BY <2>1 DEF PrepareWriteOperation
  <2>4. \/ PrepareUpdate(d, op) = Refused(404)
        \/ PrepareUpdate(d, op).mutations = Append(t.mutations, m)
    BY DEF PrepareUpdate, Prepared, t
  <2> HIDE DEF src
  <2>5. /\ u \in PutMutations /\ c \in PutMutations /\ u.index = t.index /\ c.index = t.index
        /\ u.id = op.id /\ c.id = op.id
    BY <1>1, <1>2, <2>1, <2>2 DEF PutMutations
  <2> HIDE DEF u, c
  <2>6. m \in PutMutations /\ m.index = t.index /\ m.id = op.id
    BY <2>5
  <2> HIDE DEF m
  <2>7. WritesTo(d, op, Append(t.mutations, m), m)
    BY <1>1, <1>2, <2>6, AppendWrites
  <2>8. CASE PrepareUpdate(d, op) = Refused(404)
    BY <2>3, <2>8 DEF Refused, Shape, Accepted
  <2>9. CASE PrepareUpdate(d, op).mutations = Append(t.mutations, m)
    BY <2>1, <2>3, <2>6, <2>7, <2>9 DEF Shape
  <2>10. QED
    BY <2>4, <2>8, <2>9
<1>5. CASE op \in DeleteOps
  <2> DEFINE n == ResolveIndex(d, op.name)
             m == [kind |-> "DeleteDocument", index |-> n, id |-> op.id]
  <2>1. op.kind = "DeleteDocument"
    BY <1>5 DEF DeleteOps
  <2>2. PrepareWriteOperation(d, op) =
            IF n = NoName THEN Refused(404)
            ELSE Prepared(IF Has(d.indexes[n].documents, op.id) THEN <<m>> ELSE <<>>)
    BY <2>1 DEF PrepareWriteOperation, PrepareDelete
  <2>3. CASE n = NoName
    BY <2>2, <2>3 DEF Refused, Shape, Accepted
  <2>4. CASE n # NoName /\ ~Has(d.indexes[n].documents, op.id)
    BY <2>1, <2>2, <2>4 DEF Prepared, Shape, GetDocument
  <2>5. CASE n # NoName /\ Has(d.indexes[n].documents, op.id)
    <3>1. m \in DeleteMutations /\ m.index = n /\ m.id = op.id
      BY <1>1, <2>5, ResolveType DEF DeleteMutations
    <3>2. PrepareWriteOperation(d, op).mutations = <<m>>
      BY <2>2, <2>5 DEF Prepared
    <3> HIDE DEF m
    <3>3. QED
      BY <2>1, <2>5, <3>1, <3>2 DEF Shape
  <2>6. QED
    BY <2>3, <2>4, <2>5
<1>6. QED
  BY <1>3, <1>4, <1>5 DEF WriteOps

\* A name that resolves leads to an index.
LEMMA ResolvesToIndex ==
    ASSUME NEW d, Linked(d), NEW n, ResolveIndex(d, n) # NoName
    PROVE  Has(d.indexes, ResolveIndex(d, n))
BY DEF ResolveIndex, Linked, Has

LEMMA UnresolvedName ==
    ASSUME NEW d \in Databases, NEW n \in Names, ResolveIndex(d, n) = NoName
    PROVE  ~Has(d.indexes, n) /\ ~Has(d.aliases, n)
<1>1. Has(d.aliases, n) => d.aliases[n] \in Names
  BY TableOf DEF Databases, Has
<1>2. QED
  BY <1>1, NamesAssumption DEF ResolveIndex

\* The size that validate_memory_after_mutation predicts for a document write is
\* the size the database then has.
THEOREM WritePredictionExact ==
    ASSUME NoPhantoms
    PROVE  Spec => []PredictionExact
<1>1. WriteInv => PredictionExact
  <2> SUFFICES ASSUME WriteInv, NEW op \in WriteOps,
                      PrepareWriteOperation(db, op).mutations # <<>>
               PROVE  LET m == Head(PrepareWriteOperation(db, op).mutations)
                      IN  EstimateAfter(db, m) = EstimateDatabase(ApplyMutation(db, m))
    BY DEF PredictionExact
  <2> DEFINE p == PrepareWriteOperation(db, op)
  <2>1. db \in Databases /\ Covered(db) /\ Linked(db)
    BY DEF WriteInv, Kept, Good, KeptStrictly
  <2>2. op.name \in Names
    BY DEF WriteOps, PutOps, UpdateOps, DeleteOps
  <2>3. Shape(db, op, p)
    BY <2>1, PreparedShape
  <2>4. p.mutations # <<>>
    OBVIOUS
  <2> HIDE DEF p
  <2>5. PICK m \in WriteMutations :
            /\ Head(p.mutations) = m
            /\ IF m.kind = "CreateIndex" THEN ~Has(db.indexes, m.index)
                                         ELSE Has(db.indexes, m.index)
    <3>1. CASE \E m \in PutMutations \cup DeleteMutations :
                   /\ ResolveIndex(db, op.name) # NoName
                   /\ m.index = ResolveIndex(db, op.name) /\ p.mutations = <<m>>
      <4>1. PICK m \in PutMutations \cup DeleteMutations :
                /\ ResolveIndex(db, op.name) # NoName
                /\ m.index = ResolveIndex(db, op.name) /\ p.mutations = <<m>>
        BY <3>1
      <4>2. m \in WriteMutations /\ m.kind # "CreateIndex"
        BY DEF WriteMutations, PutMutations, DeleteMutations
      <4>3. Has(db.indexes, m.index)
        BY <2>1, <4>1, ResolvesToIndex
      <4>4. Head(p.mutations) = m
        BY <4>1
      <4>5. QED
        BY <4>2, <4>3, <4>4
    <3>2. CASE /\ ResolveIndex(db, op.name) = NoName
               /\ \E c \in CreateMutations, m \in PutMutations :
                      c.index = op.name /\ p.mutations = <<c, m>>
      <4>1. PICK c \in CreateMutations, m \in PutMutations :
                c.index = op.name /\ p.mutations = <<c, m>>
        BY <3>2
      <4>2. ~Has(db.indexes, c.index)
        BY <2>1, <2>2, <3>2, <4>1, UnresolvedName
      <4>3. c \in WriteMutations /\ c.kind = "CreateIndex"
        BY DEF WriteMutations, CreateMutations
      <4>4. Head(p.mutations) = c
        BY <4>1
      <4>5. QED
        BY <4>2, <4>3, <4>4
    <3>3. QED
      BY <2>3, <2>4, <3>1, <3>2 DEF Shape, WritesTo
  <2>6. EstimateAfter(db, m) = EstimateDatabase(ApplyMutation(db, m))
    BY <2>1, <2>5, PredictionHolds
  <2>7. QED
    BY <2>5, <2>6 DEF p
<1>2. QED
  BY <1>1, WriteInvariant, PTL

-----------------------------------------------------------------------------
(* What a document write is answered with.                                 *)

SameNames(d, e) == DOMAIN e.indexes = DOMAIN d.indexes /\ e.aliases = d.aliases

LEMMA SameResolution ==
    ASSUME NEW d, NEW e, SameNames(d, e), NEW n
    PROVE  ResolveIndex(e, n) = ResolveIndex(d, n)
BY DEF SameNames, ResolveIndex, Has

\* A validated document mutation, applied to the index it names.
LEMMA DocumentApplied ==
    ASSUME NEW d \in Databases, Covered(d), NEW m \in PutMutations \cup DeleteMutations,
           ValidateMutation(d, m) = Accepted, NEW e, e = ApplyMutation(d, m)
    PROVE  /\ SameNames(d, e) /\ Has(d.indexes, m.index)
           /\ d.indexes[m.index] \in Indexes /\ Covers(d.indexes[m.index]) /\ d.seqNo + 1 \in Nat
           /\ e.indexes[m.index] = ApplyDocument(d.indexes[m.index], m, d.seqNo + 1)
<1>1. m \in Mutations /\ m.kind \in DocumentMutations
  BY DEF Mutations, WriteMutations, PutMutations, DeleteMutations, DocumentMutations
<1>2. m.kind \in OnIndexKinds \ {"DeleteAlias"}
  BY <1>1 DEF OnIndexKinds, DocumentMutations
<1>3. Has(d.indexes, m.index)
  BY <1>1, <1>2, Validated
<1>4. e.indexes = NextIndexes(d, m) /\ e.aliases = NextAliases(d, m)
  BY <1>1, ApplyCases
<1>5. e.aliases = d.aliases
  BY <1>1, <1>4 DEF NextAliases, DocumentMutations
<1>6. e.indexes = Put(d.indexes, m.index, ApplyDocument(d.indexes[m.index], m, d.seqNo + 1))
  BY <1>1, <1>2, <1>3, <1>4 DEF NextIndexes, IndexAfter
<1>7. d.indexes[m.index] \in Indexes /\ Covers(d.indexes[m.index]) /\ d.seqNo + 1 \in Nat
  BY <1>3, TableOf DEF Databases, Covered, Has
<1>8. QED
  BY <1>3, <1>5, <1>6, <1>7 DEF Put, SameNames, Has

LEMMA PutApplied ==
    ASSUME NEW d \in Databases, Covered(d), NEW m \in PutMutations,
           ValidateMutation(d, m) = Accepted, NEW e, e = ApplyMutation(d, m)
    PROVE  /\ SameNames(d, e) /\ Has(e.indexes[m.index].documents, m.id)
           /\ e.indexes[m.index].documents[m.id].version = NextVersion(d.indexes[m.index], m.id)
<1> DEFINE ix == d.indexes[m.index]
           s == d.seqNo + 1
           r == ApplyDocument(ix, m, s)
<1>1. SameNames(d, e) /\ ix \in Indexes /\ Covers(ix) /\ s \in Nat /\ e.indexes[m.index] = r
  BY DocumentApplied
<1>2. TakesEffect(ix, m)
  <2>1. m \in Mutations /\ m.kind \in {"IndexDocument", "CreateDocument", "UpdateDocument"}
    BY DEF Mutations, WriteMutations, PutMutations
  <2>2. /\ m.kind = "CreateDocument" => ~Has(ix.documents, m.id)
        /\ m.kind = "UpdateDocument" => m.upsert \/ Has(ix.documents, m.id)
    BY <2>1, Validated
  <2> HIDE DEF ix
  <2>3. QED
    BY <2>1, <2>2 DEF TakesEffect
<1> HIDE DEF ix, s
<1>3. IsPutOf(ix, m, s, r)
  BY <1>1, <1>2, ApplyDocumentPut
<1> HIDE DEF r
<1>4. r.documents = Put(ix.documents, m.id, Stored(NewSource(ix, m), NextVersion(ix, m.id), s))
  BY <1>3 DEF IsPutOf, SameButDocuments
<1>5. Has(r.documents, m.id) /\ r.documents[m.id].version = NextVersion(ix, m.id)
  BY <1>4 DEF Put, Has, Stored
<1>6. QED
  BY <1>1, <1>5 DEF ix

LEMMA DeleteApplied ==
    ASSUME NEW d \in Databases, Covered(d), NEW m \in DeleteMutations,
           ValidateMutation(d, m) = Accepted, Has(d.indexes[m.index].documents, m.id),
           NEW e, e = ApplyMutation(d, m)
    PROVE  SameNames(d, e) /\ ~Has(e.indexes[m.index].documents, m.id)
<1> DEFINE ix == d.indexes[m.index]
           s == d.seqNo + 1
           r == ApplyDocument(ix, m, s)
<1>1. SameNames(d, e) /\ ix \in Indexes /\ Covers(ix) /\ s \in Nat /\ e.indexes[m.index] = r
  BY DocumentApplied
<1>2. TakesEffect(ix, m)
  BY DEF TakesEffect, DeleteMutations
<1> HIDE DEF ix, s
<1>3. IsDeleteOf(ix, m, s, r)
  BY <1>1, <1>2, ApplyDocumentDelete
<1> HIDE DEF r
<1>4. r.documents = Without(ix.documents, m.id)
  BY <1>3 DEF IsDeleteOf, SameButDocuments
<1>5. ~Has(r.documents, m.id)
  BY <1>4 DEF Without, Restrict, Has
<1>6. QED
  BY <1>1, <1>5

LEMMA CreateApplied ==
    ASSUME NEW d \in Databases, Covered(d), NEW c \in CreateMutations, ~Has(d.indexes, c.index),
           NEW e, e = ApplyMutation(d, c)
    PROVE  /\ e \in Databases /\ Covered(e) /\ Has(e.indexes, c.index)
           /\ DOMAIN e.indexes[c.index].documents = {}
<1>1. c \in Mutations /\ c.kind = "CreateIndex" /\ c.config \in Objects
  BY DEF Mutations, WriteMutations, CreateMutations
<1>2. e \in Databases /\ Covered(e) /\ e.indexes = NextIndexes(d, c)
  BY <1>1, ApplyCases
<1>3. e.indexes = Put(d.indexes, c.index, NewIndex(c.config))
  BY <1>1, <1>2 DEF NextIndexes, OnIndexKinds, DocumentMutations, ConfigKinds
<1>4. DOMAIN NewIndex(c.config).documents = {}
  BY <1>1, NewIndexEffect
<1>5. QED
  BY <1>2, <1>3, <1>4 DEF Put, Has

\* The first write of an id leaves version 1, any other a greater one.
LEMMA VersionTells ==
    ASSUME NEW ix \in Indexes, NEW id
    PROVE  NextVersion(ix, id) = 1 <=> ~Has(ix.documents, id)
<1>1. ix.documents \in DocumentTables
  BY DEF Indexes
<1>2. Has(ix.documents, id) => ix.documents[id] \in StoredDocuments
  BY <1>1, TableOf DEF DocumentTables, Has
<1>3. Has(ix.documents, id) => ix.documents[id].version \in Nat \ {0}
  BY <1>2 DEF StoredDocuments
<1>4. QED
  BY <1>3 DEF NextVersion

ResultTrue(d, op, e, result, committed) ==
    LET existed == GetDocument(d, op.name, op.id) # {}
        exists  == GetDocument(e, op.name, op.id) # {}
    IN  CASE result = "created"   -> ~existed /\ exists
          [] result = "updated"   -> existed /\ exists
          [] result = "deleted"   -> existed /\ ~exists
          [] result = "not_found" -> ~existed /\ committed = <<>>
          [] result = "error"     -> committed = <<>>

\* A put, applied to an index that is there.
LEMMA PutAnswered ==
    ASSUME NEW d \in Databases, Covered(d), Linked(d), NEW op \in WriteOps,
           op.kind # "DeleteDocument", NEW m \in PutMutations, m.id = op.id,
           op.kind = "CreateDocument" => m.kind = "CreateDocument",
           ResolveIndex(d, op.name) # NoName, m.index = ResolveIndex(d, op.name),
           ValidateMutation(d, m) = Accepted, NEW r, r.status = Accepted,
           r.db = ApplyMutation(d, m), NEW committed
    PROVE  ResultTrue(d, op, r.db, WriteResult(op, d, r), committed)
<1> DEFINE ix == d.indexes[m.index]
           e == r.db
           existed == GetDocument(d, op.name, op.id) # {}
<1>1. /\ SameNames(d, e) /\ Has(e.indexes[m.index].documents, m.id)
      /\ e.indexes[m.index].documents[m.id].version = NextVersion(ix, m.id)
  BY PutApplied
<1>2. ix \in Indexes /\ Has(d.indexes, m.index) /\ Has(e.indexes, m.index)
  BY <1>1, DocumentApplied DEF SameNames, Has
<1>3. ResolveIndex(e, op.name) = m.index /\ m.index # NoName
  BY <1>1, SameResolution
<1>4. existed <=> Has(ix.documents, m.id)
  BY <1>2 DEF GetDocument
<1> HIDE DEF ix, e
<1>5. GetDocument(e, op.name, op.id) = {e.indexes[m.index].documents[m.id]}
  BY <1>1, <1>2, <1>3 DEF GetDocument
<1>6. (\E doc \in GetDocument(e, op.name, op.id) : doc.version = 1) <=> ~existed
  BY <1>1, <1>2, <1>4, <1>5, VersionTells
<1>7. op.kind = "CreateDocument" => ~existed
  <2>1. m \in Mutations
    BY DEF Mutations, WriteMutations
  <2>2. m.kind = "CreateDocument" => ~Has(ix.documents, m.id)
    BY <2>1, Validated DEF ix
  <2>3. QED
    BY <1>4, <2>2
<1>8. WriteResult(op, d, r) = IF existed THEN "updated" ELSE "created"
  BY <1>6, <1>7 DEF WriteResult, e
<1>9. GetDocument(e, op.name, op.id) # {}
  BY <1>5
<1> HIDE DEF existed
<1>10. QED
  BY <1>8, <1>9 DEF ResultTrue, existed, e

\* A put whose index is created first.
LEMMA CreateAnswered ==
    ASSUME NEW d \in Databases, Covered(d), NEW op \in WriteOps, op.kind # "DeleteDocument",
           NEW c \in CreateMutations, NEW m \in PutMutations, m.id = op.id, m.index = op.name,
           c.index = op.name, ResolveIndex(d, op.name) = NoName,
           NEW d1, d1 = ApplyMutation(d, c), ValidateMutation(d1, m) = Accepted,
           NEW r, r.status = Accepted, r.db = ApplyMutation(d1, m), NEW committed
    PROVE  ResultTrue(d, op, r.db, WriteResult(op, d, r), committed)
<1> DEFINE ix == d1.indexes[m.index]
           e == r.db
<1>1. op.name \in Names
  BY DEF WriteOps, PutOps, UpdateOps, DeleteOps
<1>2. ~Has(d.indexes, op.name)
  BY <1>1, UnresolvedName
<1>3. d1 \in Databases /\ Covered(d1) /\ Has(d1.indexes, m.index) /\ DOMAIN ix.documents = {}
  BY <1>2, CreateApplied
<1>4. /\ SameNames(d1, e) /\ Has(e.indexes[m.index].documents, m.id)
      /\ e.indexes[m.index].documents[m.id].version = NextVersion(ix, m.id)
  BY <1>3, PutApplied
<1> HIDE DEF ix, e
<1>5. NextVersion(ix, m.id) = 1
  BY <1>3 DEF NextVersion, Has
<1>6. /\ ResolveIndex(e, op.name) = op.name /\ op.name # NoName
      /\ Has(e.indexes, op.name)
  BY <1>1, <1>3, <1>4, NamesAssumption DEF SameNames, ResolveIndex, Has
<1>7. GetDocument(e, op.name, op.id) = {e.indexes[m.index].documents[m.id]}
  BY <1>4, <1>6 DEF GetDocument
<1>8. \E doc \in GetDocument(e, op.name, op.id) : doc.version = 1
  BY <1>4, <1>5, <1>7
<1>9. WriteResult(op, d, r) = "created"
  BY <1>8 DEF WriteResult, e
<1>10. GetDocument(d, op.name, op.id) = {} /\ GetDocument(e, op.name, op.id) # {}
  <2>1. ~Has(d.indexes, NoName)
    BY NamesAssumption, TableOf DEF Databases, Has
  <2>2. QED
    BY <1>7, <2>1 DEF GetDocument
<1>11. QED
  BY <1>9, <1>10 DEF ResultTrue, e

LEMMA DeleteAnswered ==
    ASSUME NEW d \in Databases, Covered(d), NEW op, op.kind = "DeleteDocument",
           NEW m \in DeleteMutations, m.id = op.id,
           ResolveIndex(d, op.name) # NoName, m.index = ResolveIndex(d, op.name),
           Has(d.indexes[m.index].documents, m.id),
           ValidateMutation(d, m) = Accepted, NEW r, r.status = Accepted,
           r.db = ApplyMutation(d, m), NEW committed
    PROVE  ResultTrue(d, op, r.db, WriteResult(op, d, r), committed)
<1> DEFINE e == r.db
<1>1. SameNames(d, e) /\ ~Has(e.indexes[m.index].documents, m.id)
  BY DeleteApplied
<1>2. ResolveIndex(e, op.name) = m.index
  BY <1>1, SameResolution
<1>3. Has(d.indexes, m.index)
  BY DocumentApplied DEF DeleteMutations
<1>4. GetDocument(d, op.name, op.id) # {} /\ GetDocument(e, op.name, op.id) = {}
  BY <1>1, <1>2, <1>3 DEF GetDocument
<1>5. WriteResult(op, d, r) = "deleted"
  BY <1>4 DEF WriteResult
<1>6. QED
  BY <1>4, <1>5 DEF ResultTrue

LEMMA WriteAnswered ==
    ASSUME NEW d, NEW e, Kept(TRUE, d, d, e), NEW op \in WriteOps
    PROVE  LET r == BulkOf(d, op)
           IN  ResultTrue(d, op, r.db, WriteResult(op, d, r),
                          IF r.status = Accepted THEN PrepareWriteOperation(d, op).mutations
                          ELSE <<>>)
<1> DEFINE p == PrepareWriteOperation(d, op)
           ms == p.mutations
           r0 == Result(p.status, d)
           r == FoldLeft(BulkMutation, r0, ms)
           committed == IF r.status = Accepted THEN ms ELSE <<>>
<1>1. d \in GoodDatabases /\ d \in Databases /\ Covered(d) /\ Linked(d)
  BY DEF Kept, Good, GoodDatabases, KeptStrictly
<1>2. IsPrepared(p) /\ Shape(d, op, p)
  BY <1>1, PreparedType, PreparedShape
<1>3. BulkOf(d, op) = r
  BY DEF BulkOf
<1> HIDE DEF p
<1>4. r0 \in Results /\ r0.db = d /\ r0.status = p.status
  BY <1>1, <1>2 DEF Result, Results, IsPrepared
<1>5. r \in Results /\ AppliesAll(r0, ms, r)
  BY <1>2, <1>4, BulkMutations
<1> HIDE DEF r0, r
<1>6. CASE r.status # Accepted
  <2>1. WriteResult(op, d, r) = "error" /\ committed = <<>>
    BY <1>6 DEF WriteResult
  <2> HIDE DEF committed
  <2>2. ResultTrue(d, op, r.db, WriteResult(op, d, r), committed)
    BY <2>1 DEF ResultTrue
  <2>3. QED
    BY <1>3, <2>2 DEF committed, p
<1>7. CASE r.status = Accepted
  <2>1. committed = ms
    BY <1>7
  <2> HIDE DEF committed
  <2>2. ResultTrue(d, op, r.db, WriteResult(op, d, r), committed)
    <3>1. CASE ms = <<>>
      <4>1. r = r0 /\ p.status = Accepted
        BY <1>4, <1>5, <1>7, <3>1 DEF AppliesAll
      <4>2. op.kind = "DeleteDocument" /\ GetDocument(d, op.name, op.id) = {}
        <5>1. Accepted # 404
          BY DEF Accepted
        <5>2. \A m \in PutMutations : ~WritesTo(d, op, ms, m)
          BY <3>1 DEF WritesTo
        <5>3. \A m : ms # <<m>>
          BY <3>1
        <5>4. QED
          BY <1>2, <4>1, <5>2, <5>3 DEF Shape
      <4>3. WriteResult(op, d, r) = "not_found"
        BY <1>7, <4>2 DEF WriteResult
      <4>4. QED
        BY <2>1, <3>1, <4>2, <4>3 DEF ResultTrue
    <3>2. ASSUME NEW m \in PutMutations \cup DeleteMutations, ms = <<m>>
          PROVE  ValidateMutation(d, m) = Accepted /\ r.db = ApplyMutation(d, m)
      <4>1. r = BulkMutation(r0, m) /\ m \in WriteMutations
        BY <1>5, <3>2 DEF AppliesAll, WriteMutations
      <4>2. QED
        BY <1>4, <1>7, <4>1, BulkMutationType
    <3>3. ASSUME NEW c \in CreateMutations, NEW m \in PutMutations, ms = <<c, m>>
          PROVE  /\ ValidateMutation(ApplyMutation(d, c), m) = Accepted
                 /\ r.db = ApplyMutation(ApplyMutation(d, c), m)
      <4> DEFINE r1 == BulkMutation(r0, c)
      <4>1. r = BulkMutation(r1, m) /\ m \in WriteMutations /\ c \in WriteMutations
        BY <1>5, <3>3 DEF AppliesAll, WriteMutations
      <4>2. /\ r1 \in Results
            /\ r1.status = Accepted => r1.db = ApplyMutation(d, c)
        BY <1>4, <4>1, BulkMutationType
      <4> HIDE DEF r1
      <4>3. r1.status = Accepted /\ ValidateMutation(r1.db, m) = Accepted
            /\ r.db = ApplyMutation(r1.db, m)
        BY <1>7, <4>1, <4>2, BulkMutationType
      <4>4. QED
        BY <4>2, <4>3
    <3>4. CASE /\ op.kind = "DeleteDocument" /\ ResolveIndex(d, op.name) # NoName
               /\ \E m \in DeleteMutations :
                      /\ m.index = ResolveIndex(d, op.name) /\ m.id = op.id /\ ms = <<m>>
                      /\ Has(d.indexes[m.index].documents, m.id)
      <4>1. PICK m \in DeleteMutations :
                /\ m.index = ResolveIndex(d, op.name) /\ m.id = op.id /\ ms = <<m>>
                /\ Has(d.indexes[m.index].documents, m.id)
        BY <3>4
      <4>2. QED
        BY <1>1, <1>7, <3>2, <3>4, <4>1, DeleteAnswered
    <3>5. CASE /\ op.kind # "DeleteDocument"
               /\ \E m \in PutMutations :
                      /\ m.id = op.id /\ (op.kind = "CreateDocument" => m.kind = "CreateDocument")
                      /\ WritesTo(d, op, ms, m)
      <4>1. PICK m \in PutMutations :
                /\ m.id = op.id /\ (op.kind = "CreateDocument" => m.kind = "CreateDocument")
                /\ WritesTo(d, op, ms, m)
        BY <3>5
      <4>2. CASE /\ ResolveIndex(d, op.name) # NoName /\ m.index = ResolveIndex(d, op.name)
                 /\ ms = <<m>>
        <5>1. ValidateMutation(d, m) = Accepted /\ r.db = ApplyMutation(d, m)
          BY <3>2, <4>2
        <5>2. QED
          BY <1>1, <1>7, <3>5, <4>1, <4>2, <5>1, PutAnswered
      <4>3. CASE /\ ResolveIndex(d, op.name) = NoName /\ m.index = op.name
                 /\ \E c \in CreateMutations : c.index = op.name /\ ms = <<c, m>>
        <5>1. PICK c \in CreateMutations : c.index = op.name /\ ms = <<c, m>>
          BY <4>3
        <5>2. /\ ValidateMutation(ApplyMutation(d, c), m) = Accepted
              /\ r.db = ApplyMutation(ApplyMutation(d, c), m)
          BY <3>3, <5>1
        <5>3. QED
          BY <1>1, <1>7, <3>5, <4>1, <4>3, <5>1, <5>2, CreateAnswered
      <4>4. QED
        BY <4>1, <4>2, <4>3 DEF WritesTo
    <3>6. QED
      BY <1>2, <3>1, <3>4, <3>5 DEF Shape
  <2>3. QED
    BY <1>3, <2>2 DEF committed, p
<1>8. QED
  BY <1>6, <1>7

\* The result of an item of a bulk request, of a _create and of an _update is what
\* the write did, although "created" is inferred from the version that the write
\* left (PreparedOutcome::resolve, handle_bulk, handle_document).
THEOREM WriteResultsTrue ==
    ASSUME NoPhantoms
    PROVE  Spec => []ResultsTrue
<1>1. WriteInv => ResultsTrue
  <2> SUFFICES ASSUME WriteInv, NEW op \in WriteOps
               PROVE  LET b == ApplyWriteOperations(db, <<op>>)
                      IN  ResultTrue(db, op, b.db, b.results[1], b.committed)
    BY DEF ResultsTrue, ResultTrue
  <2> DEFINE b == ApplyWriteOperations(db, <<op>>)
             r == BulkOf(db, op)
             committed == IF r.status = Accepted THEN PrepareWriteOperation(db, op).mutations
                          ELSE <<>>
  <2>1. Kept(TRUE, db, db, disk) /\ Kept(FALSE, db, db, disk)
    BY KeptWeaker DEF WriteInv, Kept, KeptStrictly
  <2>2. b.db = r.db /\ b.committed = committed /\ b.results[1] = WriteResult(op, db, r)
    BY <2>1, BulkOfOne
  <2>3. ResultTrue(db, op, r.db, WriteResult(op, db, r), committed)
    BY <2>1, WriteAnswered
  <2> HIDE DEF b, r, committed
  <2>4. QED
    BY <2>2, <2>3 DEF b
<1>2. QED
  BY <1>1, WriteInvariant, PTL

\* Only the write that follows answers a request that looked a document up.
LEMMA OnlyCommitAnswers ==
    ASSUME WriteInv, [Next]_vars, NEW c \in Clients,
           pending[c].kind = "DocumentRequest", pending'[c].kind = "DocumentAnswer"
    PROVE  CommitDocument(c)
<1>1. ClientStep(c)
  <2>1. pending'[c] # pending[c] /\ pending'[c] # Nothing
    BY DEF Nothing
  <2>2. QED
    BY <2>1, PendingChanges DEF WriteInv
<1>2. ~Idle(c)
  BY DEF Idle
<1>3. ~(\/ DeleteIndex(c) \/ PutConfig(c) \/ PutAlias(c) \/ DeleteAlias(c) \/ AskAgent(c)
        \/ LookUpDocument(c))
  BY <1>2 DEF DeleteIndex, PutConfig, PutAlias, DeleteAlias, AskAgent, LookUpDocument, Resolves
<1>4. ~CommitPending(c) /\ ~AgentReply(c)
  BY DEF CommitPending, Holding, AgentReply
<1>5. QED
  BY <1>1, <1>3, <1>4 DEF ClientStep

\* A document of which the database shows no write since is as the request saw it.
LEMMA StillAsSeen ==
    ASSUME NEW d \in Databases, Linked(d), NEW p \in DocumentRequests, Explained(d, p),
           ResolveIndex(d, p.name) = p.index,
           ~(Has(d.indexes, p.index) /\ WrittenSince(d.indexes[p.index], p.id, p.since))
    PROVE  p.seen = Versions(GetDocument(d, p.name, p.id))
<1>1. CASE p.index = NoName
  <2>1. ~Has(d.indexes, NoName)
    BY NamesAssumption, TableOf DEF Databases, Has
  <2>2. GetDocument(d, p.name, p.id) = {}
    BY <1>1, <2>1 DEF GetDocument
  <2>3. p.seen = {}
    BY <1>1 DEF Explained
  <2>4. QED
    BY <2>2, <2>3 DEF Versions
<1>2. CASE p.index # NoName
  <2>1. Has(d.indexes, p.index)
    BY <1>2, ResolvesToIndex
  <2>2. p.seen = VersionsAt(d.indexes[p.index], p.id)
    BY <2>1 DEF Explained
  <2>3. QED
    BY <2>1, <2>2 DEF VersionsAt, Versions, GetDocument
<1>3. QED
  BY <1>1, <1>2

AnswerExplained(c) ==
    pending[c].kind = "DocumentRequest" /\ pending'[c].kind = "DocumentAnswer" =>
        \/ ChangedSince(pending[c])
        \/ TrueOf(GetDocument(db, pending[c].name, pending[c].id), pending'[c])

LEMMA StepAnswersExplained ==
    ASSUME NoPhantoms, WriteInv, [Next]_vars, NEW c \in Clients
    PROVE  AnswerExplained(c)
<1> DEFINE p == pending[c]
           documents == GetDocument(db, p.name, p.id)
<1>1. SUFFICES ASSUME p.kind = "DocumentRequest", pending'[c].kind = "DocumentAnswer",
                      ~ChangedSince(p)
               PROVE  TrueOf(documents, pending'[c])
  BY DEF AnswerExplained
<1>2. CommitDocument(c)
  BY <1>1, OnlyCommitAnswers
<1>3. PICK op \in WriteOps, result \in Outcomes :
          /\ op \in DocumentOps(p) /\ result = WriteResult(op, db, BulkOf(db, op))
          /\ pending' = [pending EXCEPT ![c] = DocumentAnswer(p, result)]
  BY <1>2, DocumentAnswers
<1> DEFINE answer == DocumentAnswer(p, result)
<1>4. pending'[c] = answer
  BY <1>3 DEF WriteInv
<1>5. p \in DocumentRequests /\ Explained(db, p)
  BY <1>1, RequestsHeld DEF WriteInv
<1>6. db \in Databases /\ Linked(db)
  BY DEF WriteInv, Kept, Good, KeptStrictly
<1> HIDE DEF p
<1>7. p.seen = Versions(documents)
  BY <1>1, <1>5, <1>6, StillAsSeen DEF ChangedSince
<1>8. op.kind = p.request /\ op.name = p.name /\ op.id = p.id
  BY <1>3 DEF DocumentOps
<1>9. p.request \in {"IndexDocument", "DeleteDocument"}
  BY <1>5 DEF DocumentRequests
<1>10. p.seen = {} <=> documents = {}
  BY <1>7 DEF Versions
<1>11. CASE p.request = "DeleteDocument"
  <2>1. /\ result \in {"error", "deleted", "not_found"}
        /\ result = "deleted" => documents # {}
        /\ result = "not_found" => documents = {}
    BY <1>3, <1>8, <1>11 DEF WriteResult
  <2>2. DocumentResult(p, result) = result
    BY <1>11 DEF DocumentResult
  <2>3. answer.result = result
    BY <2>2 DEF DocumentAnswer
  <2>4. result = "deleted" => answer.version = {v + 1 : v \in Versions(documents)}
    BY <1>7 DEF DocumentAnswer
  <2> HIDE DEF documents, answer
  <2>5. TrueOf(documents, answer)
    BY <2>1, <2>3, <2>4 DEF TrueOf
  <2>6. QED
    BY <1>4, <2>5 DEF answer, documents
<1>12. CASE p.request = "IndexDocument"
  <2>1. DocumentResult(p, result) \in {"error", "created", "updated"}
    BY <1>3, <1>8, <1>12 DEF DocumentResult, WriteResult
  <2>2. /\ DocumentResult(p, result) = "created" => p.seen = {}
        /\ DocumentResult(p, result) = "updated" => p.seen # {}
    BY <1>3, <1>8, <1>12 DEF DocumentResult, WriteResult
  <2>3. answer.result = DocumentResult(p, result)
    BY DEF DocumentAnswer
  <2> HIDE DEF documents, answer
  <2>4. TrueOf(documents, answer)
    BY <1>10, <2>1, <2>2, <2>3 DEF TrueOf
  <2>5. QED
    BY <1>4, <2>4 DEF answer, documents
<1>13. QED
  BY <1>9, <1>11, <1>12

\* PUT, POST and DELETE of _doc answer from a look-up before the write
\* (handle_document).  Whatever other requests, replies and restarts come between,
\* an answer is wrong only where the sequence numbers show what happened to the
\* document.
THEOREM WriteStaleAnswersExplained ==
    ASSUME NoPhantoms
    PROVE  Spec => StaleAnswersExplained
<1>1. WriteInv /\ [Next]_vars => [\A c \in Clients : AnswerExplained(c)]_vars
  BY StepAnswersExplained
<1>2. Spec => [][\A c \in Clients : AnswerExplained(c)]_vars
  BY <1>1, WriteInvariant, PTL DEF Spec
<1>3. QED
  BY <1>2 DEF StaleAnswersExplained, AnswerExplained

-----------------------------------------------------------------------------
(* The order of the actions of an _aliases request.                        *)

DeleteOf(n) == [kind |-> "DeleteIndex", index |-> n]

LEMMA CommitChain ==
    ASSUME NEW d \in GoodDatabases, NEW ms \in Seq(Mutations)
    PROVE  /\ FoldsTo(Results, [p \in Results \X Mutations |-> CommitOne(p[1], p[2])],
                      Result(Accepted, d), ms, CommitAll(d, ms))
           /\ CommitAll(d, ms) \in Results
<1>1. Result(Accepted, d) \in Results
  BY DEF Result, Results, Accepted, Statuses
<1>2. \A x \in Results, y \in Mutations : CommitOne(x, y) \in Results
  BY CommitOneType
<1>3. QED
  BY <1>1, <1>2, CommitFold DEF CommitAll

\* commit_mutations goes on where it stopped.
LEMMA CommitAppended ==
    ASSUME NEW d \in GoodDatabases, NEW s \in Seq(Mutations), NEW m \in Mutations
    PROVE  CommitAll(d, Append(s, m)) = CommitOne(CommitAll(d, s), m)
<1> DEFINE F == [p \in Results \X Mutations |-> CommitOne(p[1], p[2])]
           r0 == Result(Accepted, d)
           v == CommitAll(d, s)
           w == CommitOne(v, m)
           t == s \o <<m>>
           u == CommitAll(d, t)
<1>1. <<m>> \in Seq(Mutations) /\ t \in Seq(Mutations) /\ Len(t) \in Nat
  BY ConcatProperties
<1>2. Append(s, m) = t
  BY AppendIsConcat
<1>3. FoldsTo(Results, F, r0, s, v) /\ v \in Results
  BY CommitChain
<1>4. w \in Results /\ F[<<v, m>>] = w
  BY <1>3, CommitOneType
<1> HIDE DEF t
<1>5. FoldsTo(Results, F, r0, t, u)
  BY <1>1, CommitChain
<1> HIDE DEF F, r0, v, w, u
<1>6. FoldsTo(Results, F, v, <<m>>, w)
  BY <1>3, <1>4, FoldOne
<1>7. FoldsTo(Results, F, r0, t, w)
  BY <1>1, <1>3, <1>6, FoldConcat DEF t
<1>8. u = w
  BY <1>1, <1>5, <1>7, FoldUnique
<1>9. QED
  BY <1>2, <1>8 DEF u, v, w

LEMMA ContainsAppended ==
    ASSUME NEW S, NEW s \in Seq(S), NEW x \in S, NEW y
    PROVE  Contains(Append(s, x), y) <=> Contains(s, y) \/ x = y
<1> DEFINE t == Append(s, x)
<1>1. Len(s) \in Nat /\ Len(t) = Len(s) + 1 /\ t[Len(s) + 1] = x
      /\ \A i \in 1..Len(s) : t[i] = s[i]
  BY AppendProperties
<1> HIDE DEF t
<1>2. ASSUME Contains(s, y) PROVE Contains(t, y)
  <2>1. PICK i \in 1..Len(s) : s[i] = y
    BY <1>2 DEF Contains
  <2>2. i \in 1..Len(t) /\ t[i] = y
    BY <1>1, <2>1
  <2>3. QED
    BY <2>2 DEF Contains
<1>3. ASSUME x = y PROVE Contains(t, y)
  <2>1. Len(t) \in 1..Len(t) /\ t[Len(t)] = y
    BY <1>1, <1>3
  <2>2. QED
    BY <2>1 DEF Contains
<1>4. ASSUME Contains(t, y), x # y PROVE Contains(s, y)
  <2>1. PICK i \in 1..Len(t) : t[i] = y
    BY <1>4 DEF Contains
  <2>2. i # Len(s) + 1
    BY <1>1, <1>4, <2>1
  <2>3. i \in 1..Len(s) /\ s[i] = y
    BY <1>1, <2>1, <2>2
  <2>4. QED
    BY <2>3 DEF Contains
<1>5. QED
  BY <1>2, <1>3, <1>4 DEF t

LEMMA TwoAppended ==
    ASSUME NEW S, NEW s \in Seq(S), NEW x \in S, NEW y \in S
    PROVE  s \o <<x, y>> = Append(Append(s, x), y)
<1>1. <<x>> \in Seq(S) /\ <<y>> \in Seq(S) /\ Append(s, x) \in Seq(S)
  BY AppendProperties
<1>2. <<x, y>> = <<x>> \o <<y>>
  BY ConcatTwo
<1>3. Append(s, x) = s \o <<x>>
  BY AppendIsConcat
<1>4. Append(Append(s, x), y) = Append(s, x) \o <<y>>
  BY <1>1, AppendIsConcat
<1>5. (s \o <<x>>) \o <<y>> = s \o (<<x>> \o <<y>>)
  BY <1>1, ConcatAssociative
<1>6. QED
  BY <1>2, <1>3, <1>4, <1>5

\* What the actions do to the names.
AliasEffect(d, m, e) ==
    /\ m.kind = "DeleteIndex" =>
           /\ DOMAIN e.indexes = DOMAIN d.indexes \ {m.index}
           /\ DOMAIN e.aliases = {a \in DOMAIN d.aliases : d.aliases[a] # m.index}
           /\ \A a \in DOMAIN e.aliases : e.aliases[a] = d.aliases[a]
    /\ m.kind # "DeleteIndex" => DOMAIN e.indexes = DOMAIN d.indexes
    /\ m.kind = "PutAlias" => PutAt(d.aliases, e.aliases, m.alias, m.index) /\ Has(d.indexes, m.index)
    /\ m.kind = "DeleteAlias" => TakenOut(d.aliases, e.aliases, m.alias)

LEMMA AliasEffects ==
    ASSUME NEW d \in GoodDatabases, NEW m \in AliasMutations, ValidateMutation(d, m) = Accepted
    PROVE  AliasEffect(d, m, ApplyMutation(d, m))
<1> DEFINE e == ApplyMutation(d, m)
<1>1. d \in Databases /\ Covered(d)
  BY DEF GoodDatabases, Good
<1>2. m \in Mutations /\ m.index \in Names /\ m.kind \in {"DeleteIndex", "PutAlias", "DeleteAlias"}
  BY DEF AliasMutations, Mutations, NamedMutations
<1>3. e.indexes = NextIndexes(d, m) /\ e.aliases = NextAliases(d, m)
  BY <1>1, <1>2, ApplyCases
<1>4. d.aliases \in Table(Names, Names)
  BY <1>1 DEF Databases
<1> HIDE DEF e
<1>5. DOMAIN e.indexes = IF m.kind = "DeleteIndex" THEN DOMAIN d.indexes \ {m.index}
                         ELSE DOMAIN d.indexes
  BY <1>1, <1>2, <1>3, NextDomain
<1>6. CASE m.kind = "DeleteIndex"
  <2> DEFINE S == {a \in DOMAIN d.aliases : d.aliases[a] # m.index}
  <2>1. e.aliases = Restrict(d.aliases, S)
    BY <1>3, <1>6 DEF NextAliases
  <2>2. S \in SUBSET DOMAIN d.aliases
    OBVIOUS
  <2> HIDE DEF S
  <2>3. DOMAIN e.aliases = S /\ \A a \in S : e.aliases[a] = d.aliases[a]
    BY <1>4, <2>1, <2>2, TableRestrict
  <2>4. QED
    BY <1>5, <1>6, <2>3 DEF AliasEffect, S, e
<1>7. CASE m.kind = "PutAlias"
  <2>1. m.alias \in Names
    BY <1>7 DEF AliasMutations
  <2>2. e.aliases = Put(d.aliases, m.alias, m.index)
    BY <1>3, <1>7 DEF NextAliases
  <2>3. PutAt(d.aliases, e.aliases, m.alias, m.index)
    BY <1>2, <1>4, <2>1, <2>2, TablePut
  <2>4. Has(d.indexes, m.index)
    BY <1>2, <1>7, Validated DEF OnIndexKinds, ConfigKinds
  <2>5. QED
    BY <1>5, <1>7, <2>3, <2>4 DEF AliasEffect, e
<1>8. CASE m.kind = "DeleteAlias"
  <2>1. e.aliases = Without(d.aliases, m.alias)
    BY <1>3, <1>8 DEF NextAliases
  <2>2. TakenOut(d.aliases, e.aliases, m.alias)
    BY <1>4, <2>1, TableWithout
  <2>3. QED
    BY <1>5, <1>8, <2>2 DEF AliasEffect, e
<1>9. QED
  BY <1>2, <1>6, <1>7, <1>8

IsAbout(m, a) == m.kind # "DeleteIndex" /\ m.alias = a
LastAbout(ms, k, a, j) ==
    j \in 1..k /\ IsAbout(ms[j], a) /\ \A i \in 1..k : IsAbout(ms[i], a) => i <= j

\* The alias is as the action says: gone, or on the index as long as that exists.
Agrees(d, a, m) ==
    /\ m.kind = "DeleteAlias" => ~Has(d.aliases, a)
    /\ m.kind = "PutAlias" =>
           /\ Has(d.aliases, a) <=> Has(d.indexes, m.index)
           /\ Has(d.aliases, a) => d.aliases[a] = m.index

\* What k actions of ms have done once `ordered' is committed.
Done(removed, ms, k, ordered, d) ==
    /\ \A n \in Names : Contains(ordered, DeleteOf(n)) => ~Has(d.indexes, n)
    /\ \A j \in 1..k : ms[j].kind = "DeleteIndex" => ~Has(d.indexes, ms[j].index)
    /\ \A j \in 1..k : ms[j].kind = "PutAlias" /\ ms[j].index \notin removed =>
                           Has(d.indexes, ms[j].index)
    /\ \A a \in Names, j \in 1..k : LastAbout(ms, k, a, j) => Agrees(d, a, ms[j])

LEMMA DoneDelete ==
    ASSUME NEW removed, NEW ms \in Seq(AliasMutations), NEW k \in Nat, k <= Len(ms),
           NEW o \in Seq(AliasMutations), NEW d, NEW e, NEW n \in Names \cap removed,
           Done(removed, ms, k, o, d), AliasEffect(d, DeleteOf(n), e)
    PROVE  Done(removed, ms, k, Append(o, DeleteOf(n)), e)
<1>1. DeleteOf(n) \in AliasMutations /\ DeleteOf(n).kind = "DeleteIndex" /\ DeleteOf(n).index = n
  BY DEF DeleteOf, AliasMutations
<1>2. /\ DOMAIN e.indexes = DOMAIN d.indexes \ {n}
      /\ DOMAIN e.aliases = {a \in DOMAIN d.aliases : d.aliases[a] # n}
      /\ \A a \in DOMAIN e.aliases : e.aliases[a] = d.aliases[a]
  BY <1>1 DEF AliasEffect
<1>3. ASSUME NEW x \in Names, Contains(Append(o, DeleteOf(n)), DeleteOf(x))
      PROVE  ~Has(e.indexes, x)
  <2>1. Contains(o, DeleteOf(x)) \/ DeleteOf(n) = DeleteOf(x)
    BY <1>1, <1>3, ContainsAppended
  <2>2. DeleteOf(n) = DeleteOf(x) => n = x
    BY DEF DeleteOf
  <2>3. QED
    BY <1>2, <2>1, <2>2 DEF Done, Has
<1>4. ASSUME NEW j \in 1..k, ms[j].kind = "DeleteIndex" PROVE ~Has(e.indexes, ms[j].index)
  BY <1>2, <1>4 DEF Done, Has
<1>5. ASSUME NEW j \in 1..k, ms[j].kind = "PutAlias", ms[j].index \notin removed
      PROVE  Has(e.indexes, ms[j].index)
  BY <1>2, <1>5 DEF Done, Has
<1>6. ASSUME NEW a \in Names, NEW j \in 1..k, LastAbout(ms, k, a, j)
      PROVE  Agrees(e, a, ms[j])
  <2>1. Agrees(d, a, ms[j])
    BY <1>6 DEF Done
  <2>2. QED
    BY <1>2, <2>1 DEF Agrees, Has
<1>7. QED
  BY <1>3, <1>4, <1>5, <1>6 DEF Done

\* One more position.
LEMMA LastAboutNext ==
    ASSUME NEW ms, NEW k \in Nat, k # 0, NEW a, NEW j, LastAbout(ms, k, a, j)
    PROVE  \/ j = k /\ IsAbout(ms[k], a)
           \/ ~IsAbout(ms[k], a) /\ j \in 1..(k - 1) /\ LastAbout(ms, k - 1, a, j)
<1>1. k \in 1..k /\ j \in 1..k /\ \A i \in 1..(k - 1) : i \in 1..k
  BY DEF LastAbout
<1>2. CASE IsAbout(ms[k], a)
  <2>1. k <= j /\ j <= k /\ j \in Nat
    BY <1>1, <1>2 DEF LastAbout
  <2>2. j = k
    BY <2>1
  <2>3. QED
    BY <1>2, <2>2
<1>3. CASE ~IsAbout(ms[k], a)
  <2>1. j # k
    BY <1>3 DEF LastAbout
  <2>2. j \in 1..(k - 1)
    BY <1>1, <2>1
  <2>3. QED
    BY <1>1, <1>3, <2>2 DEF LastAbout
<1>4. QED
  BY <1>2, <1>3

\* The removal of an index that is gone.
LEMMA DoneRemoval ==
    ASSUME NEW removed, NEW ms, NEW k \in Nat, k # 0, NEW o, NEW d,
           Done(removed, ms, k - 1, o, d), ms[k].kind = "DeleteIndex",
           ~Has(d.indexes, ms[k].index)
    PROVE  Done(removed, ms, k, o, d)
<1>1. \A j \in 1..k : j = k \/ j \in 1..(k - 1)
  OBVIOUS
<1>2. \A j \in 1..k : ms[j].kind = "DeleteIndex" => ~Has(d.indexes, ms[j].index)
  BY <1>1 DEF Done
<1>3. \A j \in 1..k : ms[j].kind = "PutAlias" /\ ms[j].index \notin removed =>
                          Has(d.indexes, ms[j].index)
  BY <1>1 DEF Done
<1>4. ASSUME NEW a \in Names, NEW j \in 1..k, LastAbout(ms, k, a, j)
      PROVE  Agrees(d, a, ms[j])
  <2>1. j \in 1..(k - 1) /\ LastAbout(ms, k - 1, a, j)
    BY <1>4, LastAboutNext DEF IsAbout
  <2>2. QED
    BY <2>1 DEF Done
<1>5. QED
  BY <1>2, <1>3, <1>4 DEF Done

\* An action about an alias.
LEMMA DoneAlias ==
    ASSUME NEW removed, NEW ms \in Seq(AliasMutations), NEW k \in 1..Len(ms),
           NEW o \in Seq(AliasMutations), NEW d, NEW e,
           Done(removed, ms, k - 1, o, d), ms[k].kind # "DeleteIndex", AliasEffect(d, ms[k], e)
    PROVE  Done(removed, ms, k, Append(o, ms[k]), e)
<1> DEFINE m == ms[k]
<1>1. /\ m \in AliasMutations /\ m.kind \in {"PutAlias", "DeleteAlias"}
      /\ DOMAIN e.indexes = DOMAIN d.indexes
      /\ m.kind = "PutAlias" => PutAt(d.aliases, e.aliases, m.alias, m.index) /\ Has(d.indexes, m.index)
      /\ m.kind = "DeleteAlias" => TakenOut(d.aliases, e.aliases, m.alias)
  BY DEF AliasEffect, AliasMutations
<1>2. \A j \in 1..k : j = k \/ j \in 1..(k - 1)
  OBVIOUS
<1>3. ASSUME NEW x \in Names, Contains(Append(o, m), DeleteOf(x))
      PROVE  ~Has(e.indexes, x)
  <2>1. m # DeleteOf(x)
    BY DEF DeleteOf
  <2>2. Contains(o, DeleteOf(x))
    BY <1>1, <1>3, <2>1, ContainsAppended
  <2>3. QED
    BY <1>1, <2>2 DEF Done, Has
<1>4. \A j \in 1..k : ms[j].kind = "DeleteIndex" => ~Has(e.indexes, ms[j].index)
  BY <1>1, <1>2 DEF Done, Has
<1>5. \A j \in 1..k : ms[j].kind = "PutAlias" /\ ms[j].index \notin removed =>
                          Has(e.indexes, ms[j].index)
  BY <1>1, <1>2 DEF Done, Has
<1>6. ASSUME NEW a \in Names, NEW j \in 1..k, LastAbout(ms, k, a, j)
      PROVE  Agrees(e, a, ms[j])
  <2>1. k \in Nat /\ k # 0
    OBVIOUS
  <2>2. CASE j = k /\ IsAbout(m, a)
    <3>1. m.alias = a
      BY <2>2 DEF IsAbout
    <3>2. QED
      BY <1>1, <2>2, <3>1 DEF Agrees, PutAt, TakenOut, Has
  <2>3. CASE ~IsAbout(m, a) /\ j \in 1..(k - 1) /\ LastAbout(ms, k - 1, a, j)
    <3>1. Agrees(d, a, ms[j]) /\ m.alias # a
      BY <2>3 DEF Done, IsAbout
    <3>2. Has(e.aliases, a) <=> Has(d.aliases, a)
      BY <1>1, <3>1 DEF PutAt, TakenOut, Has
    <3>3. Has(e.aliases, a) => e.aliases[a] = d.aliases[a]
      BY <1>1, <3>1 DEF PutAt, TakenOut, Has
    <3>4. Has(e.indexes, ms[j].index) <=> Has(d.indexes, ms[j].index)
      BY <1>1 DEF Has
    <3>5. QED
      BY <3>1, <3>2, <3>3, <3>4 DEF Agrees
  <2>4. QED
    BY <1>6, <2>1, <2>2, <2>3, LastAboutNext
<1>7. QED
  BY <1>3, <1>4, <1>5, <1>6 DEF Done

LEMMA AliasMutationsAre == AliasMutations \subseteq Mutations
BY DEF AliasMutations, Mutations, NamedMutations

LEMMA CommitsAlias ==
    ASSUME NEW d0 \in GoodDatabases, NEW o \in Seq(AliasMutations), NEW m \in AliasMutations,
           CommitAll(d0, Append(o, m)).status = Accepted
    PROVE  /\ CommitAll(d0, o).status = Accepted
           /\ AliasEffect(CommitAll(d0, o).db, m, CommitAll(d0, Append(o, m)).db)
<1> DEFINE r == CommitAll(d0, o)
           q == CommitAll(d0, Append(o, m))
<1>1. o \in Seq(Mutations) /\ m \in Mutations
  BY AliasMutationsAre, SeqMonotonic
<1>2. q = CommitOne(r, m)
  BY <1>1, CommitAppended
<1>3. r \in Results
  BY <1>1, CommitChain
<1>4. q.status = Accepted
  OBVIOUS
<1> HIDE DEF r, q
<1>5. r.status = Accepted /\ ValidateMutation(r.db, m) = Accepted /\ q.db = ApplyMutation(r.db, m)
  BY <1>1, <1>2, <1>3, <1>4, CommitOneType
<1>6. r.db \in GoodDatabases
  BY <1>3 DEF Results
<1>7. AliasEffect(r.db, m, q.db)
  BY <1>5, <1>6, AliasEffects
<1>8. QED
  BY <1>5, <1>7 DEF r, q

Settled(d0, removed, ms, k, o) ==
    CommitAll(d0, o).status = Accepted => Done(removed, ms, k, o, CommitAll(d0, o).db)

LEMMA EmitSettles ==
    ASSUME NEW d0 \in GoodDatabases, NEW ms \in Seq(AliasMutations), NEW removed,
           removed = RemovedBy(ms), NEW k \in 1..Len(ms), NEW o \in Seq(AliasMutations),
           Settled(d0, removed, ms, k - 1, o)
    PROVE  Settled(d0, removed, ms, k, EmitInto(removed, o, ms[k]))
<1> DEFINE m == ms[k]
           o2 == EmitInto(removed, o, m)
<1>1. m \in AliasMutations /\ k \in Nat /\ k # 0 /\ k - 1 \in Nat /\ k - 1 <= Len(ms)
  OBVIOUS
<1>2. SUFFICES ASSUME CommitAll(d0, o2).status = Accepted
               PROVE  Done(removed, ms, k, o2, CommitAll(d0, o2).db)
  BY DEF Settled
<1> HIDE DEF m, o2
<1>3. CASE /\ m.kind = "PutAlias" /\ m.alias \in removed /\ ~Contains(o, DeleteOf(m.alias))
  <2> DEFINE x == DeleteOf(m.alias)
             o1 == Append(o, x)
  <2>1. m.alias \in Names /\ x \in AliasMutations
    BY <1>1, <1>3 DEF AliasMutations, DeleteOf
  <2>2. o2 = o \o <<x, m>>
    BY <1>3 DEF o2, EmitInto, DeleteOf
  <2>3. o2 = Append(o1, m)
    BY <1>1, <2>1, <2>2, TwoAppended
  <2>4. o1 \in Seq(AliasMutations)
    BY <2>1, AppendProperties
  <2> HIDE DEF o1
  <2>5. /\ CommitAll(d0, o1).status = Accepted
        /\ AliasEffect(CommitAll(d0, o1).db, m, CommitAll(d0, o2).db)
    BY <1>1, <1>2, <2>3, <2>4, CommitsAlias
  <2>6. /\ CommitAll(d0, o).status = Accepted
        /\ AliasEffect(CommitAll(d0, o).db, x, CommitAll(d0, o1).db)
    BY <2>1, <2>5, CommitsAlias DEF o1
  <2>7. Done(removed, ms, k - 1, o, CommitAll(d0, o).db)
    BY <2>6 DEF Settled
  <2>8. Done(removed, ms, k - 1, o1, CommitAll(d0, o1).db)
    BY <1>1, <1>3, <2>1, <2>6, <2>7, DoneDelete DEF o1
  <2>9. Done(removed, ms, k, Append(o1, m), CommitAll(d0, o2).db)
    BY <1>3, <2>4, <2>5, <2>8, DoneAlias DEF m
  <2>10. QED
    BY <2>3, <2>9
<1>4. CASE m.kind = "DeleteIndex" /\ Contains(o, DeleteOf(m.index))
  <2>1. o2 = o
    BY <1>4 DEF o2, EmitInto, DeleteOf
  <2>2. Done(removed, ms, k - 1, o, CommitAll(d0, o).db)
    BY <1>2, <2>1 DEF Settled
  <2>3. m.index \in Names
    BY <1>1 DEF AliasMutations
  <2>4. ~Has(CommitAll(d0, o).db.indexes, m.index)
    BY <1>4, <2>2, <2>3 DEF Done
  <2>5. QED
    BY <1>1, <1>4, <2>1, <2>2, <2>4, DoneRemoval DEF m
<1>5. CASE m.kind = "DeleteIndex" /\ ~Contains(o, DeleteOf(m.index))
  <2>1. o2 = Append(o, m)
    BY <1>5 DEF o2, EmitInto, DeleteOf
  <2>2. m = DeleteOf(m.index) /\ m.index \in Names
    BY <1>1, <1>5 DEF AliasMutations, DeleteOf
  <2>3. m.index \in removed
    BY <1>5 DEF RemovedBy, m
  <2>4. /\ CommitAll(d0, o).status = Accepted
        /\ AliasEffect(CommitAll(d0, o).db, m, CommitAll(d0, o2).db)
    BY <1>1, <1>2, <2>1, CommitsAlias
  <2>5. Done(removed, ms, k - 1, o, CommitAll(d0, o).db)
    BY <2>4 DEF Settled
  <2>6. Done(removed, ms, k - 1, o2, CommitAll(d0, o2).db)
    BY <1>1, <2>1, <2>2, <2>3, <2>4, <2>5, DoneDelete
  <2>7. ~Has(CommitAll(d0, o2).db.indexes, m.index)
    BY <1>5, <2>4 DEF AliasEffect, Has
  <2>8. QED
    BY <1>1, <1>5, <2>6, <2>7, DoneRemoval DEF m
<1>6. CASE /\ m.kind # "DeleteIndex"
           /\ ~(m.kind = "PutAlias" /\ m.alias \in removed /\ ~Contains(o, DeleteOf(m.alias)))
  <2>1. o2 = Append(o, m)
    BY <1>6 DEF o2, EmitInto, DeleteOf
  <2>2. /\ CommitAll(d0, o).status = Accepted
        /\ AliasEffect(CommitAll(d0, o).db, m, CommitAll(d0, o2).db)
    BY <1>1, <1>2, <2>1, CommitsAlias
  <2>3. Done(removed, ms, k - 1, o, CommitAll(d0, o).db)
    BY <2>2 DEF Settled
  <2>4. Done(removed, ms, k, Append(o, m), CommitAll(d0, o2).db)
    BY <1>6, <2>2, <2>3, DoneAlias DEF m
  <2>5. QED
    BY <2>1, <2>4
<1>7. QED
  BY <1>3, <1>4, <1>5, <1>6

\* The whole request.
LEMMA OrderedSettles ==
    ASSUME NEW d0 \in GoodDatabases, NEW ms \in Seq(AliasMutations)
    PROVE  Settled(d0, RemovedBy(ms), ms, Len(ms), OrderAliasMutations(ms))
<1> DEFINE R == Seq(AliasMutations)
           removed == RemovedBy(ms)
           F == [p \in R \X AliasMutations |-> EmitInto(removed, p[1], p[2])]
           n == Len(ms)
<1>1. \A s \in R, m \in AliasMutations : EmitInto(removed, s, m) \in R
  BY EmitStays
<1>2. <<>> \in R /\ n \in Nat /\ \A k \in 1..n : ms[k] \in AliasMutations
  OBVIOUS
<1> HIDE DEF R, removed
<1>3. FoldsTo(R, F, <<>>, ms, OrderAliasMutations(ms))
  BY <1>1, <1>2, OrderFold DEF removed
<1>4. PICK c \in [0..n -> R] : /\ c[0] = <<>> /\ OrderAliasMutations(ms) = c[n]
                               /\ \A k \in 1..n : c[k] = F[<<c[k - 1], ms[k]>>]
  BY <1>3 DEF FoldsTo
<1> DEFINE T == {k \in 0..n : Settled(d0, removed, ms, k, c[k])}
<1>5. 0 \in T
  <2>1. \A x : ~Contains(<<>>, x)
    BY DEF Contains
  <2>2. 1..0 = {}
    OBVIOUS
  <2>3. \A d : Done(removed, ms, 0, <<>>, d)
    BY <2>1, <2>2 DEF Done
  <2>4. QED
    BY <1>2, <1>4, <2>3 DEF Settled
<1>6. ASSUME NEW k \in 1..n, k - 1 \in T PROVE k \in T
  <2>1. k - 1 \in 0..n /\ k \in 0..n /\ c[k - 1] \in R /\ ms[k] \in AliasMutations
    BY <1>2, <1>4
  <2>2. c[k] = EmitInto(removed, c[k - 1], ms[k])
    BY <1>4, <2>1
  <2>3. Settled(d0, removed, ms, k - 1, c[k - 1])
    BY <1>6
  <2>4. Settled(d0, removed, ms, k, EmitInto(removed, c[k - 1], ms[k]))
    BY <2>1, <2>3, EmitSettles DEF R, removed
  <2>5. QED
    BY <2>1, <2>2, <2>4
<1> HIDE DEF T, n
<1>7. \A k \in 0..n : k \in T
  BY <1>2, <1>5, <1>6, UpTo
<1>8. n \in T
  BY <1>2, <1>7
<1>9. Settled(d0, removed, ms, n, c[n])
  BY <1>8 DEF T
<1>10. QED
  BY <1>4, <1>9 DEF n, removed

\* A request of two actions.
LEMMA OrderedPair ==
    ASSUME NEW x \in AliasMutations, NEW y \in AliasMutations, NEW removed,
           removed = RemovedBy(<<x, y>>)
    PROVE  OrderAliasMutations(<<x, y>>) = EmitInto(removed, EmitInto(removed, <<>>, x), y)
<1> DEFINE R == Seq(AliasMutations)
           F == [p \in R \X AliasMutations |-> EmitInto(removed, p[1], p[2])]
           ms == <<x, y>>
<1>1. \A s \in R, m \in AliasMutations : EmitInto(removed, s, m) \in R
  BY EmitStays
<1>2. /\ <<>> \in R /\ Len(ms) = 2 /\ ms[1] = x /\ ms[2] = y
      /\ ms \in Seq(AliasMutations) /\ removed = RemovedBy(ms)
  OBVIOUS
<1> HIDE DEF R, ms
<1>3. FoldsTo(R, F, <<>>, ms, OrderAliasMutations(ms))
  BY <1>1, <1>2, OrderFold
<1> HIDE DEF F
<1>4. PICK c \in [0..2 -> R] : /\ c[0] = <<>> /\ OrderAliasMutations(ms) = c[2]
                               /\ \A k \in 1..2 : c[k] = F[<<c[k - 1], ms[k]>>]
  BY <1>2, <1>3, Zenon DEF FoldsTo
<1>5. 1 \in 1..2 /\ 2 \in 1..2 /\ 1 - 1 = 0 /\ 2 - 1 = 1 /\ 1 \in 0..2
  OBVIOUS
<1>6. c[1] = F[<<c[0], x>>] /\ c[2] = F[<<c[1], y>>] /\ c[1] \in R
  BY <1>2, <1>4, <1>5
<1>7. c[1] = EmitInto(removed, <<>>, x)
  BY <1>2, <1>4, <1>6 DEF F
<1>8. c[2] = EmitInto(removed, c[1], y)
  BY <1>6 DEF F
<1>9. QED
  BY <1>4, <1>7, <1>8 DEF ms

LEMMA PairOrdered ==
    ASSUME NEW put \in AliasMutations, put.kind = "PutAlias"
    PROVE  OrderAliasMutations(<<put, DeleteOf(put.alias)>>) =
               OrderAliasMutations(<<DeleteOf(put.alias), put>>)
<1> DEFINE x == DeleteOf(put.alias)
           removed == {put.alias}
<1>1. put.alias \in Names
  BY DEF AliasMutations
<1>2. x \in AliasMutations /\ x.kind = "DeleteIndex" /\ x.index = put.alias
  BY <1>1 DEF DeleteOf, AliasMutations
<1>3. x = [kind |-> "DeleteIndex", index |-> put.alias]
  BY DEF DeleteOf
<1> HIDE DEF x
<1>4. RemovedBy(<<put, x>>) = removed
  <2> DEFINE ms == <<put, x>>
  <2>1. DOMAIN ms = {1, 2} /\ ms[1] = put /\ ms[2] = x
    OBVIOUS
  <2> HIDE DEF ms
  <2>2. {j \in DOMAIN ms : ms[j].kind = "DeleteIndex"} = {2}
    BY <1>2, <2>1
  <2>3. {ms[i] : i \in {j \in DOMAIN ms : ms[j].kind = "DeleteIndex"}} = {x}
    BY <2>1, <2>2
  <2>4. QED
    BY <1>2, <2>3 DEF RemovedBy, ms
<1>5. RemovedBy(<<x, put>>) = removed
  <2> DEFINE ms == <<x, put>>
  <2>1. DOMAIN ms = {1, 2} /\ ms[2] = put /\ ms[1] = x
    OBVIOUS
  <2> HIDE DEF ms
  <2>2. {j \in DOMAIN ms : ms[j].kind = "DeleteIndex"} = {1}
    BY <1>2, <2>1
  <2>3. {ms[i] : i \in {j \in DOMAIN ms : ms[j].kind = "DeleteIndex"}} = {x}
    BY <2>1, <2>2
  <2>4. QED
    BY <1>2, <2>3 DEF RemovedBy, ms
<1>6. \A z : ~Contains(<<>>, z)
  BY DEF Contains
<1>7. <<>> \in Seq(AliasMutations) /\ Append(<<>>, x) = <<x>> /\ <<x>> \in Seq(AliasMutations)
  BY <1>2
<1>8. <<>> \o <<x, put>> = Append(Append(<<>>, x), put)
  BY <1>2, <1>7, TwoAppended
<1>9. Append(<<>>, x) \in Seq(AliasMutations) /\ Contains(Append(<<>>, x), x)
  BY <1>2, <1>7, ContainsAppended
<1> DEFINE s == Append(<<>>, x)
           t == Append(s, put)
<1>10. Contains(t, x)
  BY <1>9, ContainsAppended
<1>11. <<>> \o <<x, put>> = t
  BY <1>8
<1> HIDE DEF s, t
<1>12. EmitInto(removed, <<>>, put) = t
  BY <1>3, <1>6, <1>11 DEF EmitInto
<1>13. EmitInto(removed, t, x) = t
  BY <1>2, <1>3, <1>10 DEF EmitInto
<1>14. EmitInto(removed, <<>>, x) = s
  BY <1>2, <1>3, <1>6 DEF EmitInto, s
<1>15. EmitInto(removed, s, put) = t
  BY <1>3, <1>9 DEF EmitInto, s, t
<1>16. OrderAliasMutations(<<put, x>>) = t
  BY <1>2, <1>4, <1>12, <1>13, OrderedPair
<1>17. OrderAliasMutations(<<x, put>>) = t
  BY <1>2, <1>5, <1>14, <1>15, OrderedPair
<1>18. QED
  BY <1>16, <1>17 DEF x

\* A client may send the actions of an _aliases request in any order that makes
\* sense to it: order_alias_mutations moves the removal of an index before the
\* alias that takes its name, and a request that commits has removed every index
\* it names and left every alias as the last action about it says.  It holds for
\* requests of any length, not only for those the runs enumerate.
THEOREM WriteOrderedActions == Spec => []OrderedActionsSound
<1>1. WriteInv => OrderedActionsSound
  <2> SUFFICES ASSUME WriteInv PROVE OrderedActionsSound
    OBVIOUS
  <2>1. db \in GoodDatabases
    BY DEF WriteInv, Kept, Good, GoodDatabases
  <2>2. ASSUME NEW put \in {m \in AliasMutations : m.kind = "PutAlias"}
        PROVE  LET remove == [kind |-> "DeleteIndex", index |-> put.alias]
               IN  CommitAll(db, OrderAliasMutations(<<put, remove>>)) =
                       CommitAll(db, OrderAliasMutations(<<remove, put>>))
    <3>1. OrderAliasMutations(<<put, DeleteOf(put.alias)>>) =
              OrderAliasMutations(<<DeleteOf(put.alias), put>>)
      BY PairOrdered
    <3>2. QED
      BY <3>1 DEF DeleteOf
  <2>3. ASSUME NEW ms \in SeqOf(AliasMutations, MaxActions)
        PROVE  LET r         == CommitAll(db, OrderAliasMutations(ms))
                   removed   == {ms[i].index : i \in {j \in DOMAIN ms : ms[j].kind = "DeleteIndex"}}
                   About(a)  == {i \in DOMAIN ms : ms[i].kind # "DeleteIndex" /\ ms[i].alias = a}
                   Final(a)  == ms[Max(About(a))]
                   Stays(a)  == Final(a).kind = "PutAlias" /\ Final(a).index \notin removed
               IN  r.status = Accepted =>
                       /\ removed \cap DOMAIN r.db.indexes = {}
                       /\ \A a \in Names : About(a) # {} =>
                              /\ Has(r.db.aliases, a) <=> Stays(a)
                              /\ Stays(a) => r.db.aliases[a] = Final(a).index
    <3> DEFINE r        == CommitAll(db, OrderAliasMutations(ms))
               removed  == {ms[i].index : i \in {j \in DOMAIN ms : ms[j].kind = "DeleteIndex"}}
               About(a) == {i \in DOMAIN ms : ms[i].kind # "DeleteIndex" /\ ms[i].alias = a}
               Final(a) == ms[Max(About(a))]
               Stays(a) == Final(a).kind = "PutAlias" /\ Final(a).index \notin removed
               n        == Len(ms)
    <3> SUFFICES ASSUME r.status = Accepted
                 PROVE  /\ removed \cap DOMAIN r.db.indexes = {}
                        /\ \A a \in Names : About(a) # {} =>
                               /\ Has(r.db.aliases, a) <=> Stays(a)
                               /\ Stays(a) => r.db.aliases[a] = Final(a).index
      OBVIOUS
    <3>1. ms \in Seq(AliasMutations)
      BY SeqOfType, RequestsAssumption DEF RequestsAssumption
    <3>2. n \in Nat /\ DOMAIN ms = 1..n /\ \A i \in 1..n : ms[i] \in AliasMutations
      BY <3>1
    <3>3. RemovedBy(ms) = removed
      BY DEF RemovedBy
    <3>4. Done(removed, ms, n, OrderAliasMutations(ms), r.db)
      BY <2>1, <3>1, <3>3, OrderedSettles DEF Settled
    <3> HIDE DEF r, n
    <3>5. removed \cap DOMAIN r.db.indexes = {}
      BY <3>2, <3>4 DEF Done, Has
    <3>6. ASSUME NEW a \in Names, About(a) # {}
          PROVE  /\ Has(r.db.aliases, a) <=> Stays(a)
                 /\ Stays(a) => r.db.aliases[a] = Final(a).index
      <4> DEFINE k == Max(About(a))
      <4>1. About(a) \in SUBSET (1..n)
        BY <3>2
      <4>2. k \in About(a) /\ \A y \in About(a) : k >= y
        <5> HIDE DEF About
        <5>1. QED
          BY <3>2, <3>6, <4>1, LastPosition
      <4> HIDE DEF k
      <4>3. k \in 1..n /\ ms[k] \in AliasMutations /\ LastAbout(ms, n, a, k)
        <5>1. k \in 1..n /\ IsAbout(ms[k], a)
          BY <3>2, <4>2 DEF IsAbout
        <5>2. ASSUME NEW i \in 1..n, IsAbout(ms[i], a) PROVE i <= k
          BY <3>2, <4>2, <5>1, <5>2 DEF IsAbout
        <5>3. QED
          BY <3>2, <5>1, <5>2 DEF LastAbout
      <4>4. Agrees(r.db, a, ms[k])
        BY <3>4, <4>3 DEF Done
      <4>5. ms[k].kind \in {"PutAlias", "DeleteAlias"}
        BY <4>3 DEF AliasMutations, LastAbout, IsAbout
      <4>6. Final(a) = ms[k]
        BY DEF k
      <4> DEFINE f == ms[k]
      <4>7. CASE f.kind = "DeleteAlias"
        BY <4>4, <4>6, <4>7 DEF Agrees
      <4>8. CASE f.kind = "PutAlias"
        <5>1. (Has(r.db.aliases, a) <=> Has(r.db.indexes, f.index))
              /\ (Has(r.db.aliases, a) => r.db.aliases[a] = f.index)
          BY <4>4, <4>8 DEF Agrees
        <5>2. f.index \in removed => ~Has(r.db.indexes, f.index)
          BY <3>5 DEF Has
        <5>3. f.index \notin removed => Has(r.db.indexes, f.index)
          BY <3>4, <4>3, <4>8 DEF Done
        <5>4. Stays(a) <=> f.index \notin removed
          BY <4>6, <4>8
        <5> HIDE DEF f, removed, About, Final, Stays
        <5>5. QED
          BY <5>1, <5>2, <5>3, <5>4, <4>6 DEF f
      <4>9. QED
        BY <4>5, <4>7, <4>8
    <3>7. QED
      BY <3>5, <3>6
  <2>4. QED
    BY <2>2, <2>3 DEF OrderedActionsSound
<1>2. QED
  BY <1>1, WriteInvariant, PTL

=============================================================================
