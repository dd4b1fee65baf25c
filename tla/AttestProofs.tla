----------------------------- MODULE AttestProofs -----------------------------
(* Theorems about Attest, for any bundles, people, allow-list and required types. *)
EXTENDS Attest, FiniteSetTheorems, FunctionTheorems, SequenceTheorems, WellFoundedInduction, TLAPS

----------------------------------------------------------------------------
(* The orders in which a run takes its concepts. *)
\* The i-th member of a set, in order: each position has one, and each member a position.
LEMMA InOrderEnumerates ==
  ASSUME NEW S, S \subseteq Nat, IsFiniteSet(S)
  PROVE  InOrder(S) \in Seq(S) /\ ToSet(InOrder(S)) = S
<1>. DEFINE upto(id) == {j \in S : j <= id}
            rank == [id \in S |-> Cardinality(upto(id))]
            n == Cardinality(S)
<1>1. IsFiniteSet(S) /\ S \subseteq Nat
  OBVIOUS
<1>2. n \in Nat
  BY <1>1, FS_CardinalityType
<1>3. ASSUME NEW id \in S
      PROVE  IsFiniteSet(upto(id)) /\ Cardinality(upto(id)) \in 1 .. n
  <2>1. IsFiniteSet(upto(id)) /\ Cardinality(upto(id)) <= n
    BY <1>1, FS_Subset
  <2>2. Cardinality(upto(id)) \in Nat
    BY <2>1, FS_CardinalityType
  <2>3. id \in upto(id)
    BY <1>1
  <2>4. Cardinality(upto(id)) # 0
    BY <2>1, <2>3, FS_EmptySet
  <2>. QED
    BY <1>2, <2>1, <2>2, <2>4
<1>4. ASSUME NEW x \in S, NEW y \in S, x < y
      PROVE  Cardinality(upto(x)) # Cardinality(upto(y))
  <2>1. upto(x) \subseteq upto(y) /\ y \in upto(y) /\ y \notin upto(x)
    <3>1. x \in Nat /\ y \in Nat /\ \A j \in S : j \in Nat
      BY <1>1
    <3>2. \A j \in S : j <= x => j <= y
      BY <1>4, <3>1
    <3>3. y <= y /\ ~(y <= x)
      BY <1>4, <3>1
    <3>. QED
      BY <3>2, <3>3
  <2>. QED
    BY <1>3, <2>1, FS_Subset
<1>5. rank \in Injection(S, 1 .. n)
  <2>1. rank \in [S -> 1 .. n]
    BY <1>3
  <2>2. \A x, y \in S : rank[x] = rank[y] => x = y
    <3>. SUFFICES ASSUME NEW x \in S, NEW y \in S, rank[x] = rank[y]
                  PROVE  x = y
      OBVIOUS
    <3>1. ~(x < y) /\ ~(y < x)
      BY <1>4
    <3>. QED
      BY <1>1, <3>1
  <2>. HIDE DEF rank
  <2>. QED
    BY <2>1, <2>2 DEF Injection, IsInjective
<1>6. rank \in Surjection(S, 1 .. n)
  <2>1. IsFiniteSet(1 .. n) /\ Cardinality(1 .. n) = n
    BY <1>2, FS_Interval
  <2>. HIDE DEF rank
  <2>. QED
    BY <1>5, <2>1, FS_Injection
<1>7. \A i \in 1 .. n : \E id \in S : Cardinality(upto(id)) = i
  <2>1. \A i \in 1 .. n : \E id \in S : rank[id] = i
    <3>. HIDE DEF rank
    <3>. QED
      BY <1>6 DEF Surjection
  <2>. QED
    BY <2>1
<1>8. \A i \in 1 .. n : InOrder(S)[i] \in S
  <2>. SUFFICES ASSUME NEW i \in 1 .. n
                PROVE  InOrder(S)[i] \in S
    OBVIOUS
  <2>1. InOrder(S)[i] = CHOOSE id \in S : Cardinality(upto(id)) = i
    BY DEF InOrder
  <2>. QED
    BY <1>7, <2>1
<1>9. InOrder(S) = [i \in 1 .. n |-> InOrder(S)[i]]
  <2>. DEFINE member(i) == CHOOSE id \in S : Cardinality(upto(id)) = i
  <2>1. InOrder(S) = [i \in 1 .. n |-> member(i)]
    BY DEF InOrder
  <2>. HIDE DEF member, n
  <2>. QED
    BY <2>1
<1>10. ASSUME NEW id \in S
       PROVE  \E i \in 1 .. n : InOrder(S)[i] = id
  <2>1. rank[id] \in 1 .. n /\ rank[id] = Cardinality(upto(id))
    BY <1>3
  <2>2. \A x \in S : Cardinality(upto(x)) = Cardinality(upto(id)) => x = id
    BY <1>1, <1>4
  <2>3. InOrder(S)[rank[id]] = CHOOSE x \in S : Cardinality(upto(x)) = rank[id]
    BY <2>1 DEF InOrder
  <2>. QED
    BY <2>1, <2>2, <2>3
<1>. HIDE DEF n
<1>11. InOrder(S) \in Seq(S) /\ DOMAIN InOrder(S) = 1 .. n
  BY <1>2, <1>8, <1>9
<1>. QED
  BY <1>8, <1>10, <1>11 DEF ToSet

\* Concepts in order are a sequence of concepts.
LEMMA IdsInOrder ==
  ASSUME NEW S \in SUBSET Ids
  PROVE  InOrder(S) \in Seq(S) /\ ToSet(InOrder(S)) = S
BY IdsAssumption, FS_Subset, InOrderEnumerates

LEMMA AnyOrder ==
  ASSUME NEW S \in SUBSET Ids, NEW s \in SetToSeqs(S)
  PROVE  s \in Seq(Ids)
<1>1. Cardinality(S) \in Nat
  BY IdsAssumption, FS_Subset, FS_CardinalityType
<1>2. s \in [1 .. Cardinality(S) -> S]
  BY DEF SetToSeqs
<1>3. s \in [1 .. Cardinality(S) -> Ids]
  BY <1>2
<1>. QED
  BY <1>1, <1>3

LEMMA SubsetSeq ==
  ASSUME NEW S, NEW T \in SUBSET S, NEW s \in Seq(T)
  PROVE  s \in Seq(S)
OBVIOUS

----------------------------------------------------------------------------
(* The texts a run prepares, a sequence over what it holds. *)
LEMMA Listed ==
  ASSUME NEW T, NEW s \in Seq(T)
  PROVE  s \in Seq(ToSet(s)) /\ ToSet(s) \subseteq T /\ ToSet(s) = {s[i] : i \in 1 .. Len(s)}
BY DEF ToSet

LEMMA Extended ==
  ASSUME NEW s, s \in Seq(ToSet(s)), NEW w
  PROVE  Append(s, w) \in Seq(ToSet(Append(s, w))) /\ ToSet(Append(s, w)) = ToSet(s) \cup {w}
<1>. DEFINE T == ToSet(s) \cup {w}
<1>1. s \in Seq(T)
  BY SubsetSeq
<1>2. Append(s, w) \in Seq(T) /\ Len(Append(s, w)) = Len(s) + 1
      /\ \A i \in 1 .. Len(s) : Append(s, w)[i] = s[i]
      /\ Append(s, w)[Len(s) + 1] = w /\ Len(s) \in Nat
  BY <1>1
<1>3. Append(s, w) \in Seq(ToSet(Append(s, w)))
      /\ ToSet(Append(s, w)) = {Append(s, w)[i] : i \in 1 .. Len(s) + 1}
  BY <1>2, Listed
<1>4. ToSet(s) = {s[i] : i \in 1 .. Len(s)}
  BY Listed
<1>5. ASSUME NEW e \in ToSet(Append(s, w))
      PROVE  e \in T
  <2>1. PICK i \in 1 .. Len(s) + 1 : e = Append(s, w)[i]
    BY <1>3
  <2>2. i \in 1 .. Len(s) \/ i = Len(s) + 1
    BY <1>2, <2>1
  <2>. QED
    BY <1>2, <1>4, <2>1, <2>2
<1>6. ASSUME NEW e \in T
      PROVE  e \in ToSet(Append(s, w))
  <2>1. CASE e = w
    BY <1>2, <1>3, <2>1
  <2>2. CASE e \in ToSet(s)
    <3>1. PICK i \in 1 .. Len(s) : e = s[i]
      BY <1>4, <2>2
    <3>. QED
      BY <1>2, <1>3, <3>1
  <2>. QED
    BY <2>1, <2>2
<1>. QED
  BY <1>3, <1>5, <1>6

LEMMA Shortened ==
  ASSUME NEW s, s \in Seq(ToSet(s)), s # <<>>
  PROVE  /\ Tail(s) \in Seq(ToSet(Tail(s))) /\ ToSet(Tail(s)) \subseteq ToSet(s)
         /\ Head(s) \in ToSet(s)
<1>1. Tail(s) \in Seq(ToSet(s)) /\ Head(s) \in ToSet(s)
  BY Listed
<1>. QED
  BY <1>1, Listed

----------------------------------------------------------------------------
(* What a run is, step by step. *)
LEMMA IdleRun ==
  /\ IsRun(Idle) /\ Idle.phase = "ended" /\ Idle.outcome = "none" /\ Idle.kind = "none"
  /\ Idle.rows = {} /\ Idle.targets = <<>> /\ Idle.todo = <<>> /\ Idle.prepared = <<>>
  /\ Idle.written = {}
BY DEF Idle, IsRun

LEMMA NothingPrepared == <<>> \in Seq(ToSet(<<>>)) /\ ToSet(<<>>) = {}
BY DEF ToSet

LEMMA Started ==
  /\ {"verify", "ids", "batch", "pick", "stale", "revoke"} \subseteq Kinds
  /\ <<>> \in Seq(Ids) /\ \A id \in Ids : <<id>> \in Seq(Ids)
BY DEF Kinds, Attesting

LEMMA AttestInit == Init => ReadInv /\ ClosedInv
<1>. SUFFICES ASSUME Init
              PROVE  ReadInv /\ ClosedInv
  OBVIOUS
<1>1. /\ disk \in Bundles /\ run = Idle
      /\ seen = {<<disk[id].binding.by, id, disk[id].binding.content>> :
                   id \in {i \in Ids : disk[i].binding # NoBinding}}
  BY DEF Init
<1>2. RunType
  BY <1>1, IdleRun, NothingPrepared DEF RunType
<1>3. DiskType
  BY <1>1, BundlesAssumption DEF DiskType
<1>4. \A id \in Ids : WasRead(id, disk[id])
  BY <1>1 DEF WasRead
<1>5. ToSet(run.prepared) = {} /\ run.kind \notin Attesting
  BY <1>1, IdleRun, NothingPrepared DEF Attesting
<1>. QED
  BY <1>1, <1>2, <1>3, <1>4, <1>5, IdleRun DEF ReadInv, ClosedInv

\* A command begins with nothing prepared or written, its targets and rows being concepts.
Begun(r) ==
  /\ Start(r) /\ IsRun(r) /\ r.kind \in Kinds
  /\ r.phase \in {"ask", "load", "ended"} /\ r.rows \subseteq Ids /\ r.targets \in Seq(Ids)
  /\ r.todo = <<>> /\ r.prepared = <<>> /\ r.written = {} /\ r.outcome = "none"
  /\ r.actor \in Persons /\ (now \in Nat => r.at \in Nat) /\ (r.kind \in {"revoke", "stale"} => ~ r.dry)

LEMMA Begins ==
  ASSUME ReadInv, ClosedInv, NEW r, Begun(r)
  PROVE  ReadInv' /\ ClosedInv'
<1>0. /\ Start(r) /\ IsRun(r) /\ r.kind \in Kinds
      /\ r.phase \in {"ask", "load", "ended"} /\ r.rows \subseteq Ids /\ r.targets \in Seq(Ids)
      /\ r.todo = <<>> /\ r.prepared = <<>> /\ r.written = {} /\ r.outcome = "none"
  BY DEF Begun
<1>1. run' = r /\ disk' = disk /\ seen' = seen
  BY <1>0 DEF Start
<1>2. RunType'
  <2>1. /\ IsRun(run') /\ run'.phase \in {"ask", "load", "ended"} /\ run'.kind \in Kinds
        /\ run'.rows \subseteq Ids /\ run'.targets \in Seq(Ids)
    BY <1>0, <1>1
  <2>2. run'.todo \in Seq(Ids) /\ run'.prepared \in Seq(ToSet(run'.prepared)) /\ ToSet(run'.prepared) = {}
    BY <1>0, <1>1, NothingPrepared, Started
  <2>. QED
    BY <2>1, <2>2 DEF RunType
<1>3. ToSet(run'.prepared) = {} /\ run'.todo = <<>>
  BY <1>0, <1>1, NothingPrepared
<1>. QED
  BY <1>0, <1>1, <1>2, <1>3 DEF ReadInv, ClosedInv, DiskType, WasRead

LEMMA FreshRun ==
  ASSUME NEW kind, NEW a, NEW dry, NEW at, NEW r, r = Fresh(kind, a, dry, at)
  PROVE  /\ IsRun(r) /\ r.kind = kind /\ r.phase = "load" /\ r.outcome = "none"
         /\ r.actor = a /\ r.at = at /\ r.dry = dry
         /\ r.rows = {} /\ r.targets = <<>> /\ r.todo = <<>> /\ r.prepared = <<>> /\ r.written = {}
BY DEF Fresh, Idle, IsRun

LEMMA InvokeBegins ==
  ASSUME ReadInv, Invoke
  PROVE  \E r : Begun(r)
<1>1. PICK a \in Persons, at \in {now} \cup Given :
        \/ \E id \in Ids, status \in {"keep", "stable", "draft"}, ask \in BOOLEAN :
             InvokeVerify(a, id, status, ask, at)
        \/ \E ids \in SetToSeqs(Ids), dry \in BOOLEAN : InvokeIds(a, ids, dry, at)
        \/ \E all, dry \in BOOLEAN : InvokeBatch(a, all, dry, at)
        \/ \E S \in SUBSET Ids \ {{}} : \E ids \in SetToSeqs(S) : InvokeRevoke(a, ids)
        \/ InvokePicker(a, "pick", at)
        \/ InvokePicker(a, "stale", now)
  BY DEF Invoke
<1>0. now \in Nat => at \in Nat
  BY GivenAssumption
<1>2. ASSUME NEW id \in Ids, NEW status, NEW ask, InvokeVerify(a, id, status, ask, at)
      PROVE  \E r : Begun(r)
  <2>0. PICK f : f = Fresh("verify", a, FALSE, at)
    OBVIOUS
  <2>1. PICK r : /\ Start(r)
                 /\ r = [f EXCEPT !.status = status, !.targets = <<id>>, !.rows = {id},
                                  !.phase = IF ask /\ Drifted(disk[id]) THEN "ask" ELSE "load"]
    BY <1>2, <2>0 DEF InvokeVerify
  <2>2. /\ IsRun(f) /\ f.kind = "verify" /\ f.outcome = "none" /\ f.todo = <<>> /\ f.prepared = <<>>
        /\ f.written = {} /\ f.actor = a /\ f.at = at
    <3>1. PICK dry : f = Fresh("verify", a, dry, at)
      BY <2>0, Zenon
    <3>. QED
      BY <3>1, FreshRun
  <2>3. PICK phase \in {"ask", "load"} :
          r = [f EXCEPT !.status = status, !.targets = <<id>>, !.rows = {id}, !.phase = phase]
    BY <2>1
  <2>4. /\ IsRun(r) /\ r.kind = "verify" /\ r.phase = phase /\ r.outcome = "none" /\ r.rows = {id}
        /\ r.actor = a /\ r.at = at
        /\ r.targets = <<id>> /\ r.todo = <<>> /\ r.prepared = <<>> /\ r.written = {}
    BY <2>2, <2>3 DEF IsRun
  <2>5. r.kind \in Kinds /\ r.kind \notin {"revoke", "stale"} /\ r.phase \in {"ask", "load", "ended"}
    BY <2>4, Started
  <2>6. r.rows \subseteq Ids /\ r.targets \in Seq(Ids)
    BY <2>4, Started
  <2>7. Begun(r)
    BY <1>0, <2>1, <2>4, <2>5, <2>6 DEF Begun
  <2>. QED
    BY <2>7
<1>3. ASSUME NEW kind \in {"ids", "revoke"}, NEW dry, NEW ids \in Seq(Ids), NEW t, now \in Nat => t \in Nat,
             kind = "revoke" => dry = FALSE, Start([Fresh(kind, a, dry, t) EXCEPT !.targets = ids])
      PROVE  \E r : Begun(r)
  <2>1. PICK f : f = Fresh(kind, a, dry, t)
    OBVIOUS
  <2>2. PICK r : Start(r) /\ r = [f EXCEPT !.targets = ids]
    BY <1>3, <2>1
  <2>3. /\ IsRun(f) /\ f.kind = kind /\ f.phase = "load" /\ f.outcome = "none" /\ f.rows = {}
        /\ f.actor = a /\ f.at = t /\ f.dry = dry
        /\ f.todo = <<>> /\ f.prepared = <<>> /\ f.written = {}
    BY <2>1, FreshRun
  <2>4. /\ IsRun(r) /\ r.kind = kind /\ r.phase = "load" /\ r.outcome = "none" /\ r.rows = {}
        /\ r.actor = a /\ r.at = t /\ r.dry = dry
        /\ r.targets = ids /\ r.todo = <<>> /\ r.prepared = <<>> /\ r.written = {}
    BY <2>2, <2>3 DEF IsRun
  <2>. QED
    BY <1>3, <2>2, <2>4, Started DEF Begun
<1>4. ASSUME NEW ids \in SetToSeqs(Ids), NEW dry, InvokeIds(a, ids, dry, at)
      PROVE  \E r : Begun(r)
  BY <1>0, <1>3, <1>4, AnyOrder DEF InvokeIds
<1>5. ASSUME NEW S \in SUBSET Ids, NEW ids \in SetToSeqs(S), InvokeRevoke(a, ids)
      PROVE  \E r : Begun(r)
  <2>1. PICK kind, dry, t :
          /\ kind = "revoke" /\ dry = FALSE /\ t = now
          /\ Start([Fresh(kind, a, dry, t) EXCEPT !.targets = ids])
    BY <1>5, Zenon DEF InvokeRevoke
  <2>2. ids \in Seq(Ids)
    BY AnyOrder
  <2>3. kind \in {"ids", "revoke"} /\ (now \in Nat => t \in Nat) /\ (kind = "revoke" => dry = FALSE)
    BY <2>1
  <2>. QED
    BY <1>3, <2>1, <2>2, <2>3
<1>6. ASSUME NEW all, NEW dry, InvokeBatch(a, all, dry, at)
      PROVE  \E r : Begun(r)
  <2>1. PICK f : f = Fresh("batch", a, dry, at)
    OBVIOUS
  <2>2. PICK r : Start(r) /\ r = [f EXCEPT !.all = all]
    BY <1>6, <2>1 DEF InvokeBatch
  <2>3. /\ IsRun(f) /\ f.kind = "batch" /\ f.phase = "load" /\ f.outcome = "none" /\ f.rows = {}
        /\ f.actor = a /\ f.at = at /\ f.dry = dry
        /\ f.targets = <<>> /\ f.todo = <<>> /\ f.prepared = <<>> /\ f.written = {}
    BY <2>1, FreshRun
  <2>4. /\ IsRun(r) /\ r.kind = "batch" /\ r.phase = "load" /\ r.outcome = "none" /\ r.rows = {}
        /\ r.actor = a /\ r.at = at /\ r.dry = dry
        /\ r.targets = <<>> /\ r.todo = <<>> /\ r.prepared = <<>> /\ r.written = {}
    BY <2>2, <2>3 DEF IsRun
  <2>. QED
    BY <1>0, <2>2, <2>4, Started DEF Begun
<1>7. ASSUME NEW kind \in {"pick", "stale"}, NEW t, now \in Nat => t \in Nat, InvokePicker(a, kind, t)
      PROVE  \E r : Begun(r)
  <2>. DEFINE offered == IF kind = "stale" THEN StaleRows(disk, now) ELSE PickerRows(disk, a)
          drafts == {id \in offered : disk[id].status = "draft"}
          phase == IF offered = {} THEN "ended" ELSE "ask"
  <2>0. phase \in {"ended", "ask"}
    OBVIOUS
  <2>1. PICK f : f = Fresh(kind, a, FALSE, t)
    OBVIOUS
  <2>2. PICK r : Start(r) /\ r = [f EXCEPT !.rows = offered, !.drafts = drafts, !.phase = phase]
    <3>1. Start([f EXCEPT !.rows = offered, !.drafts = drafts, !.phase = phase])
      BY <1>7, <2>1 DEF InvokePicker
    <3>. HIDE DEF offered, drafts, phase
    <3>. QED
      BY <3>1
  <2>3. offered \subseteq Ids
    BY DEF StaleRows, PickerRows, ReadInv, DiskType
  <2>4. /\ IsRun(f) /\ f.kind = kind /\ f.outcome = "none" /\ f.targets = <<>>
        /\ f.todo = <<>> /\ f.prepared = <<>> /\ f.written = {}
        /\ f.actor = a /\ f.at = t /\ ~ f.dry
    <3>1. PICK dry : ~ dry /\ f = Fresh(kind, a, dry, t)
      BY <2>1, Zenon
    <3>. QED
      BY <3>1, FreshRun
  <2>. HIDE DEF offered, drafts, phase
  <2>5. /\ IsRun(r) /\ r.kind = kind /\ r.phase = phase /\ r.outcome = "none" /\ r.rows = offered
        /\ r.actor = a /\ r.at = t /\ ~ r.dry
        /\ r.targets = <<>> /\ r.todo = <<>> /\ r.prepared = <<>> /\ r.written = {}
    BY <2>2, <2>4 DEF IsRun
  <2>. QED
    BY <1>7, <2>0, <2>2, <2>3, <2>5, Started DEF Begun
<1>. QED
  BY <1>0, <1>1, <1>2, <1>4, <1>5, <1>6, <1>7

LEMMA InvokeAttests ==
  ASSUME ReadInv, ClosedInv, Invoke
  PROVE  ReadInv' /\ ClosedInv'
BY InvokeBegins, Begins

\* A run that ends keeps what it wrote and holds no plan.
LEMMA Ends ==
  ASSUME ReadInv, ClosedInv, NEW outcome, End(outcome), UNCHANGED <<disk, seen>>,
         outcome = "refused" => run.written = {}
  PROVE  ReadInv' /\ ClosedInv'
<1>1. run' = [run EXCEPT !.phase = "ended", !.outcome = outcome, !.rows = {}, !.drafts = {},
                         !.loaded = <<>>, !.todo = <<>>, !.prepared = <<>>]
  BY DEF End, Step
<1>2. IsRun(run) /\ run.targets \in Seq(Ids)
  BY DEF ReadInv, RunType
<1>3. /\ IsRun(run') /\ run'.phase = "ended" /\ run'.outcome = outcome /\ run'.rows = {}
      /\ run'.targets = run.targets /\ run'.todo = <<>> /\ run'.prepared = <<>>
      /\ run'.written = run.written
  BY <1>1, <1>2 DEF IsRun
<1>4. RunType'
  BY <1>2, <1>3, NothingPrepared DEF RunType
<1>5. ToSet(run'.prepared) = {}
  BY <1>3, NothingPrepared
<1>. QED
  BY <1>3, <1>4, <1>5 DEF ReadInv, ClosedInv, DiskType, WasRead

LEMMA AnswerAttests ==
  ASSUME ReadInv, ClosedInv, Answer
  PROVE  ReadInv' /\ ClosedInv'
<1>0. PICK S \in SUBSET run.rows :
        \E status : run' = [run EXCEPT !.phase = "load", !.targets = InOrder(S), !.status = status]
  BY DEF Answer, Step
<1>1. PICK status : run' = [run EXCEPT !.phase = "load", !.targets = InOrder(S), !.status = status]
  BY <1>0
<1>2. IsRun(run) /\ run.rows \subseteq Ids /\ run.phase = "ask" /\ disk' = disk /\ seen' = seen
  BY DEF ReadInv, RunType, Answer
<1>3. InOrder(S) \in Seq(Ids)
  BY <1>2, IdsInOrder, SubsetSeq
<1>. DEFINE ids == InOrder(S)
<1>. HIDE DEF ids
<1>4. /\ IsRun(run') /\ run'.phase = "load" /\ run'.kind = run.kind /\ run'.actor = run.actor
      /\ run'.rows = run.rows /\ run'.targets = ids /\ run'.todo = run.todo
      /\ run'.loaded = run.loaded
      /\ run'.prepared = run.prepared /\ run'.written = run.written /\ run'.outcome = run.outcome
  <2>1. run' = [run EXCEPT !.phase = "load", !.targets = ids, !.status = status]
    BY <1>1 DEF ids
  <2>. QED
    BY <1>2, <2>1 DEF IsRun
<1>5. ids \in Seq(Ids)
  BY <1>3 DEF ids
<1>6. RunType'
  BY <1>2, <1>4, <1>5 DEF ReadInv, RunType
<1>. QED
  BY <1>2, <1>4, <1>6 DEF ReadInv, ClosedInv, DiskType, WasRead

LEMMA LoadAttests ==
  ASSUME ReadInv, ClosedInv, Load
  PROVE  ReadInv' /\ ClosedInv'
<1>. DEFINE chosen == IF run.kind = "batch"
                      THEN InOrder(Attestable(disk, Required, run.all, run.actor))
                      ELSE run.targets
<1>1. chosen \in Seq(Ids)
  <2>1. Attestable(disk, Required, run.all, run.actor) \subseteq Ids
    BY DEF Attestable, ReadInv, DiskType
  <2>2. InOrder(Attestable(disk, Required, run.all, run.actor)) \in Seq(Ids)
    BY <2>1, IdsInOrder, SubsetSeq
  <2>. QED
    BY <2>2 DEF ReadInv, RunType
<1>2. PICK ids : /\ ids \in Seq(Ids)
                 /\ run' = [run EXCEPT !.phase = "prepare", !.loaded = disk, !.targets = ids, !.todo = ids]
                 /\ seen' = IF run.kind \in Attesting
                            THEN seen \cup {<<run.actor, ids[i], disk[ids[i]].content>> : i \in DOMAIN ids}
                            ELSE seen
  BY <1>1 DEF Load, Step
<1>3. IsRun(run) /\ run.phase = "load" /\ disk' = disk
  BY DEF Load, ReadInv, RunType
<1>4. /\ IsRun(run') /\ run'.phase = "prepare" /\ run'.kind = run.kind /\ run'.actor = run.actor
      /\ run'.rows = run.rows /\ run'.targets = ids /\ run'.todo = ids /\ run'.loaded = disk
      /\ run'.prepared = run.prepared /\ run'.written = run.written /\ run'.outcome = run.outcome
  BY <1>2, <1>3 DEF IsRun
<1>5. RunType'
  BY <1>2, <1>3, <1>4 DEF ReadInv, RunType
<1>6. seen \subseteq seen'
  BY <1>2
<1>7. run.kind \in Attesting => \A i \in 1 .. Len(ids) : <<run.actor, ids[i], disk[ids[i]].content>> \in seen'
  BY <1>2
<1>. QED
  BY <1>3, <1>4, <1>5, <1>6, <1>7 DEF ReadInv, ClosedInv, DiskType, WasRead

\* The text prepared is a concept, bound as on disk, by nothing, or by the actor to what was loaded.
LEMMA Bound ==
  ASSUME RunType, NEW id \in Ids, IsConcept(disk[id]), WasRead(id, disk[id]), run.phase = "prepare",
         run.kind \in Attesting => <<run.actor, id, run.loaded[id].content>> \in seen
  PROVE  IsConcept(Text(id)) /\ WasRead(id, Text(id))
<1>1. CASE run.kind = "revoke"
  <2>. DEFINE text == disk[id]
              binding == Unbound(text, run.actor)
              verified == Without(text.verified, run.actor)
  <2>1. Text(id) = [text EXCEPT !.verified = verified, !.binding = binding]
    BY <1>1 DEF Text, Revoked
  <2>2. binding = NoBinding \/ binding = disk[id].binding
    BY DEF Unbound
  <2>3. IsConcept(text)
    OBVIOUS
  <2>. HIDE DEF text, binding, verified
  <2>4. PICK new : new = Text(id) /\ new = [text EXCEPT !.verified = verified, !.binding = binding]
    BY <2>1
  <2>5. IsConcept(new) /\ new.binding = binding
    BY <2>3, <2>4 DEF IsConcept
  <2>. QED
    BY <2>2, <2>4, <2>5 DEF WasRead
<1>2. CASE run.kind # "revoke"
  <2>. DEFINE text == disk[id]
              loaded == run.loaded[id]
              verified == Entries(text, loaded, run)
              status == NewStatus(text, loaded, run)
              stale == IF Refreshes(loaded, run) THEN NewStale(loaded, run) ELSE text.stale
              binding == Bind(text, loaded, run)
  <2>1. Text(id) = [text EXCEPT !.verified = verified, !.status = status, !.stale = stale,
                                !.binding = binding]
    BY <1>2 DEF Text, Attested
  <2>2. binding.by = run.actor /\ binding.content = run.loaded[id].content
    BY DEF Bind, Digest
  <2>3. <<run.actor, id, run.loaded[id].content>> \in seen
    BY <1>2 DEF RunType, Kinds
  <2>4. IsConcept(text)
    OBVIOUS
  <2>. HIDE DEF text, loaded, verified, status, stale, binding
  <2>5. PICK new : /\ new = Text(id)
                   /\ new = [text EXCEPT !.verified = verified, !.status = status, !.stale = stale,
                                         !.binding = binding]
    BY <2>1
  <2>6. IsConcept(new) /\ new.binding = binding
    BY <2>4, <2>5 DEF IsConcept
  <2>. QED
    BY <2>2, <2>3, <2>5, <2>6 DEF WasRead
<1>. QED
  BY <1>1, <1>2

LEMMA PrepareAttests ==
  ASSUME ReadInv, ClosedInv, Prepare
  PROVE  ReadInv' /\ ClosedInv'
<1>1. /\ run.phase = "prepare" /\ run.todo # <<>> /\ run.todo \in Seq(Ids) /\ IsRun(run)
      /\ disk' = disk /\ seen' = seen /\ run.written = {} /\ run.outcome # "refused"
      /\ run.prepared \in Seq(ToSet(run.prepared))
  BY DEF Prepare, ReadInv, RunType, ClosedInv
<1>. DEFINE id == Head(run.todo)
            todo == Tail(run.todo)
<1>2. /\ id \in Ids /\ todo \in Seq(Ids) /\ id = run.todo[1] /\ 1 \in 1 .. Len(run.todo)
      /\ \A i \in 1 .. Len(todo) : todo[i] = run.todo[i + 1] /\ i + 1 \in 1 .. Len(run.todo)
  BY <1>1
<1>. HIDE DEF id, todo
<1>3. CASE CanPrepare(id)
  <2>. DEFINE w == [id |-> id, text |-> Text(id)]
              prepared == Append(run.prepared, w)
  <2>1. run' = [run EXCEPT !.todo = todo, !.prepared = prepared]
    BY <1>3 DEF Prepare, Step, id, todo
  <2>2. IsConcept(Text(id)) /\ WasRead(id, Text(id))
    <3>1. IsConcept(disk[id]) /\ WasRead(id, disk[id]) /\ RunType
      BY <1>2 DEF ReadInv, DiskType
    <3>2. run.kind \in Attesting => <<run.actor, id, run.loaded[id].content>> \in seen
      BY <1>2 DEF ReadInv
    <3>. QED
      BY <1>1, <1>2, <3>1, <3>2, Bound
  <2>3. w.id = id /\ w.text = Text(id) /\ IsPrepared(w)
    BY <1>2, <2>2 DEF IsPrepared
  <2>. HIDE DEF w
  <2>4. prepared \in Seq(ToSet(prepared)) /\ ToSet(prepared) = ToSet(run.prepared) \cup {w}
    BY <1>1, Extended
  <2>. HIDE DEF prepared
  <2>5. /\ IsRun(run') /\ run'.phase = "prepare" /\ run'.kind = run.kind /\ run'.actor = run.actor
        /\ run'.rows = run.rows /\ run'.targets = run.targets /\ run'.todo = todo
        /\ run'.loaded = run.loaded /\ run'.prepared = prepared /\ run'.written = run.written
        /\ run'.outcome = run.outcome
    BY <1>1, <2>1 DEF IsRun
  <2>6. RunType'
    <3>1. \A v \in ToSet(run'.prepared) : IsPrepared(v)
      BY <2>3, <2>4, <2>5 DEF ReadInv, RunType
    <3>2. run.kind \in Kinds /\ run.rows \subseteq Ids /\ run.targets \in Seq(Ids)
      BY <1>1 DEF ReadInv, RunType
    <3>3. /\ IsRun(run') /\ run'.phase = "prepare" /\ run'.kind \in Kinds /\ run'.rows \subseteq Ids
          /\ run'.targets \in Seq(Ids) /\ run'.todo \in Seq(Ids)
          /\ run'.prepared \in Seq(ToSet(run'.prepared))
      BY <1>2, <2>4, <2>5, <3>2
    <3>. QED
      BY <3>1, <3>3 DEF RunType
  <2>7. \A v \in ToSet(prepared) : WasRead(v.id, v.text)
    BY <2>2, <2>3, <2>4 DEF ReadInv
  <2>8. run.kind \in Attesting =>
          \A i \in 1 .. Len(todo) : <<run.actor, todo[i], run.loaded[todo[i]].content>> \in seen
    BY <1>2 DEF ReadInv
  <2>. QED
    BY <1>1, <2>5, <2>6, <2>7, <2>8 DEF ReadInv, ClosedInv, DiskType, WasRead
<1>4. CASE ~CanPrepare(id)
  BY <1>1, <1>4, Ends DEF Prepare, id
<1>. QED
  BY <1>3, <1>4

LEMMA PreparedAttests ==
  ASSUME ReadInv, ClosedInv, Prepared
  PROVE  ReadInv' /\ ClosedInv'
<1>1. CASE run.dry
  BY <1>1, Ends DEF Prepared
<1>2. CASE ~run.dry
  <2>1. run' = [run EXCEPT !.phase = "write"] /\ disk' = disk /\ seen' = seen
    BY <1>2 DEF Prepared, Step
  <2>2. IsRun(run) /\ run.phase = "prepare"
    BY DEF Prepared, ReadInv, RunType
  <2>3. /\ IsRun(run') /\ run'.phase = "write" /\ run'.kind = run.kind /\ run'.actor = run.actor
        /\ run'.rows = run.rows /\ run'.targets = run.targets /\ run'.todo = run.todo
        /\ run'.loaded = run.loaded /\ run'.prepared = run.prepared /\ run'.outcome = run.outcome
    BY <2>1, <2>2 DEF IsRun
  <2>4. RunType'
    BY <2>2, <2>3 DEF ReadInv, RunType, IsPrepared
  <2>. QED
    BY <2>1, <2>2, <2>3, <2>4 DEF ReadInv, ClosedInv, DiskType, WasRead
<1>. QED
  BY <1>1, <1>2

\* A file that becomes a text bound to what was read, or by nothing.
LEMMA DiskBecomes ==
  ASSUME DiskType, NEW id \in Ids, NEW text, disk' = [disk EXCEPT ![id] = text], IsConcept(text),
         seen' = seen, WasRead(id, text), \A i \in Ids : WasRead(i, disk[i])
  PROVE  DiskType' /\ \A i \in Ids : WasRead(i, disk'[i])
<1>1. disk'[id] = text /\ \A i \in Ids \ {id} : disk'[i] = disk[i]
  BY DEF DiskType
<1>2. disk' = [i \in Ids |-> disk'[i]]
  BY DEF DiskType
<1>3. DiskType'
  BY <1>1, <1>2 DEF DiskType
<1>. QED
  BY <1>1, <1>3

LEMMA WriteAttests ==
  ASSUME ReadInv, ClosedInv, Write
  PROVE  ReadInv' /\ ClosedInv'
<1>. DEFINE w == Head(run.prepared)
            prepared == Tail(run.prepared)
            written == run.written \cup {w.id}
<1>1. /\ run.phase = "write" /\ run.prepared # <<>> /\ IsRun(run)
      /\ run.prepared \in Seq(ToSet(run.prepared)) /\ seen' = seen
      /\ disk' = [disk EXCEPT ![w.id] = w.text]
      /\ run' = [run EXCEPT !.prepared = prepared, !.written = written]
  BY DEF Write, Step, ReadInv, RunType
<1>2. /\ prepared \in Seq(ToSet(prepared)) /\ ToSet(prepared) \subseteq ToSet(run.prepared)
      /\ w \in ToSet(run.prepared)
  BY <1>1, Shortened
<1>. HIDE DEF w, prepared, written
<1>3. w.id \in Ids /\ IsConcept(w.text) /\ WasRead(w.id, w.text)
  BY <1>2 DEF ReadInv, RunType, IsPrepared
<1>4. DiskType' /\ \A i \in Ids : WasRead(i, disk'[i])
  BY <1>1, <1>3, DiskBecomes DEF ReadInv
<1>5. /\ IsRun(run') /\ run'.phase = "write" /\ run'.kind = run.kind /\ run'.actor = run.actor
      /\ run'.rows = run.rows /\ run'.targets = run.targets /\ run'.todo = run.todo
      /\ run'.loaded = run.loaded /\ run'.prepared = prepared /\ run'.outcome = run.outcome
  BY <1>1 DEF IsRun
<1>6. RunType'
  BY <1>1, <1>2, <1>5 DEF ReadInv, RunType, IsPrepared
<1>7. \A v \in ToSet(prepared) : WasRead(v.id, v.text)
  BY <1>2 DEF ReadInv
<1>. QED
  BY <1>1, <1>4, <1>5, <1>6, <1>7 DEF ReadInv, ClosedInv, WasRead

\* A person's edit leaves the binding as it is.
LEMMA TouchAttests ==
  ASSUME ReadInv, ClosedInv, NEW id \in Ids, NEW text, Touch(id, text), IsConcept(text),
         text.binding = disk[id].binding
  PROVE  ReadInv' /\ ClosedInv'
<1>1. disk' = [disk EXCEPT ![id] = text] /\ run' = run /\ seen' = seen
  BY DEF Touch
<1>2. WasRead(id, text)
  BY DEF ReadInv, WasRead
<1>3. DiskType' /\ \A i \in Ids : WasRead(i, disk'[i])
  BY <1>1, <1>2, DiskBecomes DEF ReadInv
<1>4. RunType'
  BY <1>1 DEF ReadInv, RunType, IsPrepared
<1>. QED
  BY <1>1, <1>3, <1>4 DEF ReadInv, ClosedInv, WasRead

LEMMA AttestStep == ReadInv /\ ClosedInv /\ [Next]_vars => ReadInv' /\ ClosedInv'
<1>. SUFFICES ASSUME ReadInv, ClosedInv, [Next]_vars
              PROVE  ReadInv' /\ ClosedInv'
  OBVIOUS
<1>1. CASE UNCHANGED <<disk, run, seen>>
  <2>1. RunType' /\ DiskType'
    BY <1>1 DEF ReadInv, RunType, DiskType, IsPrepared
  <2>. QED
    BY <1>1, <2>1 DEF ReadInv, ClosedInv, WasRead
<1>2. CASE Decline \/ WriteFails \/ Done
  BY <1>2, Ends DEF Decline, WriteFails, Done
<1>3. ASSUME NEW id \in Ids, Edit(id) \/ HandVerify(id)
      PROVE  ReadInv' /\ ClosedInv'
  <2>1. IsConcept(disk[id])
    BY DEF ReadInv, DiskType
  <2>2. CASE Edit(id)
    <3>1. PICK c : Touch(id, [disk[id] EXCEPT !.content = c])
      BY <2>2 DEF Edit
    <3>2. PICK text : Touch(id, text) /\ text = [disk[id] EXCEPT !.content = c]
      BY <3>1
    <3>3. IsConcept(text) /\ text.binding = disk[id].binding
      BY <2>1, <3>2 DEF IsConcept
    <3>. QED
      BY <3>2, <3>3, TouchAttests
  <2>3. CASE HandVerify(id)
    <3>1. PICK entries : Touch(id, [disk[id] EXCEPT !.verified = entries])
      BY <2>3 DEF HandVerify
    <3>2. PICK text : Touch(id, text) /\ text = [disk[id] EXCEPT !.verified = entries]
      BY <3>1
    <3>3. IsConcept(text) /\ text.binding = disk[id].binding
      BY <2>1, <3>2 DEF IsConcept
    <3>. QED
      BY <3>2, <3>3, TouchAttests
  <2>. QED
    BY <1>3, <2>2, <2>3
<1>4. CASE Tick
  BY <1>1, <1>4 DEF Tick
<1>. QED
  BY <1>1, <1>2, <1>3, <1>4, InvokeAttests, AnswerAttests, LoadAttests, PrepareAttests,
     PreparedAttests, WriteAttests DEF Next, vars

\* Whatever is edited while a run is under way, and however many runs overwrite one another,
\* what reads as a current verification was loaded for attestation by the person it names.
THEOREM CurrentIsRead == Spec => []CurrentWasRead
<1>1. ReadInv => CurrentWasRead
  BY DEF ReadInv, WasRead, CurrentWasRead, Evaluate
<1>. QED
  BY <1>1, AttestInit, AttestStep, PTL DEF Spec

\* A run refused for one of its concepts has written none of them.
THEOREM RefusedWritesNothing == Spec => []FailClosed
<1>1. ClosedInv => FailClosed
  BY DEF ClosedInv, FailClosed
<1>. QED
  BY <1>1, AttestInit, AttestStep, PTL DEF Spec

----------------------------------------------------------------------------
(* What one file becomes: its list of verifications. *)
LEMMA Members ==
  ASSUME NEW s, IsList(s)
  PROVE  /\ Len(s) \in Nat /\ DOMAIN s = 1 .. Len(s)
         /\ \A i \in 1 .. Len(s) : s[i] \in ToSet(s) /\ IsEntry(s[i])
         /\ \A e \in ToSet(s) : IsEntry(e) /\ \E i \in 1 .. Len(s) : s[i] = e
BY DEF IsList, ToSet

LEMMA MadeOf ==
  ASSUME NEW n \in Nat, NEW s, s = [i \in 1 .. n |-> s[i]]
  PROVE  /\ s \in Seq(ToSet(s)) /\ DOMAIN s = 1 .. n /\ Len(s) = n
         /\ \A e \in ToSet(s) : \E i \in 1 .. n : s[i] = e
BY DEF ToSet

\* Without the actor's entries: each entry left was there, and is another's.
LEMMA Removed ==
  ASSUME NEW s, IsList(s), NEW a
  PROVE  /\ IsList(Without(s, a))
         /\ \A e \in ToSet(Without(s, a)) : e \in ToSet(s) /\ e.by # a
         /\ \A i \in DOMAIN Without(s, a) : Without(s, a)[i].by # a
<1>. DEFINE S == {i \in DOMAIN s : s[i].by # a}
            kept == InOrder(S)
            left == Without(s, a)
            n == Len(kept)
<1>1. DOMAIN s = 1 .. Len(s) /\ Len(s) \in Nat
  BY Members
<1>2. S \subseteq Nat /\ IsFiniteSet(S)
  <2>1. IsFiniteSet(1 .. Len(s))
    BY <1>1, FS_Interval
  <2>2. S \subseteq 1 .. Len(s) /\ 1 .. Len(s) \subseteq Nat
    BY <1>1
  <2>. QED
    BY <2>1, <2>2, FS_Subset
<1>3. kept \in Seq(S)
  BY <1>2, InOrderEnumerates
<1>4. left = [k \in DOMAIN kept |-> s[kept[k]]]
  BY DEF Without
<1>. HIDE DEF kept, left
<1>5. n \in Nat /\ DOMAIN kept = 1 .. n /\ \A k \in 1 .. n : kept[k] \in S
  BY <1>3
<1>. HIDE DEF n
<1>6. left = [k \in 1 .. n |-> left[k]] /\ \A k \in 1 .. n : left[k] = s[kept[k]]
  BY <1>4, <1>5
<1>7. \A k \in 1 .. n : left[k] \in ToSet(s) /\ left[k].by # a /\ IsEntry(left[k])
  BY <1>1, <1>5, <1>6, Members
<1>8. left \in Seq(ToSet(left)) /\ DOMAIN left = 1 .. n /\ \A e \in ToSet(left) : \E k \in 1 .. n : left[k] = e
  BY <1>5, <1>6, MadeOf
<1>. QED
  BY <1>7, <1>8 DEF IsList, left

\* Of some places in a list, one is the last.
LEMMA LastPlace ==
  ASSUME NEW n \in Nat, NEW S \in SUBSET (1 .. n), S # {}
  PROVE  \E i \in S : \A j \in S : j <= i
<1>. DEFINE T == {n - i : i \in S}
<1>1. \A i \in S : n - i \in Nat
  OBVIOUS
<1>2. \A i \in S : n - i \in T
  OBVIOUS
<1>3. \A x \in T : \E i \in S : x = n - i
  OBVIOUS
<1>. HIDE DEF T
<1>0. T \subseteq Nat /\ T # {}
  BY <1>1, <1>2, <1>3
<1>4. \E x \in T : \A y \in T : ~ (<<y, x>> \in OpToRel(<, Nat))
  BY <1>0, NatLessThanWellFounded, WFMin
<1>5. \A x, y \in Nat : x < y => <<x, y>> \in OpToRel(<, Nat)
  BY DEF OpToRel
<1>6. PICK x \in T : \A y \in T : ~ (y < x)
  BY <1>0, <1>4, <1>5
<1>7. PICK i \in S : x = n - i
  BY <1>3
<1>8. \A j \in S : ~ (n - j < n - i)
  BY <1>2, <1>6, <1>7
<1>. QED
  BY <1>8

\* After a run of the actor its entry is among the list's, no later one is the actor's, and
\* every other entry was there before.
LEMMA Entered ==
  ASSUME NEW text, NEW concept, NEW r, IsList(text.verified), r.at \in Nat, NEW s, s = Entries(text, concept, r)
  PROVE  /\ IsList(s)
         /\ \A e \in ToSet(s) : e \in ToSet(text.verified) \/ e.at = r.at
         /\ \E i \in DOMAIN s : /\ s[i] = [by |-> r.actor, at |-> r.at]
                                /\ \A j \in DOMAIN s : j > i => s[j].by # r.actor
                                /\ r.kind # "stale" => \A j \in DOMAIN s : j <= i
<1>. DEFINE old == text.verified
            entry == [by |-> r.actor, at |-> r.at]
            n == Len(old)
            own == Own(text, r.actor)
            last == CHOOSE i \in own : \A j \in own : j <= i
<1>1. n \in Nat /\ DOMAIN old = 1 .. n /\ old \in Seq(ToSet(old))
      /\ \A i \in 1 .. n : old[i] \in ToSet(old) /\ IsEntry(old[i])
  BY Members DEF IsList
<1>2. IsEntry(entry) /\ entry.at = r.at /\ entry.by = r.actor
  BY DEF IsEntry
<1>3. own \subseteq 1 .. n /\ \A i \in 1 .. n : i \in own <=> old[i].by = r.actor
  BY <1>1 DEF Own
<1>. HIDE DEF old, entry, n, own
<1>4. CASE s = Append(old, entry)
  <2>1. s \in Seq(ToSet(s))
    BY <1>1, <1>4, Extended
  <2>0. Len(s) = n + 1 /\ s[n + 1] = entry /\ \A i \in 1 .. n : s[i] = old[i]
    BY <1>1, <1>4, AppendProperties DEF n
  <2>2. DOMAIN s = 1 .. n + 1 /\ \A e \in ToSet(s) : \E i \in 1 .. n + 1 : s[i] = e
    BY <2>0, <2>1, Listed
  <2>3. \A i \in 1 .. n + 1 : IsEntry(s[i]) /\ (s[i] \in ToSet(old) \/ s[i].at = r.at)
    <3>1. \A i \in 1 .. n + 1 : i \in 1 .. n \/ i = n + 1
      BY <1>1
    <3>. QED
      BY <1>1, <1>2, <2>0, <3>1
  <2>4. IsList(s) /\ \A e \in ToSet(s) : e \in ToSet(old) \/ e.at = r.at
    BY <2>1, <2>2, <2>3 DEF IsList
  <2>5. n + 1 \in DOMAIN s /\ \A j \in DOMAIN s : j <= n + 1 /\ ~(j > n + 1)
    BY <1>1, <2>2
  <2>. QED
    BY <2>0, <2>4, <2>5 DEF old, entry
<1>5. CASE r.kind = "stale" /\ own # {} /\ s = [old EXCEPT ![last].at = r.at]
  <2>1. last \in own /\ \A j \in own : j <= last
    <3>1. \E i \in own : \A j \in own : j <= i
      BY <1>1, <1>3, <1>5, LastPlace
    <3>. QED
      BY <3>1
  <2>. HIDE DEF last
  <2>2. last \in 1 .. n /\ old[last] = [by |-> r.actor, at |-> old[last].at]
    BY <1>1, <1>3, <2>1 DEF IsEntry
  <2>0. [old[last] EXCEPT !.at = r.at] = entry
    <3>1. PICK e : e = old[last] /\ e = [by |-> r.actor, at |-> e.at]
      BY <2>2
    <3>2. [e EXCEPT !.at = r.at] = [by |-> r.actor, at |-> r.at]
      BY <3>1
    <3>. QED
      BY <3>1, <3>2 DEF entry
  <2>3. s = [old EXCEPT ![last] = entry]
    BY <1>5, <2>0
  <2>4. /\ s \in Seq(ToSet(old) \cup {entry}) /\ Len(s) = n /\ s[last] = entry
        /\ \A i \in 1 .. n : i # last => s[i] = old[i]
    <3>1. old \in Seq(ToSet(old) \cup {entry}) /\ entry \in ToSet(old) \cup {entry}
      BY <1>1, SubsetSeq
    <3>. QED
      BY <1>1, <2>2, <2>3, <3>1 DEF n
  <2>8. s \in Seq(ToSet(s)) /\ DOMAIN s = 1 .. n /\ \A e \in ToSet(s) : \E i \in 1 .. n : s[i] = e
    BY <2>4, Listed
  <2>5. \A i \in 1 .. n : IsEntry(s[i]) /\ (s[i] \in ToSet(old) \/ s[i].at = r.at)
    BY <1>1, <1>2, <2>4
  <2>6. IsList(s) /\ \A e \in ToSet(s) : e \in ToSet(old) \/ e.at = r.at
    BY <2>8, <2>5 DEF IsList
  <2>7. \A j \in 1 .. n : j > last => s[j].by # r.actor
    BY <1>3, <2>1, <2>2, <2>4
  <2>. QED
    BY <1>5, <2>2, <2>4, <2>6, <2>7, <2>8 DEF old, entry
<1>. QED
  BY <1>4, <1>5 DEF Entries, old, entry, own, last

\* A binding to the latest entry, by a person, of content that can be hashed, is current.
LEMMA Binds ==
  ASSUME NEW c, NEW a \in Persons, NEW t \in Nat, NEW i \in DOMAIN c.verified,
         c.verified[i] = [by |-> a, at |-> t], IsList(c.verified), Dated(c.verified, t),
         \A j \in DOMAIN c.verified : j > i => c.verified[j].at < t,
         c.binding = [by |-> a, at |-> t, content |-> c.content], c.content \notin Unhashable
  PROVE  AttestedBy(c, a)
<1>. DEFINE es == c.verified
            latest(k) == \A j \in HumanEntries(c) : es[j].at < es[k].at \/ (es[j].at = es[k].at /\ j <= k)
<1>1. a \in Humans /\ Allowed(a) /\ a # NoBinding.by
  BY PeopleAssumption DEF Persons
<1>2. DOMAIN es = 1 .. Len(es) /\ Len(es) \in Nat
      /\ \A j \in 1 .. Len(es) : es[j] \in ToSet(es) /\ es[j].at \in Nat /\ es[j].at <= t
  BY Members DEF Dated, IsEntry
<1>3. es[i].by = a /\ es[i].at = t /\ i \in HumanEntries(c) /\ HumanEntries(c) \subseteq 1 .. Len(es)
  BY <1>1, <1>2 DEF HumanEntries
<1>4. \A k \in HumanEntries(c) : latest(k) <=> k = i
  <2>1. latest(i)
    BY <1>2, <1>3
  <2>2. ASSUME NEW k \in HumanEntries(c), latest(k)
        PROVE  k = i
    <3>1. es[i].at < es[k].at \/ (es[i].at = es[k].at /\ i <= k)
      BY <1>3, <2>2
    <3>2. es[k].at <= t /\ es[k].at \in Nat /\ k \in 1 .. Len(es) /\ (k > i => es[k].at < t)
      BY <1>2, <1>3
    <3>. QED
      BY <1>2, <1>3, <3>1, <3>2
  <2>. QED
    BY <2>1, <2>2
<1>5. LatestHuman(c) = es[i]
  <2>1. (CHOOSE k \in HumanEntries(c) : latest(k)) = i
    <3>. HIDE DEF latest
    <3>. QED
      BY <1>3, <1>4
  <2>. QED
    BY <2>1 DEF LatestHuman
<1>6. c.binding.by = a /\ c.binding.at = t /\ c.binding.content = c.content /\ c.binding # NoBinding
  BY <1>1
<1>7. BoundEntry(c)
  BY <1>3, <1>5, <1>6 DEF BoundEntry
<1>. QED
  BY <1>1, <1>3, <1>6, <1>7 DEF AttestedBy, Evaluate

\* The parts of a text that a revocation and an attestation leave.
LEMMA RevokedParts ==
  ASSUME NEW text, IsConcept(text), NEW a
  PROVE  Revoked(text, a).verified = Without(text.verified, a) /\ Revoked(text, a).binding = Unbound(text, a)
<1>. DEFINE verified == Without(text.verified, a)
            binding == Unbound(text, a)
<1>1. Revoked(text, a) = [text EXCEPT !.verified = verified, !.binding = binding]
  BY DEF Revoked
<1>. HIDE DEF verified, binding
<1>2. [text EXCEPT !.verified = verified, !.binding = binding].verified = verified
      /\ [text EXCEPT !.verified = verified, !.binding = binding].binding = binding
  BY DEF IsConcept
<1>. QED
  BY <1>1, <1>2 DEF verified, binding

LEMMA AttestedParts ==
  ASSUME NEW text, IsConcept(text), NEW concept, NEW r
  PROVE  /\ Attested(text, concept, r).verified = Entries(text, concept, r)
         /\ Attested(text, concept, r).binding = Bind(text, concept, r)
         /\ Attested(text, concept, r).content = text.content
         /\ Attested(text, concept, r).stale =
              IF Refreshes(concept, r) THEN NewStale(concept, r) ELSE text.stale
<1>. DEFINE verified == Entries(text, concept, r)
            binding == Bind(text, concept, r)
            status == NewStatus(text, concept, r)
            stale == IF Refreshes(concept, r) THEN NewStale(concept, r) ELSE text.stale
<1>1. Attested(text, concept, r) =
        [text EXCEPT !.verified = verified, !.status = status, !.stale = stale, !.binding = binding]
  BY DEF Attested
<1>. HIDE DEF verified, binding, status, stale
<1>2. PICK new :
        /\ new = Attested(text, concept, r)
        /\ new = [text EXCEPT !.verified = verified, !.status = status, !.stale = stale, !.binding = binding]
  BY <1>1
<1>3. new.verified = verified /\ new.binding = binding /\ new.content = text.content /\ new.stale = stale
  BY <1>2 DEF IsConcept
<1>. QED
  BY <1>2, <1>3 DEF verified, binding, stale

\* A text prepared has a list of entries, as the file had.
LEMMA TextIsListed ==
  ASSUME OptionsInv, NEW id \in Ids, IsConcept(disk[id]), IsList(disk[id].verified)
  PROVE  IsList(Text(id).verified)
<1>1. run.at \in Nat
  BY DEF OptionsInv
<1>3. CASE run.kind = "revoke"
  <2>1. Text(id).verified = Without(disk[id].verified, run.actor)
    BY <1>3, RevokedParts DEF Text
  <2>. QED
    BY <2>1, Removed
<1>4. CASE run.kind # "revoke"
  <2>1. Text(id).verified = Entries(disk[id], run.loaded[id], run)
    BY <1>4, AttestedParts DEF Text
  <2>. QED
    BY <1>1, <2>1, Entered
<1>. QED
  BY <1>3, <1>4

\* Of a file that is as it was loaded, a command prepares what it promises.
LEMMA TextIsPromised ==
  ASSUME OptionsInv, NEW id \in Ids, IsConcept(disk[id]), IsList(disk[id].verified), run.kind \in Kinds,
         disk[id] = run.loaded[id], CanPrepare(id)
  PROVE  Promised(Text(id), run)
<1>. DEFINE text == disk[id]
            new == Text(id)
<1>1. run.at \in Nat /\ run.actor \in Persons /\ run.actor # NoBinding.by /\ IsList(text.verified)
  BY PeopleAssumption DEF OptionsInv, Persons
<1>2. CASE run.kind = "revoke"
  <2>1. new.verified = Without(text.verified, run.actor) /\ new.binding = Unbound(text, run.actor)
    BY <1>2, RevokedParts DEF Text
  <2>2. Own(new, run.actor) = {}
    BY <1>1, <2>1, Removed DEF Own
  <2>3. new.binding.by # run.actor
    BY <1>1, <2>1 DEF Unbound
  <2>. HIDE DEF new
  <2>4. Promised(new, run)
    BY <1>2, <2>2, <2>3 DEF Promised
  <2>. QED
    BY <2>4 DEF new
<1>3. CASE run.kind # "revoke"
  <2>1. /\ new.verified = Entries(text, text, run) /\ new.binding = Bind(text, text, run)
        /\ new.content = text.content
        /\ new.stale = IF Refreshes(text, run) THEN NewStale(text, run) ELSE text.stale
    BY <1>3, AttestedParts DEF Text
  <2>2. new.content \notin Unhashable
    BY <1>3, <2>1 DEF CanPrepare, CanAttest
  <2>3. new.binding = [by |-> run.actor, at |-> run.at, content |-> new.content]
    BY <2>1 DEF Bind, Digest
  <2>4. /\ IsList(new.verified)
        /\ \A e \in ToSet(new.verified) : e \in ToSet(text.verified) \/ e.at = run.at
        /\ \E i \in DOMAIN new.verified :
             /\ new.verified[i] = [by |-> run.actor, at |-> run.at]
             /\ \A j \in DOMAIN new.verified : j > i => new.verified[j].by # run.actor
             /\ run.kind # "stale" => \A j \in DOMAIN new.verified : j <= i
    BY <1>1, <2>1, Entered
  <2>. HIDE DEF new
  <2>5. PICK i \in DOMAIN new.verified :
          /\ new.verified[i] = [by |-> run.actor, at |-> run.at]
          /\ \A j \in DOMAIN new.verified : j > i => new.verified[j].by # run.actor
          /\ run.kind # "stale" => \A j \in DOMAIN new.verified : j <= i
    BY <2>4
  <2>7. DOMAIN new.verified \subseteq Nat /\ \A j \in DOMAIN new.verified : new.verified[j] \in ToSet(new.verified)
    BY <2>4, Members
  <2>8. ASSUME Dated(new.verified, run.at), run.kind = "batch"
        PROVE  AttestedBy(new, run.actor)
    <3>1. \A j \in DOMAIN new.verified : j > i => new.verified[j].at < run.at
      BY <2>5, <2>7, <2>8
    <3>. QED
      BY <1>1, <2>2, <2>3, <2>4, <2>5, <2>8, <3>1, Binds
  <2>9. ASSUME Dated(new.verified, run.at), \A e \in ToSet(new.verified) : e.by # run.actor => e.at < run.at
        PROVE  AttestedBy(new, run.actor)
    <3>1. \A j \in DOMAIN new.verified : j > i => new.verified[j].at < run.at
      BY <2>5, <2>7, <2>9
    <3>. QED
      BY <1>1, <2>2, <2>3, <2>4, <2>5, <2>9, <3>1, Binds
  <2>10. ASSUME Period # 0, run.kind = "stale"
         PROVE  ~ IsStale(new, run.at)
    <3>1. CASE Refreshes(text, run)
      BY <1>1, <2>1, <2>10, <3>1, PeriodAssumption DEF NewStale, IsStale
    <3>2. CASE ~ Refreshes(text, run)
      BY <2>1, <2>10, <3>2 DEF Refreshes, IsStale
    <3>. QED
      BY <3>1, <3>2
  <2>11. Promised(new, run)
    BY <1>3, <2>8, <2>9, <2>10 DEF Promised
  <2>. QED
    BY <2>11 DEF new
<1>. QED
  BY <1>2, <1>3

----------------------------------------------------------------------------
(* Why an undisturbed command reaches its end. *)
LEMMA SamePromise ==
  ASSUME NEW c, NEW r, NEW q, q.kind = r.kind, q.actor = r.actor, q.at = r.at
  PROVE  Promised(c, q) <=> Promised(c, r)
BY DEF Promised

LEMMA SettleInit == Init => SettleInv
<1>. SUFFICES ASSUME Init
              PROVE  SettleInv
  OBVIOUS
<1>1. disk \in Bundles /\ now = 1 /\ run = Idle /\ ~ meddled
  BY DEF Init
<1>2. /\ run.kind = "none" /\ run.kind \notin Kinds /\ run.outcome = "none" /\ run.phase = "ended"
      /\ run.at = 0 /\ ToSet(run.prepared) = {} /\ run.written = {}
  BY <1>1, NothingPrepared DEF Idle, Kinds, Attesting
<1>3. OptionsInv
  BY <1>1, <1>2 DEF OptionsInv
<1>4. \A id \in Ids : IsList(disk[id].verified)
  BY <1>1, BundlesAssumption
<1>5. CourseInv
  BY <1>2 DEF CourseInv, Loaded
<1>. QED
  BY <1>2, <1>3, <1>4, <1>5 DEF SettleInv, ListsInv

LEMMA InvokeSettles ==
  ASSUME ReadInv, ClosedInv, SettleInv, Invoke
  PROVE  SettleInv'
<1>1. PICK r : Begun(r)
  BY InvokeBegins
<1>2. /\ run' = r /\ disk' = disk /\ now' = now /\ ~ meddled' /\ r.kind \in Kinds
      /\ ToSet(r.prepared) = {} /\ r.written = {} /\ r.outcome = "none" /\ r.phase \in {"ask", "load", "ended"}
      /\ r.actor \in Persons /\ r.at \in Nat /\ now \in Nat /\ (r.kind \in {"revoke", "stale"} => ~ r.dry)
  BY <1>1, NothingPrepared DEF Begun, Start, SettleInv, OptionsInv
<1>3. OptionsInv'
  BY <1>2 DEF SettleInv, OptionsInv
<1>6. ListsInv'
  BY <1>2 DEF SettleInv, ListsInv
<1>7. CourseInv'
  BY <1>2 DEF CourseInv, Loaded
<1>. QED
  BY <1>3, <1>6, <1>7 DEF SettleInv

\* A step of the run over files that stay as they are keeps its options and the lists.
LEMMA SameFiles ==
  ASSUME SettleInv, UNCHANGED <<disk, now, meddled>>,
         run'.kind = run.kind, run'.actor = run.actor, run'.at = run.at, run'.dry = run.dry
  PROVE  OptionsInv' /\ \A id \in Ids : IsList(disk[id].verified)'
BY DEF SettleInv, OptionsInv, ListsInv

LEMMA EndSettles ==
  ASSUME ReadInv, SettleInv, NEW outcome, End(outcome), UNCHANGED disk,
         outcome = "ok" => run.phase \in {"prepare", "write"},
         outcome = "ok" /\ ~ meddled /\ ~ run.dry => ToSet(run.targets) \subseteq run.written
  PROVE  SettleInv'
<1>1. run' = [run EXCEPT !.phase = "ended", !.outcome = outcome, !.rows = {}, !.drafts = {},
                         !.loaded = <<>>, !.todo = <<>>, !.prepared = <<>>]
      /\ UNCHANGED <<disk, now, meddled>>
  BY DEF End, Step
<1>2. IsRun(run) /\ (run.phase # "ended" => run.kind \in Kinds)
  BY DEF ReadInv, RunType
<1>3. /\ run'.phase = "ended" /\ run'.outcome = outcome /\ run'.kind = run.kind /\ run'.actor = run.actor
      /\ run'.at = run.at /\ run'.dry = run.dry /\ run'.all = run.all
      /\ run'.targets = run.targets /\ run'.prepared = <<>> /\ run'.written = run.written
  BY <1>1, <1>2 DEF IsRun
<1>4. ToSet(run'.prepared) = {}
  BY <1>3, NothingPrepared
<1>5. OptionsInv' /\ ListsInv'
  BY <1>1, <1>3, <1>4, SameFiles DEF ListsInv
<1>6. CourseInv'
  <2>1. \A c : Promised(c, run) => Promised(c, run')
    BY <1>3, SamePromise
  <2>2. \A id \in run.written : ~ meddled => id \in Ids /\ Promised(disk[id], run')
    BY <2>1 DEF SettleInv, CourseInv
  <2>3. outcome = "ok" => Loaded /\ run.kind \in Kinds
    BY <1>2 DEF Loaded
  <2>4. ~ Loaded'
    BY <1>3 DEF Loaded
  <2>5. (outcome = "ok" /\ ~ meddled /\ run.kind = "batch" /\ run.all) =>
          Attestable(disk, Required, TRUE, run.actor) \subseteq ToSet(run.targets) \cup run.written
    BY <2>3 DEF SettleInv, CourseInv
  <2>. QED
    BY <1>1, <1>3, <1>4, <2>2, <2>3, <2>4, <2>5 DEF CourseInv
<1>. QED
  BY <1>5, <1>6 DEF SettleInv

LEMMA AnswerSettles ==
  ASSUME ReadInv, ClosedInv, SettleInv, Answer
  PROVE  SettleInv'
<1>1. PICK ids, status : run' = [run EXCEPT !.phase = "load", !.targets = ids, !.status = status]
  BY DEF Answer, Step
<1>2. IsRun(run) /\ run.phase = "ask" /\ run.kind \in Kinds /\ UNCHANGED <<disk, now, meddled>>
  BY DEF ReadInv, RunType, Answer, Step
<1>3. /\ run'.phase = "load" /\ run'.outcome = run.outcome /\ run'.kind = run.kind /\ run'.actor = run.actor
      /\ run'.at = run.at /\ run'.dry = run.dry /\ run'.all = run.all
      /\ run'.prepared = run.prepared /\ run'.written = run.written
  BY <1>1, <1>2 DEF IsRun
<1>4. OptionsInv' /\ ListsInv'
  BY <1>2, <1>3, SameFiles DEF SettleInv, ListsInv
<1>5. \A c : Promised(c, run) => Promised(c, run')
  BY <1>3, SamePromise
<1>6. run.outcome # "ok" /\ ~ Loaded'
  BY <1>2, <1>3 DEF SettleInv, CourseInv, Loaded
<1>7. CourseInv'
  BY <1>2, <1>3, <1>5, <1>6 DEF SettleInv, CourseInv
<1>. QED
  BY <1>4, <1>7 DEF SettleInv

LEMMA LoadSettles ==
  ASSUME ReadInv, ClosedInv, SettleInv, Load
  PROVE  SettleInv'
<1>. DEFINE taken == Attestable(disk, Required, run.all, run.actor)
            chosen == IF run.kind = "batch" THEN InOrder(taken) ELSE run.targets
<1>1. run.kind = "batch" => ToSet(chosen) = taken
  <2>1. taken \subseteq Ids
    BY DEF Attestable, ReadInv, DiskType
  <2>. QED
    BY <2>1, IdsInOrder
<1>2. PICK ids : /\ run.kind = "batch" => ToSet(ids) = taken
                 /\ run' = [run EXCEPT !.phase = "prepare", !.loaded = disk, !.targets = ids, !.todo = ids]
  BY <1>1 DEF Load, Step
<1>3. /\ IsRun(run) /\ run.phase = "load" /\ run.kind \in Kinds /\ run.written = {}
      /\ UNCHANGED <<disk, now, meddled>>
  BY DEF ReadInv, ClosedInv, RunType, Load, Step
<1>4. /\ run'.phase = "prepare" /\ run'.outcome = run.outcome /\ run'.kind = run.kind /\ run'.actor = run.actor
      /\ run'.at = run.at /\ run'.dry = run.dry /\ run'.all = run.all /\ run'.loaded = disk
      /\ run'.targets = ids /\ run'.todo = ids /\ run'.prepared = run.prepared /\ run'.written = run.written
  BY <1>2, <1>3 DEF IsRun
<1>5. OptionsInv' /\ ListsInv'
  BY <1>3, <1>4, SameFiles DEF SettleInv, ListsInv
<1>6. \A c : Promised(c, run) => Promised(c, run')
  BY <1>4, SamePromise
<1>7. run.outcome # "ok"
  BY <1>3 DEF SettleInv, CourseInv
<1>8. (run.kind = "batch" /\ run.all) => Attestable(disk, Required, TRUE, run.actor) \subseteq ToSet(ids)
  <2>. SUFFICES ASSUME run.kind = "batch", run.all
                PROVE  Attestable(disk, Required, TRUE, run.actor) \subseteq ToSet(ids)
    OBVIOUS
  <2>1. Attestable(disk, Required, TRUE, run.actor) \subseteq taken
    BY DEF Attestable
  <2>. QED
    BY <1>2, <2>1
<1>9. CourseInv'
  BY <1>3, <1>4, <1>6, <1>7, <1>8 DEF SettleInv, CourseInv
<1>. QED
  BY <1>5, <1>9 DEF SettleInv

LEMMA PrepareSettles ==
  ASSUME ReadInv, ClosedInv, SettleInv, Prepare
  PROVE  SettleInv'
<1>. DEFINE id == Head(run.todo)
            todo == Tail(run.todo)
<1>1. /\ run.phase = "prepare" /\ run.todo # <<>> /\ run.todo \in Seq(Ids) /\ IsRun(run) /\ run.kind \in Kinds
      /\ run.written = {} /\ run.prepared \in Seq(ToSet(run.prepared)) /\ disk' = disk /\ run.outcome # "ok"
  BY DEF Prepare, ReadInv, RunType, ClosedInv, SettleInv, CourseInv
<1>2. id \in Ids /\ ToSet(run.todo) \subseteq {id} \cup ToSet(todo)
  <2>1. id \in Ids /\ todo \in Seq(Ids) /\ id = run.todo[1] /\ Len(todo) = Len(run.todo) - 1
        /\ \A i \in 1 .. Len(todo) : todo[i] = run.todo[i + 1]
    BY <1>1
  <2>2. ToSet(run.todo) = {run.todo[i] : i \in 1 .. Len(run.todo)} /\ ToSet(todo) = {todo[i] : i \in 1 .. Len(todo)}
    BY <1>1, <2>1, Listed
  <2>3. \A i \in 1 .. Len(run.todo) : i = 1 \/ (i - 1 \in 1 .. Len(todo) /\ run.todo[i] = todo[i - 1])
    BY <1>1, <2>1
  <2>. QED
    BY <2>1, <2>2, <2>3
<1>3. CASE CanPrepare(id)
  <2>. DEFINE w == [id |-> id, text |-> Text(id)]
              prepared == Append(run.prepared, w)
  <2>1. run' = [run EXCEPT !.todo = todo, !.prepared = prepared] /\ UNCHANGED <<disk, now, meddled>>
    BY <1>1, <1>3 DEF Prepare, Step
  <2>2. IsConcept(disk[id]) /\ IsList(disk[id].verified) /\ OptionsInv
    BY <1>2 DEF ReadInv, DiskType, SettleInv, ListsInv
  <2>3. IsList(Text(id).verified)
    BY <1>2, <2>2, TextIsListed
  <2>4. ~ meddled => Promised(Text(id), run)
    <3>1. ~ meddled => disk[id] = run.loaded[id]
      BY <1>1, <1>2 DEF SettleInv, CourseInv, Loaded
    <3>. QED
      BY <1>1, <1>2, <1>3, <2>2, <3>1, TextIsPromised
  <2>5. w.id = id /\ w.text = Text(id)
    OBVIOUS
  <2>. HIDE DEF w, id, todo
  <2>6. ToSet(prepared) = ToSet(run.prepared) \cup {w}
    BY <1>1, Extended
  <2>. HIDE DEF prepared
  <2>7. /\ run'.phase = "prepare" /\ run'.outcome = run.outcome /\ run'.kind = run.kind /\ run'.actor = run.actor
        /\ run'.at = run.at /\ run'.dry = run.dry /\ run'.all = run.all /\ run'.loaded = run.loaded
        /\ run'.targets = run.targets /\ run'.todo = todo /\ run'.prepared = prepared
        /\ run'.written = run.written
    BY <1>1, <2>1 DEF IsRun
  <2>8. OptionsInv' /\ \A i \in Ids : IsList(disk[i].verified)'
    BY <2>1, <2>7, SameFiles
  <2>9. \A v \in ToSet(prepared) : IsList(v.text.verified)
    BY <2>3, <2>5, <2>6 DEF SettleInv, ListsInv
  <2>10. ListsInv'
    BY <2>7, <2>8, <2>9 DEF ListsInv
  <2>11. \A c : Promised(c, run) => Promised(c, run')
    BY <2>7, SamePromise
  <2>12. ~ meddled => \A v \in ToSet(prepared) : Promised(v.text, run')
    BY <2>4, <2>5, <2>6, <2>11 DEF SettleInv, CourseInv
  <2>13. Unwritten' = Unwritten \cup {id}
    BY <2>5, <2>6, <2>7 DEF Unwritten
  <2>14. ~ meddled => ToSet(run.targets) \subseteq ToSet(todo) \cup Unwritten' \cup run.written
    BY <1>1, <1>2, <2>13 DEF SettleInv, CourseInv, Loaded
  <2>15. CourseInv'
    BY <1>1, <2>1, <2>7, <2>12, <2>14 DEF SettleInv, CourseInv, Loaded
  <2>. QED
    BY <2>8, <2>10, <2>15 DEF SettleInv
<1>4. CASE ~ CanPrepare(id)
  BY <1>1, <1>4, EndSettles DEF Prepare
<1>. QED
  BY <1>3, <1>4

LEMMA PreparedSettles ==
  ASSUME ReadInv, ClosedInv, SettleInv, Prepared
  PROVE  SettleInv'
<1>1. CASE run.dry
  BY <1>1, EndSettles DEF Prepared
<1>2. CASE ~ run.dry
  <2>1. run' = [run EXCEPT !.phase = "write"] /\ UNCHANGED <<disk, now, meddled>>
    BY <1>2 DEF Prepared, Step
  <2>2. IsRun(run) /\ run.phase = "prepare" /\ run.todo = <<>> /\ run.outcome # "ok"
    BY DEF Prepared, ReadInv, RunType, SettleInv, CourseInv
  <2>3. /\ run'.phase = "write" /\ run'.outcome = run.outcome /\ run'.kind = run.kind /\ run'.actor = run.actor
        /\ run'.at = run.at /\ run'.dry = run.dry /\ run'.all = run.all /\ run'.loaded = run.loaded
        /\ run'.targets = run.targets /\ run'.todo = run.todo /\ run'.prepared = run.prepared
        /\ run'.written = run.written
    BY <2>1, <2>2 DEF IsRun
  <2>4. OptionsInv' /\ ListsInv'
    BY <2>1, <2>3, SameFiles DEF SettleInv, ListsInv
  <2>5. \A c : Promised(c, run) => Promised(c, run')
    BY <2>3, SamePromise
  <2>6. CourseInv'
    BY <2>1, <2>2, <2>3, <2>5 DEF SettleInv, CourseInv, Loaded, Unwritten
  <2>. QED
    BY <2>4, <2>6 DEF SettleInv
<1>. QED
  BY <1>1, <1>2

LEMMA HeadAndTail ==
  ASSUME NEW s, s \in Seq(ToSet(s)), s # <<>>
  PROVE  ToSet(s) = {Head(s)} \cup ToSet(Tail(s))
<1>. DEFINE T == ToSet(s)
            rest == Tail(s)
<1>1. s \in Seq(T)
  OBVIOUS
<1>2. T = {s[i] : i \in 1 .. Len(s)}
  BY <1>1, Listed
<1>. HIDE DEF T
<1>3. rest \in Seq(T) /\ Head(s) = s[1] /\ Len(rest) = Len(s) - 1 /\ Len(s) \in Nat \ {0}
      /\ \A i \in 1 .. Len(rest) : rest[i] = s[i + 1]
  BY <1>1
<1>4. ToSet(rest) = {rest[i] : i \in 1 .. Len(rest)}
  BY <1>3, Listed
<1>. HIDE DEF rest
<1>5. \A i \in 1 .. Len(s) : i = 1 \/ (i - 1 \in 1 .. Len(rest) /\ s[i] = rest[i - 1])
  BY <1>3
<1>6. \A i \in 1 .. Len(rest) : i + 1 \in 1 .. Len(s) /\ rest[i] = s[i + 1]
  BY <1>3
<1>7. 1 \in 1 .. Len(s)
  BY <1>3
<1>8. ASSUME NEW e \in T
      PROVE  e \in {Head(s)} \cup ToSet(rest)
  <2>1. PICK i \in 1 .. Len(s) : e = s[i]
    BY <1>2
  <2>. QED
    BY <1>3, <1>4, <1>5, <2>1
<1>9. Head(s) \in T
  BY <1>2, <1>3, <1>7
<1>10. ASSUME NEW e \in ToSet(rest)
       PROVE  e \in T
  <2>1. PICK i \in 1 .. Len(rest) : e = rest[i]
    BY <1>4
  <2>. QED
    BY <1>2, <1>6, <2>1
<1>11. T = {Head(s)} \cup ToSet(rest)
  BY <1>8, <1>9, <1>10
<1>. QED
  BY <1>11 DEF T, rest

LEMMA WriteSettles ==
  ASSUME ReadInv, ClosedInv, SettleInv, Write
  PROVE  SettleInv'
<1>. DEFINE w == Head(run.prepared)
            prepared == Tail(run.prepared)
            written == run.written \cup {w.id}
<1>1. /\ run.phase = "write" /\ run.prepared # <<>> /\ IsRun(run) /\ run.kind \in Kinds
      /\ run.prepared \in Seq(ToSet(run.prepared)) /\ UNCHANGED <<now, meddled>> /\ run.outcome # "ok"
      /\ disk' = [disk EXCEPT ![w.id] = w.text]
      /\ run' = [run EXCEPT !.prepared = prepared, !.written = written]
  BY DEF Write, Step, ReadInv, RunType, SettleInv, CourseInv
<1>2. ToSet(run.prepared) = {w} \cup ToSet(prepared)
  BY <1>1, HeadAndTail
<1>. HIDE DEF w, prepared, written
<1>3. w.id \in Ids
  BY <1>2 DEF ReadInv, RunType, IsPrepared
<1>4. DOMAIN disk = Ids /\ disk'[w.id] = w.text /\ \A id \in Ids \ {w.id} : disk'[id] = disk[id]
  BY <1>1, <1>3 DEF ReadInv, DiskType
<1>5. /\ run'.phase = "write" /\ run'.outcome = run.outcome /\ run'.kind = run.kind /\ run'.actor = run.actor
      /\ run'.at = run.at /\ run'.dry = run.dry /\ run'.all = run.all /\ run'.loaded = run.loaded
      /\ run'.targets = run.targets /\ run'.todo = run.todo /\ run'.prepared = prepared
      /\ run'.written = written
  BY <1>1 DEF IsRun
<1>6. OptionsInv'
  BY <1>1, <1>5 DEF SettleInv, OptionsInv
<1>7. ListsInv'
  <2>1. \A id \in Ids : IsList(disk'[id].verified)
    BY <1>2, <1>3, <1>4 DEF SettleInv, ListsInv
  <2>2. \A v \in ToSet(prepared) : IsList(v.text.verified)
    BY <1>2 DEF SettleInv, ListsInv
  <2>. QED
    BY <1>5, <2>1, <2>2 DEF ListsInv
<1>8. CourseInv'
  <2>. SUFFICES ASSUME ~ meddled
                PROVE  CourseInv'
    BY <1>1, <1>5 DEF CourseInv
  <2>1. /\ \A id \in Ids \ run.written : disk[id] = run.loaded[id]
        /\ Promised(w.text, run) /\ \A v \in ToSet(prepared) : Promised(v.text, run)
        /\ \A id \in run.written : id \in Ids /\ Promised(disk[id], run)
        /\ ToSet(run.targets) \subseteq ToSet(run.todo) \cup Unwritten \cup run.written /\ run.todo = <<>>
        /\ (run.kind = "batch" /\ run.all) =>
              Attestable(disk, Required, TRUE, run.actor) \subseteq ToSet(run.targets) \cup run.written
    BY <1>1, <1>2 DEF SettleInv, CourseInv, Loaded
  <2>2. \A c : Promised(c, run) => Promised(c, run')
    BY <1>5, SamePromise
  <2>3. \A id \in Ids \ written : disk'[id] = run.loaded[id]
    BY <1>4, <2>1 DEF written
  <2>4. \A id \in written : id \in Ids /\ Promised(disk'[id], run')
    BY <1>3, <1>4, <2>1, <2>2 DEF written
  <2>5. Unwritten \subseteq Unwritten' \cup {w.id}
    BY <1>2, <1>5 DEF Unwritten
  <2>6. ToSet(run.targets) \subseteq ToSet(run.todo) \cup Unwritten' \cup written
    BY <2>1, <2>5 DEF written
  <2>7. ASSUME run.kind = "batch", run.all
        PROVE  Attestable(disk', Required, TRUE, run.actor) \subseteq ToSet(run.targets) \cup written
    <3>1. DOMAIN disk' = Ids
      BY <1>1, <1>4
    <3>2. Attestable(disk', Required, TRUE, run.actor)
            \subseteq Attestable(disk, Required, TRUE, run.actor) \cup {w.id}
      BY <1>4, <3>1 DEF Attestable
    <3>. QED
      BY <2>1, <2>7, <3>2 DEF written
  <2>8. Loaded' /\ run'.outcome # "ok" /\ ~ meddled'
    BY <1>1, <1>5 DEF Loaded
  <2>. QED
    BY <1>5, <2>1, <2>2, <2>3, <2>4, <2>6, <2>7, <2>8 DEF CourseInv
<1>. QED
  BY <1>6, <1>7, <1>8 DEF SettleInv

LEMMA TouchSettles ==
  ASSUME ReadInv, ClosedInv, SettleInv, NEW id \in Ids, NEW text, Touch(id, text), IsList(text.verified)
  PROVE  SettleInv'
<1>1. disk' = [disk EXCEPT ![id] = text] /\ run' = run /\ now' = now /\ meddled'
  BY DEF Touch
<1>2. DOMAIN disk = Ids /\ disk'[id] = text /\ \A i \in Ids \ {id} : disk'[i] = disk[i]
  BY <1>1 DEF ReadInv, DiskType
<1>3. OptionsInv'
  BY <1>1 DEF SettleInv, OptionsInv
<1>4. ListsInv'
  BY <1>1, <1>2 DEF SettleInv, ListsInv
<1>5. CourseInv'
  BY <1>1 DEF SettleInv, CourseInv
<1>. QED
  BY <1>3, <1>4, <1>5 DEF SettleInv

LEMMA TickSettles ==
  ASSUME SettleInv, Tick
  PROVE  SettleInv'
<1>1. now' = now + 1 /\ UNCHANGED <<disk, run, meddled>>
  BY DEF Tick
<1>2. OptionsInv'
  BY <1>1 DEF SettleInv, OptionsInv
<1>3. ListsInv' /\ CourseInv'
  BY <1>1 DEF SettleInv, ListsInv, CourseInv, Loaded, Unwritten
<1>. QED
  BY <1>2, <1>3 DEF SettleInv

LEMMA SettleStep == ReadInv /\ ClosedInv /\ SettleInv /\ [Next]_vars => SettleInv'
<1>. SUFFICES ASSUME ReadInv, ClosedInv, SettleInv, [Next]_vars
              PROVE  SettleInv'
  OBVIOUS
<1>1. CASE UNCHANGED vars
  BY <1>1 DEF vars, SettleInv, OptionsInv, ListsInv, CourseInv, Loaded, Unwritten
<1>2. CASE Decline \/ WriteFails
  BY <1>2, EndSettles DEF Decline, WriteFails
<1>3. CASE Done
  <2>1. ToSet(run.prepared) = {} /\ run.phase = "write" /\ End("ok") /\ UNCHANGED disk
    BY <1>3, NothingPrepared DEF Done
  <2>2. ~ meddled => ToSet(run.targets) \subseteq run.written
    BY <2>1, NothingPrepared DEF SettleInv, CourseInv, Loaded, Unwritten
  <2>. QED
    BY <2>1, <2>2, EndSettles
<1>4. ASSUME NEW id \in Ids, Edit(id) \/ HandVerify(id)
      PROVE  SettleInv'
  <2>1. IsConcept(disk[id]) /\ IsList(disk[id].verified) /\ now \in Nat
    BY DEF ReadInv, DiskType, SettleInv, ListsInv, OptionsInv
  <2>2. CASE Edit(id)
    <3>1. PICK c : Touch(id, [disk[id] EXCEPT !.content = c])
      BY <2>2 DEF Edit
    <3>2. PICK text : Touch(id, text) /\ text = [disk[id] EXCEPT !.content = c]
      BY <3>1
    <3>3. text.verified = disk[id].verified
      BY <2>1, <3>2 DEF IsConcept
    <3>. QED
      BY <2>1, <3>2, <3>3, TouchSettles
  <2>3. CASE HandVerify(id)
    <3>1. PICK a : Touch(id, [disk[id] EXCEPT !.verified = Append(@, [by |-> a, at |-> now])])
      BY <2>3 DEF HandVerify
    <3>. DEFINE entry == [by |-> a, at |-> now]
                entries == Append(disk[id].verified, entry)
    <3>2. PICK text : Touch(id, text) /\ text = [disk[id] EXCEPT !.verified = entries]
      BY <3>1
    <3>3. IsEntry(entry) /\ entry.at = now
      BY <2>1 DEF IsEntry
    <3>. HIDE DEF entry
    <3>4. entries \in Seq(ToSet(entries)) /\ ToSet(entries) = ToSet(disk[id].verified) \cup {entry}
      BY <2>1, Extended DEF IsList
    <3>. HIDE DEF entries
    <3>5. text.verified = entries
      BY <2>1, <3>2 DEF IsConcept
    <3>6. IsList(entries)
      BY <2>1, <3>3, <3>4 DEF IsList
    <3>. QED
      BY <3>2, <3>3, <3>4, <3>5, <3>6, TouchSettles
  <2>. QED
    BY <1>4, <2>2, <2>3
<1>. QED
  BY <1>1, <1>2, <1>3, <1>4, InvokeSettles, AnswerSettles, LoadSettles, PrepareSettles, PreparedSettles,
     WriteSettles, TickSettles DEF Next

LEMMA Settling == Spec => [](ReadInv /\ SettleInv)
BY AttestInit, AttestStep, SettleInit, SettleStep, PTL DEF Spec

\* What an undisturbed run that ended well promised of its targets holds of them.
LEMMA TargetsAreSettled ==
  ASSUME ReadInv, SettleInv, run.outcome = "ok", ~ run.dry, ~ meddled
  PROVE  \A i \in DOMAIN run.targets : Promised(disk[run.targets[i]], run)
BY DEF ReadInv, RunType, SettleInv, CourseInv, ToSet

\* A revocation that went through undisturbed leaves no trace of its actor in its concepts.
THEOREM RevocationUnbinds == Spec => []RevokeUnbinds
<1>1. ReadInv /\ SettleInv => RevokeUnbinds
  <2>. SUFFICES ASSUME ReadInv, SettleInv, run.kind = "revoke", run.outcome = "ok", ~ meddled,
                       NEW i \in DOMAIN run.targets
                PROVE  Own(disk[run.targets[i]], run.actor) = {}
                       /\ disk[run.targets[i]].binding.by # run.actor
    BY DEF RevokeUnbinds
  <2>1. ~ run.dry
    BY DEF SettleInv, OptionsInv
  <2>2. Promised(disk[run.targets[i]], run)
    BY <2>1, TargetsAreSettled
  <2>. QED
    BY <2>2 DEF Promised
<1>. QED
  BY <1>1, Settling, PTL

\* A batch over everything that went through undisturbed leaves nothing for the next one and no
\* drift for the lint, but what holds an entry dated after the run.
THEOREM BatchesSettle == Spec => []BatchSettles
<1>1. ReadInv /\ SettleInv => BatchSettles
  <2>. SUFFICES ASSUME ReadInv, SettleInv, run.kind = "batch", run.all, run.outcome = "ok", ~ run.dry, ~ meddled,
                       NEW id \in Attestable(disk, Required, TRUE, run.actor) \cup LintDrift(disk),
                       Dated(disk[id].verified, run.at)
                PROVE  FALSE
    BY DEF BatchSettles
  <2>. DEFINE left == Attestable(disk, Required, TRUE, run.actor)
  <2>1. left \subseteq ToSet(run.targets) \cup run.written
    BY DEF SettleInv, CourseInv
  <2>2. \A i \in ToSet(run.targets) \cup run.written : Promised(disk[i], run)
    BY TargetsAreSettled DEF ToSet, SettleInv, CourseInv
  <2>3. LintDrift(disk) \subseteq left
    BY DEF LintDrift, Attestable, Drifted, AttestedBy
  <2>4. Promised(disk[id], run) /\ ~ AttestedBy(disk[id], run.actor)
    BY <2>1, <2>2, <2>3 DEF Attestable
  <2>. QED
    BY <2>4 DEF Promised
<1>. QED
  BY <1>1, Settling, PTL

\* What a refresh went through undisturbed is fresh at the time it recorded and attested by its
\* actor, unless a later entry or another's as recent stands, when a concept may be fresh at all.
THEOREM RefreshesSettle == Period # 0 => (Spec => []RefreshSettles)
<1>. SUFFICES ASSUME Period # 0
              PROVE  Spec => []RefreshSettles
  OBVIOUS
<1>1. ReadInv /\ SettleInv => RefreshSettles
  <2>. SUFFICES ASSUME ReadInv, SettleInv, run.kind = "stale", run.outcome = "ok", ~ meddled
                PROVE  \A i \in DOMAIN run.targets : Promised(disk[run.targets[i]], run)
    BY DEF RefreshSettles, Promised
  <2>1. ~ run.dry
    BY DEF SettleInv, OptionsInv
  <2>. QED
    BY <2>1, TargetsAreSettled
<1>. QED
  BY <1>1, Settling, PTL
=============================================================================
