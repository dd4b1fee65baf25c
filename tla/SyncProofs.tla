------------------------------ MODULE SyncProofs ------------------------------
(* Theorems about Sync, for any concepts and any number of acts. *)
EXTENDS Sync, SequenceTheorems, TLAPS

----------------------------------------------------------------------------
(* Types. *)
LEMMA Texts ==
  /\ Absent.body = None /\ Absent.stamp = None /\ Absent.at = None /\ Absent \notin Text
  /\ \A t \in Text : t.body \in Body /\ t.body # None /\ t # Absent /\ t.at \in Day \union {None}
  /\ \A t \in Text \union {Absent} : t = Absent <=> t.body = None
  /\ \A t \in Text \union {Absent}, b \in Body : [t EXCEPT !.body = b] \in Text
  /\ \A t \in Text, s \in Body, a \in Day : [t EXCEPT !.stamp = s, !.at = a] \in Text
<1>. USE SyncAssumption
<1>1. /\ Absent.body = None /\ Absent.stamp = None /\ Absent.at = None
  BY DEF Absent
<1>2. \A t \in Text : t.body \in Body /\ t.body # None /\ t.at \in Day \union {None}
  BY DEF Text, Body, None
<1>3. Absent \in [body : {None}, stamp : {None}, at : {None}]
  BY DEF Absent
<1>4. \A t \in Text \union {Absent}, b \in Body : [t EXCEPT !.body = b] \in Text
  BY <1>1, <1>3 DEF Text
<1>5. \A t \in Text, s \in Body, a \in Day : [t EXCEPT !.stamp = s, !.at = a] \in Text
  <2>. SUFFICES ASSUME NEW t \in Text, NEW s \in Body, NEW a \in Day
                PROVE  [t EXCEPT !.stamp = s, !.at = a] \in Text
    OBVIOUS
  <2>1. s # None /\ a # None
    BY DEF Body, Day, None
  <2>2. t \in [body : Body, stamp : Body \union {None}, at : Day \union {None}]
    BY DEF Text
  <2>3. PICK n : n = [t EXCEPT !.stamp = s, !.at = a]
    OBVIOUS
  <2>4. n \in [body : Body, stamp : Body \union {None}, at : Day \union {None}] /\ n.stamp = s /\ n.at = a
    BY <2>2, <2>3
  <2>. QED
    BY <2>1, <2>3, <2>4 DEF Text
<1>. QED
  BY <1>1, <1>2, <1>4, <1>5

LEMMA Trees ==
  /\ Empty \in Tree /\ Named(Empty.log) = {} /\ OnceEach(Empty.log)
  /\ \A c \in Concepts : Empty.file[c] = Absent
  /\ \A t \in Tree : /\ t.file \in Files /\ t.log \in LogText /\ Named(t.log) \subseteq Entry
                     /\ \A c \in Concepts : t.file[c] \in Text \union {Absent}
<1>. DEFINE blank == [lines |-> [e \in Entry |-> 0], prose |-> 0]
<1>1. Empty.log = blank /\ Empty.file = [c \in Concepts |-> Absent] /\ Empty = [file |-> Empty.file, log |-> Empty.log]
  BY DEF Empty
<1>2. blank \in LogText /\ \A e \in Entry : blank.lines[e] = 0
  BY DEF LogText, Torn
<1>. HIDE DEF blank
<1>3. Named(blank) = {} /\ OnceEach(blank)
  BY <1>2 DEF Named, OnceEach
<1>4. Empty \in Tree /\ \A c \in Concepts : Empty.file[c] = Absent
  BY <1>1, <1>2 DEF Tree, Files
<1>5. \A t \in Tree : /\ t.file \in Files /\ t.log \in LogText
                     /\ \A c \in Concepts : t.file[c] \in Text \union {Absent}
  BY DEF Tree, Files
<1>6. \A log : Named(log) \subseteq Entry
  BY DEF Named
<1>. QED
  BY <1>1, <1>3, <1>4, <1>5, <1>6

LEMMA IdleType ==
  /\ Idle.at = "idle" /\ Idle.kind = "ordinary" /\ Idle.now = None /\ Idle.loaded = Empty /\ Idle.prov = NoPlan
  /\ Idle.plan = NoPlan /\ Idle.raced = {} /\ Idle.before = NoPlan /\ Idle.left = {} /\ Idle.logDirty \in BOOLEAN
  /\ Idle.calm \in BOOLEAN /\ DOMAIN NoPlan = {} /\ \A T : NoPlan \in [{} -> T]
BY DEF Idle, NoPlan

LEMMA InitType == Init => TypeOK
<1>. SUFFICES ASSUME Init
              PROVE  TypeOK
  OBVIOUS
<1>1. run \in Run
  BY IdleType, Trees DEF Init, Run, Idle
<1>2. head \in Seq([file : Files, log : LogText, day : Day]) /\ day \in Day /\ acts \in 0 .. MaxActs
  BY SyncAssumption DEF Init, Day
<1>. QED
  BY <1>1, <1>2, IdleType, Trees DEF Init, TypeOK

\* The files and the commits.
LEMMA Parts ==
  ASSUME TypeOK
  PROVE  /\ tree \in Tree /\ index \in Tree /\ run.loaded \in Tree /\ run.raced \subseteq Target
         /\ Len(head) \in Nat
         /\ \A i \in 1 .. Len(head) :
              head[i].file \in Files /\ head[i].log \in LogText /\ head[i].day \in Day
<1>1. tree \in Tree /\ index \in Tree /\ run \in Run
  BY DEF TypeOK
<1>2. run.loaded \in Tree /\ run.raced \subseteq Target
  BY <1>1 DEF Run
<1>3. head \in Seq([file : Files, log : LogText, day : Day])
  BY DEF TypeOK
<1>4. Len(head) \in Nat /\ \A i \in 1 .. Len(head) : head[i] \in [file : Files, log : LogText, day : Day]
  BY <1>3, ElementOfSeq, LenProperties
<1>. QED
  BY <1>1, <1>2, <1>4

\* The provenance a run finds is of the type it should be.
LEMMA Brings ==
  ASSUME TypeOK, HistoryInv, NEW c \in Concepts, tree.file[c] # Absent,
         HeadFile(c).body = tree.file[c].body
  PROVE  \E i \in 1 .. Len(head) :
           /\ GeneratedAt(c) = [day |-> head[i].day, creating |-> \A j \in 1 .. i - 1 : head[j].file[c] = Absent]
           /\ <<c, tree.file[c].body, head[i].day>> \in dated
<1>. DEFINE n == Len(head)
<1>1. tree.file[c].body # None /\ n \in Nat
  <2>1. tree.file[c] \in Text
    BY Parts, Trees
  <2>. QED
    BY <2>1, Texts, Parts
<1>2. head # <<>>
  BY <1>1, Trees, Texts DEF HeadFile, Committed
<1>3. n \in 1 .. n /\ head[n].file[c].body = tree.file[c].body
  BY <1>1, <1>2, EmptySeq DEF HeadFile, Committed, TypeOK
<1>4. PICK i \in 1 .. n : Brought(c, i, n)
  BY <1>1, <1>3 DEF HistoryInv
<1>5. i \in SinceBody(c)
  BY <1>3, <1>4 DEF SinceBody, Brought
<1>6. \A k \in SinceBody(c) : i <= k
  <2>. SUFFICES ASSUME NEW k \in SinceBody(c), ~ i <= k
                PROVE  FALSE
    OBVIOUS
  <2>1. k \in 1 .. n /\ \A j \in k .. n : head[j].file[c].body = tree.file[c].body
    BY DEF SinceBody
  <2>2. i > 1 /\ i - 1 \in k .. n
    BY <2>1, <1>1
  <2>. QED
    BY <2>1, <2>2, <1>3, <1>4 DEF Brought
<1>7. i = CHOOSE k \in SinceBody(c) : \A j \in SinceBody(c) : k <= j
  <2>1. \A k \in SinceBody(c) : (\A j \in SinceBody(c) : k <= j) => k = i
    BY <1>5, <1>6 DEF SinceBody
  <2>. QED
    BY <1>5, <1>6, <2>1
<1>8. <<c, tree.file[c].body, head[i].day>> \in dated
  BY <1>3, <1>4 DEF Brought
<1>. QED
  BY <1>7, <1>8 DEF GeneratedAt

LEMMA Provenances ==
  ASSUME TypeOK, HistoryInv, NEW c \in Concepts, tree.file[c] # Absent
  PROVE  GeneratedAt(c) \in Provenance /\ (GeneratedAt(c) # Uncommitted => <<c, tree.file[c].body, GeneratedAt(c).day>> \in dated)
<1>1. CASE HeadFile(c).body # tree.file[c].body
  BY <1>1 DEF GeneratedAt, Provenance
<1>2. CASE HeadFile(c).body = tree.file[c].body
  <2>1. PICK i \in 1 .. Len(head) :
           /\ GeneratedAt(c) = [day |-> head[i].day, creating |-> \A j \in 1 .. i - 1 : head[j].file[c] = Absent]
           /\ <<c, tree.file[c].body, head[i].day>> \in dated
    BY <1>2, Brings
  <2>2. head[i].day \in Day
    BY Parts
  <2>. QED
    BY <2>1, <2>2 DEF Provenance
<1>. QED
  BY <1>1, <1>2

\* Steps of the run that leave everything else alone.
LEMMA RunTyped ==
  ASSUME TypeOK, UNCHANGED <<agent, day, tree, index, head, acts>>, dated' \subseteq Concepts \X Body \X Day,
         slipped' \subseteq Concepts,
         run' \in Run',
         DOMAIN run'.prov \subseteq Concepts, run'.prov \in [DOMAIN run'.prov -> Provenance],
         DOMAIN run'.plan \subseteq Target, run'.plan \in [DOMAIN run'.plan -> Replaced],
         DOMAIN run'.before \subseteq Target
  PROVE  TypeOK'
BY DEF TypeOK

\* Those that only move it along.
LEMMA RunMoves ==
  ASSUME TypeOK, UNCHANGED <<agent, day, tree, index, head, acts, dated, slipped>>, run' \in Run',
         run'.prov = run.prov, run'.plan = run.plan, run'.before = run.before
  PROVE  TypeOK'
BY DEF TypeOK

LEMMA StopTyped ==
  ASSUME TypeOK, Stop
  PROVE  TypeOK'
<1>1. run' = Idle /\ UNCHANGED <<agent, day, tree, index, head, acts, dated, slipped>>
  BY DEF Stop
<1>2. Idle \in [at : {"idle"}, kind : {"ordinary"}, now : {None}, loaded : {Empty}, calm : BOOLEAN,
                logDirty : BOOLEAN, prov : {NoPlan}, plan : {NoPlan}, raced : {{}}, before : {NoPlan},
                left : {{}}]
  BY DEF Idle
<1>3. run' \in Run'
  BY <1>1, <1>2, Trees DEF Run
<1>. QED
  BY <1>1, <1>3, IdleType, RunTyped DEF TypeOK

LEMMA BeginTyped ==
  ASSUME TypeOK, NEW kind \in {"ordinary", "staged"}, Begin(kind)
  PROVE  TypeOK'
<1>1. /\ run' = [Idle EXCEPT !.at = "loaded", !.kind = kind, !.now = day, !.loaded = tree]
      /\ UNCHANGED <<agent, day, tree, index, head, acts, dated, slipped>> /\ day \in Day /\ tree \in Tree
  BY DEF Begin, TypeOK
<1>2. Idle \in [at : {"idle"}, kind : {"ordinary"}, now : {None}, loaded : {Empty}, calm : BOOLEAN,
                logDirty : BOOLEAN, prov : {NoPlan}, plan : {NoPlan}, raced : {{}}, before : {NoPlan},
                left : {{}}]
  BY DEF Idle
<1>3. run' \in Run' /\ run'.prov = NoPlan /\ run'.plan = NoPlan /\ run'.before = NoPlan
  BY <1>1, <1>2, Trees DEF Run
<1>. QED
  BY <1>1, <1>3, IdleType, RunTyped DEF TypeOK

LEMMA WalkTyped ==
  ASSUME TypeOK, PresentInv, HistoryInv, Walk
  PROVE  TypeOK'
<1>. DEFINE prov == [c \in Walked(run.loaded) |-> GeneratedAt(c)]
<1>1. /\ run.at = "loaded" /\ run' = [run EXCEPT !.at = "dated", !.prov = prov]
      /\ UNCHANGED <<agent, day, tree, index, head, acts, dated>>
      /\ slipped' = slipped \union {c \in Walked(run.loaded) : tree.file[c].body # run.loaded.file[c].body}
  BY DEF Walk
<1>2. \A c \in Walked(run.loaded) : c \in Concepts /\ GeneratedAt(c) \in Provenance
  BY Provenances DEF Walked, Present, PresentInv
<1>3. DOMAIN prov \subseteq Concepts /\ prov \in [DOMAIN prov -> Provenance]
  BY <1>2
<1>. HIDE DEF prov
<1>4. run \in Run
  BY DEF TypeOK
<1>5. run' \in Run' /\ run'.prov = prov /\ run'.plan = run.plan /\ run'.before = run.before
  BY <1>1, <1>4 DEF Run
<1>. QED
  BY <1>1, <1>2, <1>3, <1>5, RunTyped DEF TypeOK

LEMMA DateStagedTyped ==
  ASSUME TypeOK, PresentInv, DateStaged
  PROVE  TypeOK'
<1>. DEFINE prov == [c \in StagedConcepts |-> [day |-> run.now, creating |-> HeadFile(c) = Absent]]
            dirty == index.log # tree.log
<1>1. /\ run.at = "loaded" /\ run' = [run EXCEPT !.at = "dated", !.logDirty = dirty, !.prov = prov]
      /\ dated' = dated \union {<<c, run.loaded.file[c].body, run.now>> : c \in StagedConcepts}
      /\ UNCHANGED <<agent, day, tree, index, head, acts, slipped>>
  BY DEF DateStaged
<1>2. run.now \in Day
  BY <1>1 DEF PresentInv
<1>3. DOMAIN prov \subseteq Concepts /\ prov \in [DOMAIN prov -> Provenance]
  BY <1>2 DEF StagedConcepts, Present, Provenance
<1>4. \A c \in StagedConcepts : c \in Concepts /\ run.loaded.file[c].body \in Body
  <2>. SUFFICES ASSUME NEW c \in StagedConcepts
                PROVE  c \in Concepts /\ run.loaded.file[c].body \in Body
    OBVIOUS
  <2>1. c \in Concepts /\ run.loaded.file[c] # Absent
    BY DEF StagedConcepts, Present
  <2>2. run.loaded.file[c] \in Text
    BY <2>1, Parts, Trees
  <2>. QED
    BY <2>1, <2>2, Texts
<1>5. dated' \subseteq Concepts \X Body \X Day
  BY <1>1, <1>2, <1>4 DEF TypeOK
<1>6. dirty \in BOOLEAN
  OBVIOUS
<1>. HIDE DEF prov, dirty
<1>7. run \in Run
  BY DEF TypeOK
<1>8. run' \in Run' /\ run'.prov = prov /\ run'.plan = run.plan /\ run'.before = run.before
  BY <1>1, <1>6, <1>7 DEF Run
<1>. QED
  BY <1>1, <1>3, <1>5, <1>8, RunTyped DEF TypeOK

\* What is in a plan: restamped concepts and, where something is added, the merged log.
LEMMA Planned ==
  ASSUME NEW l, NEW prov, NEW dirty
  PROVE  LET p == Plan(l, prov, dirty)
         IN /\ DOMAIN p \subseteq Restamped(l, prov) \union {Log}
            /\ \A t \in DOMAIN p : p[t] = IF t = Log THEN Merged(l, Additions(l, prov)) ELSE Stamp(l, t, prov[t])
            /\ p = [t \in DOMAIN p |-> p[t]]
<1>. DEFINE stamps == [c \in Restamped(l, prov) |-> Stamp(l, c, prov[c])]
            log == Merged(l, Additions(l, prov))
            targets == DOMAIN stamps \union IF dirty \/ log = tree.log THEN {} ELSE {Log}
<1>1. Plan(l, prov, dirty) = [t \in targets |-> IF t = Log THEN log ELSE stamps[t]]
  BY DEF Plan
<1>2. targets \subseteq Restamped(l, prov) \union {Log}
  OBVIOUS
<1>3. \A t \in targets : t # Log => stamps[t] = Stamp(l, t, prov[t])
  OBVIOUS
<1>. HIDE DEF stamps, log, targets
<1>4. \A t \in targets : Plan(l, prov, dirty)[t] = IF t = Log THEN log ELSE stamps[t]
  BY <1>1
<1>5. DOMAIN Plan(l, prov, dirty) = targets
  BY <1>1
<1>6. Plan(l, prov, dirty) = [t \in DOMAIN Plan(l, prov, dirty) |-> Plan(l, prov, dirty)[t]]
  BY <1>1
<1>. QED
  BY <1>2, <1>3, <1>4, <1>5, <1>6 DEF log

LEMMA NewEntries == TypeOK => Additions(run.loaded, run.prov) \subseteq Entry
<1>. SUFFICES ASSUME TypeOK, NEW c \in DOMAIN run.prov, run.prov[c] # Uncommitted
              PROVE  [day |-> run.prov[c].day, concept |-> c, verb |-> Verb(run.prov[c])] \in Entry
  BY DEF Additions
<1>1. run.prov[c].day \in Day /\ c \in Concepts
  BY DEF TypeOK, Provenance
<1>. QED
  BY <1>1 DEF Entry, Verb

\* One line more of each that is new; none changes its number otherwise.
LEMMA Lines ==
  ASSUME NEW l, l.log \in LogText, NEW new \in SUBSET Entry
  PROVE  /\ \A e \in Entry : Merged(l, new).lines[e] = l.log.lines[e] + IF e \in new THEN 1 ELSE 0
         /\ Merged(l, new).prose = IF tree.log = l.log THEN tree.log.prose ELSE Torn
         /\ Named(Merged(l, new)) = Named(l.log) \union new
         /\ tree.log \in LogText => Merged(l, new) \in LogText
<1>. DEFINE lines == [e \in Entry |-> l.log.lines[e] + IF e \in new THEN 1 ELSE 0]
            prose == IF tree.log = l.log THEN tree.log.prose ELSE Torn
<1>1. Merged(l, new) = [lines |-> lines, prose |-> prose]
  BY DEF Merged
<1>2. l.log.lines \in [Entry -> Nat]
  BY DEF LogText
<1>3. lines \in [Entry -> Nat] /\ \A e \in Entry : lines[e] = l.log.lines[e] + IF e \in new THEN 1 ELSE 0
  BY <1>2
<1>4. tree.log \in LogText => prose \in 0 .. Torn
  BY DEF LogText, Torn
<1>. HIDE DEF lines, prose
<1>5. Merged(l, new).lines = lines /\ Merged(l, new).prose = prose
  BY <1>1
<1>6. tree.log \in LogText => Merged(l, new) \in LogText
  BY <1>1, <1>3, <1>4 DEF LogText
<1>7. \A e \in Entry : Merged(l, new).lines[e] > 0 <=> l.log.lines[e] > 0 \/ e \in new
  <2>1. \A e \in Entry : l.log.lines[e] \in Nat
    BY <1>2
  <2>. QED
    BY <2>1, <1>3, <1>5
<1>8. Named(Merged(l, new)) = Named(l.log) \union new
  BY <1>7 DEF Named
<1>. QED
  BY <1>3, <1>5, <1>6, <1>8 DEF prose

LEMMA PlanParts ==
  ASSUME TypeOK, PresentInv
  PROVE  LET p == Plan(run.loaded, run.prov, run.logDirty)
         IN /\ DOMAIN p \subseteq Target
            /\ \A t \in DOMAIN p : IF t = Log THEN p[t] \in LogText ELSE p[t] \in Text
            /\ p \in [DOMAIN p -> Replaced]
<1>. DEFINE p == Plan(run.loaded, run.prov, run.logDirty)
            new == Additions(run.loaded, run.prov)
<1>1. /\ DOMAIN p \subseteq Restamped(run.loaded, run.prov) \union {Log}
      /\ \A t \in DOMAIN p : p[t] = IF t = Log THEN Merged(run.loaded, new) ELSE Stamp(run.loaded, t, run.prov[t])
  BY Planned
<1>2. \A c \in DOMAIN run.prov : c \in Concepts /\ run.prov[c] \in Provenance
  BY DEF TypeOK
<1>3. new \subseteq Entry
  BY NewEntries
<1>4. Merged(run.loaded, new) \in LogText
  <2>1. run.loaded.log \in LogText /\ tree.log \in LogText
    BY Parts, Trees
  <2>. QED
    BY <1>3, <2>1, Lines
<1>5. ASSUME NEW c \in Restamped(run.loaded, run.prov)
      PROVE  c \in Concepts /\ Stamp(run.loaded, c, run.prov[c]) \in Text
  <2>1. c \in DOMAIN run.prov /\ run.prov[c] # Uncommitted
    BY DEF Restamped
  <2>2. c \in Concepts /\ run.prov[c].day \in Day
    BY <2>1, <1>2 DEF Provenance
  <2>3. run.loaded.file[c] # Absent /\ tree.file[c] # Absent
    BY <2>1, <2>2 DEF PresentInv, Present
  <2>4. run.loaded.file[c] \in Text /\ tree.file[c] \in Text
    BY <2>2, <2>3, Parts, Trees
  <2>5. run.loaded.file[c].body \in Body
    BY <2>4, Texts
  <2>. QED
    BY <2>2, <2>4, <2>5, Texts DEF Stamp
<1>6. \A t \in DOMAIN p : /\ t \in Target
                          /\ IF t = Log THEN p[t] \in LogText ELSE p[t] \in Text
  BY <1>1, <1>4, <1>5 DEF Target
<1>7. p = [t \in DOMAIN p |-> p[t]]
  BY Planned
<1>. HIDE DEF p
<1>8. p \in [DOMAIN p -> Replaced]
  BY <1>6, <1>7 DEF Replaced
<1>. QED
  BY <1>6, <1>8 DEF p

LEMMA MakePlanTyped ==
  ASSUME TypeOK, PresentInv, MakePlan
  PROVE  TypeOK'
<1>. DEFINE p == Plan(run.loaded, run.prov, run.logDirty)
<1>1. /\ run' = [run EXCEPT !.at = "planned", !.plan = p]
      /\ UNCHANGED <<agent, day, tree, index, head, acts, dated, slipped>> /\ run.at = "dated"
  BY DEF MakePlan
<1>2. DOMAIN p \subseteq Target /\ p \in [DOMAIN p -> Replaced]
  BY PlanParts
<1>. HIDE DEF p
<1>3. run \in Run /\ run.left = {} /\ tree \in Tree
  BY <1>1 DEF TypeOK, PresentInv
<1>4. run' \in Run' /\ run'.prov = run.prov /\ run'.plan = p /\ run'.before = run.before
  BY <1>1, <1>3 DEF Run
<1>. QED
  BY <1>1, <1>2, <1>4, RunTyped DEF TypeOK

LEMMA SnapshotTyped ==
  ASSUME TypeOK, Snapshot
  PROVE  TypeOK'
<1>. DEFINE before == [t \in DOMAIN run.plan |-> On(t)]
            at == IF run.kind = "staged" \/ DOMAIN run.plan = {} THEN "confirmed" ELSE "asking"
<1>1. /\ run' = [run EXCEPT !.at = at, !.before = before]
      /\ UNCHANGED <<agent, day, tree, index, head, acts, dated, slipped>>
  BY DEF Snapshot
<1>2. DOMAIN before \subseteq Target /\ at \in {"confirmed", "asking"}
  BY DEF TypeOK
<1>. HIDE DEF before, at
<1>3. run \in Run
  BY DEF TypeOK
<1>4. run' \in Run' /\ run'.prov = run.prov /\ run'.plan = run.plan /\ run'.before = before
  BY <1>1, <1>2, <1>3 DEF Run
<1>. QED
  BY <1>1, <1>2, <1>4, RunTyped DEF TypeOK

LEMMA MovesTyped ==
  ASSUME TypeOK, Confirm \/ Accept
  PROVE  TypeOK'
<1>1. run \in Run
  BY DEF TypeOK
<1>2. CASE Confirm
  <2>1. /\ run' = [run EXCEPT !.at = "confirmed"] /\ UNCHANGED <<agent, day, tree, index, head, acts, dated, slipped>>
    BY <1>2 DEF Confirm
  <2>2. run' \in Run' /\ run'.prov = run.prov /\ run'.plan = run.plan /\ run'.before = run.before
    BY <1>1, <2>1 DEF Run
  <2>. QED
    BY <2>1, <2>2, RunMoves
<1>3. CASE Accept
  <2>1. /\ run' = [run EXCEPT !.at = "writing", !.left = DOMAIN run.plan]
        /\ UNCHANGED <<agent, day, tree, index, head, acts, dated, slipped>>
    BY <1>3 DEF Accept
  <2>2. run' \in Run' /\ run'.prov = run.prov /\ run'.plan = run.plan /\ run'.before = run.before
    BY <1>1, <2>1 DEF Run
  <2>. QED
    BY <2>1, <2>2, RunMoves
<1>. QED
  BY <1>2, <1>3

\* What a write and an edit make of the tree.
LEMMA TreeWith ==
  ASSUME NEW t \in Tree
  PROVE  /\ \A c \in Concepts, x \in Text :
              LET n == [t EXCEPT !.file[c] = x]
              IN n \in Tree /\ n.log = t.log /\ n.file[c] = x /\ \A e \in Concepts : e # c => n.file[e] = t.file[e]
         /\ \A x \in LogText : LET n == [t EXCEPT !.log = x] IN n \in Tree /\ n.log = x /\ n.file = t.file
BY DEF Tree, Files

LEMMA WriteTyped ==
  ASSUME TypeOK, PresentInv, NEW t \in Target, Write(t)
  PROVE  TypeOK'
<1>1. /\ t \in run.left /\ run' = [run EXCEPT !.left = @ \ {t}]
      /\ tree' = IF t = Log THEN [tree EXCEPT !.log = run.plan[t]] ELSE [tree EXCEPT !.file[t] = run.plan[t]]
      /\ UNCHANGED <<agent, day, index, head, acts, dated, slipped>>
  BY DEF Write
<1>2. run \in Run /\ t \in DOMAIN run.plan /\ tree \in Tree
  BY <1>1 DEF TypeOK, Run
<1>3. IF t = Log THEN run.plan[t] \in LogText ELSE run.plan[t] \in Text /\ t \in Concepts
  BY <1>2 DEF PresentInv, Target
<1>4. tree' \in Tree
  BY <1>1, <1>2, <1>3, TreeWith
<1>5. run' \in Run' /\ run'.prov = run.prov /\ run'.plan = run.plan /\ run'.before = run.before
  BY <1>1, <1>2 DEF Run
<1>. QED
  BY <1>1, <1>4, <1>5 DEF TypeOK

LEMMA RestageTyped ==
  ASSUME TypeOK, Restage
  PROVE  TypeOK'
<1>1. /\ run' = [run EXCEPT !.at = "hooked"] /\ index' = Restaged
      /\ UNCHANGED <<agent, day, tree, head, acts, dated, slipped>>
  BY DEF Restage
<1>2. run \in Run
  BY DEF TypeOK
<1>3. Restaged \in Tree
  BY Parts DEF Restaged, Tree, Files
<1>4. run' \in Run' /\ run'.prov = run.prov /\ run'.plan = run.plan /\ run'.before = run.before
  BY <1>1, <1>2 DEF Run
<1>. QED
  BY <1>1, <1>3, <1>4 DEF TypeOK

\* Whoever acts from outside leaves the run where it is.
LEMMA ActTyped ==
  ASSUME TypeOK, NEW touched \in SUBSET Target, Acts(touched)
  PROVE  /\ run' \in Run' /\ run'.prov = run.prov /\ run'.plan = run.plan /\ run'.before = run.before
         /\ run'.left = run.left /\ run'.at = run.at /\ run'.kind = run.kind /\ run'.loaded = run.loaded
         /\ run.raced \subseteq run'.raced /\ (run.at \in Window => touched \subseteq run'.raced)
         /\ run'.now = run.now /\ (run.at = "idle" => run' = run) /\ (run.at # "idle" => ~run'.calm)
         /\ acts' \in 0 .. MaxActs
<1>1. /\ run' = IF run.at = "idle" THEN run
                ELSE [run EXCEPT !.calm = FALSE,
                                 !.raced = IF run.at \in Window THEN @ \union touched ELSE @]
      /\ acts' = acts + 1 /\ acts < MaxActs
  BY DEF Acts
<1>2. run \in Run /\ acts \in 0 .. MaxActs
  BY DEF TypeOK
<1>3. acts' \in 0 .. MaxActs
  BY <1>1, <1>2, SyncAssumption
<1>4. PICK no, r : no = FALSE /\ no \in BOOLEAN /\ r = IF run.at \in Window THEN run.raced \union touched ELSE run.raced
  OBVIOUS
<1>5. run.raced \subseteq Target
  BY <1>2 DEF Run
<1>6. r \subseteq Target /\ run.raced \subseteq r /\ (run.at \in Window => touched \subseteq r)
  BY <1>4, <1>5
<1>7. CASE run.at = "idle"
  <2>1. run' = run /\ "idle" \notin Window
    BY <1>1, <1>7 DEF Window
  <2>. QED
    BY <1>2, <1>3, <1>7, <2>1 DEF Run
<1>8. CASE run.at # "idle"
  <2>1. run' = [run EXCEPT !.calm = no, !.raced = r]
    BY <1>1, <1>4, <1>8
  <2>2. /\ run' \in Run' /\ run'.prov = run.prov /\ run'.plan = run.plan /\ run'.before = run.before
        /\ run'.left = run.left /\ run'.at = run.at /\ run'.kind = run.kind /\ run'.loaded = run.loaded
        /\ run'.raced = r /\ run'.now = run.now /\ run'.calm = no
    BY <1>2, <1>4, <1>6, <2>1 DEF Run
  <2>. QED
    BY <1>3, <1>4, <1>6, <1>8, <2>2
<1>. QED
  BY <1>7, <1>8

LEMMA EditTyped ==
  ASSUME TypeOK, NEW c \in Concepts, NEW b \in Body, Edit(c, b)
  PROVE  TypeOK' /\ tree' = [tree EXCEPT !.file[c] = [tree.file[c] EXCEPT !.body = b]]
         /\ [tree.file[c] EXCEPT !.body = b] \in Text
<1>1. /\ Acts({c}) /\ tree' = [tree EXCEPT !.file[c] = [tree.file[c] EXCEPT !.body = b]]
      /\ UNCHANGED <<agent, day, index, head, dated, slipped>>
  BY Parts DEF Edit, Tree, Files
<1>2. tree \in Tree /\ [tree.file[c] EXCEPT !.body = b] \in Text
  BY Parts, Trees, Texts
<1>3. tree' \in Tree
  BY <1>1, <1>2, TreeWith
<1>. QED
  BY <1>1, <1>2, <1>3, ActTyped DEF TypeOK, Target

LEMMA EditLogTyped ==
  ASSUME TypeOK, EditLog
  PROVE  TypeOK' /\ tree'.log.lines = tree.log.lines /\ tree'.file = tree.file
<1>1. /\ Acts({Log}) /\ tree.log.prose # Torn
      /\ tree' = [tree EXCEPT !.log = [tree.log EXCEPT !.prose = 1 - tree.log.prose]]
      /\ UNCHANGED <<agent, day, index, head, dated, slipped>>
  BY Parts DEF EditLog, Tree, LogText
<1>2. tree \in Tree /\ tree.log \in LogText
  BY Parts, Trees
<1>3. 1 - tree.log.prose \in 0 .. 2
  BY <1>1, <1>2 DEF LogText, Torn
<1>4. PICK l : l = [tree.log EXCEPT !.prose = 1 - tree.log.prose]
  OBVIOUS
<1>5. l \in LogText /\ l.lines = tree.log.lines
  BY <1>2, <1>3, <1>4 DEF LogText, Torn
<1>6. tree' \in Tree /\ tree'.log = l /\ tree'.file = tree.file
  BY <1>1, <1>2, <1>4, <1>5, TreeWith
<1>. QED
  BY <1>1, <1>5, <1>6, ActTyped DEF TypeOK, Target

LEMMA DayTyped ==
  ASSUME TypeOK, NextDay
  PROVE  TypeOK'
<1>1. Acts({}) /\ day' = day + 1 /\ day < MaxDay /\ UNCHANGED <<agent, tree, index, head, dated, slipped>>
  BY DEF NextDay
<1>2. day' \in Day
  BY <1>1, SyncAssumption DEF TypeOK, Day
<1>. QED
  BY <1>1, <1>2, ActTyped DEF TypeOK

LEMMA AddTyped ==
  ASSUME TypeOK, (\E c \in Concepts : Add(c)) \/ AddLog
  PROVE  TypeOK'
<1>1. Acts({}) /\ UNCHANGED <<agent, day, tree, head, dated, slipped>>
  BY DEF Add, AddLog
<1>2. index' \in Tree
  <2>1. \A c \in Concepts : tree.file[c] \in Text \union {Absent}
    BY Parts, Trees
  <2>2. index \in Tree /\ tree.log \in LogText
    BY Parts, Trees
  <2>. QED
    BY <2>1, <2>2 DEF Add, AddLog, Tree, Files
<1>. QED
  BY <1>1, <1>2, ActTyped DEF TypeOK

\* The commits before a new one: all of them, or all but the last.
LEMMA CommitTyped ==
  ASSUME TypeOK, NEW commits \in Seq([file : Files, log : LogText, day : Day]), NEW d \in Day, MakeCommit(commits, d)
  PROVE  /\ TypeOK'
         /\ head' \in Seq([file : Files, log : LogText, day : Day]) /\ Len(commits) \in Nat
         /\ Len(head') = Len(commits) + 1 /\ \A i \in 1 .. Len(commits) : head'[i] = commits[i]
         /\ head'[Len(head')] = [file |-> index.file, log |-> index.log, day |-> d]
         /\ dated' = dated \union Introduced(head', d) /\ UNCHANGED <<agent, day, tree, index, acts, slipped>>
         /\ IF run.at \in {"idle", "hooked"} THEN run' = Idle
            ELSE /\ ~run'.calm
                 /\ UNCHANGED <<run.at, run.kind, run.now, run.loaded, run.prov, run.plan, run.before, run.left, run.raced>>
<1>. DEFINE new == [file |-> index.file, log |-> index.log, day |-> d]
            C == [file : Files, log : LogText, day : Day]
<1>1. /\ head' = Append(commits, new) /\ dated' = dated \union Introduced(head', d)
      /\ run' = IF run.at \in {"idle", "hooked"} THEN Idle ELSE [run EXCEPT !.calm = FALSE]
      /\ UNCHANGED <<agent, day, tree, index, acts, slipped>>
  BY DEF MakeCommit
<1>2. new \in C /\ new.file = index.file
  BY Parts, Trees
<1>. HIDE DEF new, C
<1>3. commits \in Seq(C)
  BY DEF C
<1>4. /\ head' \in Seq(C) /\ Len(commits) \in Nat /\ Len(head') = Len(commits) + 1
      /\ \A i \in 1 .. Len(commits) : head'[i] = commits[i]
      /\ head'[Len(head')] = new
  BY <1>1, <1>2, <1>3
<1>5. Introduced(head', d) \subseteq Concepts \X Body \X Day
  <2>1. \A c \in Concepts : index.file[c] \in Text \union {Absent}
    BY Parts, Trees
  <2>2. \A c \in Concepts : index.file[c].body # None => index.file[c].body \in Body
    BY <2>1, Texts
  <2>. QED
    BY <1>2, <1>4, <2>2 DEF Introduced
<1>6. CASE run.at \in {"idle", "hooked"}
  <2>1. Idle \in [at : {"idle"}, kind : {"ordinary"}, now : {None}, loaded : {Empty}, calm : BOOLEAN,
                logDirty : BOOLEAN, prov : {NoPlan}, plan : {NoPlan}, raced : {{}}, before : {NoPlan},
                left : {{}}]
    BY DEF Idle
  <2>2. run' \in Run'
    BY <1>1, <1>6, <2>1, Trees DEF Run
  <2>3. TypeOK'
    BY <1>1, <1>4, <1>5, <1>6, <2>2, IdleType DEF TypeOK, C
  <2>. QED
    BY <1>1, <1>4, <1>6, <2>3 DEF new, C
<1>7. CASE run.at \notin {"idle", "hooked"}
  <2>1. PICK no : no = FALSE /\ run' = [run EXCEPT !.calm = no] /\ no \in BOOLEAN
    BY <1>1, <1>7
  <2>2. run \in Run
    BY DEF TypeOK
  <2>3. run' \in Run' /\ ~run'.calm /\ UNCHANGED <<run.at, run.kind, run.now, run.loaded, run.prov, run.plan,
                                                  run.before, run.left, run.raced>>
    BY <2>1, <2>2 DEF Run
  <2>4. TypeOK'
    BY <1>1, <1>4, <1>5, <2>3 DEF TypeOK, C
  <2>. QED
    BY <1>1, <1>4, <1>7, <2>3, <2>4 DEF new, C
<1>. QED
  BY <1>6, <1>7

\* The two ways to commit.
LEMMA Commits ==
  ASSUME TypeOK, Commit \/ Amend
  PROVE  \E commits \in Seq([file : Files, log : LogText, day : Day]), d \in Day :
           /\ MakeCommit(commits, d) /\ Len(commits) <= Len(head)
           /\ \A i \in 1 .. Len(commits) : commits[i] = head[i]
<1>. DEFINE C == [file : Files, log : LogText, day : Day]
<1>1. head \in Seq(C) /\ day \in Day /\ Len(head) \in Nat
  BY DEF TypeOK
<1>. HIDE DEF C
<1>2. CASE Commit
  BY <1>1, <1>2 DEF Commit, C
<1>3. CASE Amend
  <2>1. head # <<>> /\ MakeCommit(SubSeq(head, 1, Len(head) - 1), head[Len(head)].day)
    BY <1>3 DEF Amend
  <2>2. Len(head) \in 1 .. Len(head)
    BY <1>1, <2>1, EmptySeq
  <2>3. SubSeq(head, 1, Len(head) - 1) \in Seq(C) /\ Len(SubSeq(head, 1, Len(head) - 1)) = Len(head) - 1
        /\ \A i \in 1 .. Len(head) - 1 : SubSeq(head, 1, Len(head) - 1)[i] = head[i]
    <3>1. PICK n \in Nat : n = Len(head) - 1
      BY <1>1, <2>2
    <3>2. \A i \in 1 .. n : head[i] \in C
      BY <3>1, <1>1, ElementOfSeq
    <3>3. /\ SubSeq(head, 1, n) \in Seq(C) /\ Len(SubSeq(head, 1, n)) = IF 1 <= n THEN n - 1 + 1 ELSE 0
          /\ \A i \in 1 .. n - 1 + 1 : SubSeq(head, 1, n)[i] = head[1 + i - 1]
      BY <3>2, SubSeqProperties
    <3>. QED
      BY <3>1, <3>3
  <2>4. head[Len(head)].day \in Day
    BY <2>2, Parts
  <2>5. Len(head) - 1 <= Len(head)
    BY <1>1
  <2>. QED
    BY <2>1, <2>3, <2>4, <2>5 DEF C
<1>. QED
  BY <1>2, <1>3

LEMMA TypeStep == TypeOK /\ PresentInv /\ HistoryInv /\ [Next]_vars => TypeOK'
<1>. SUFFICES ASSUME TypeOK, PresentInv, HistoryInv, [Next]_vars
              PROVE  TypeOK'
  OBVIOUS
<1>1. CASE UNCHANGED vars
  BY <1>1 DEF vars, TypeOK, Run
<1>2. CASE Stop
  BY <1>2, StopTyped
<1>3. CASE Commit \/ Amend
  BY <1>3, Commits, CommitTyped
<1>4. ASSUME NEW c \in Concepts, NEW b \in Body, Edit(c, b)
      PROVE  TypeOK'
  BY <1>4, EditTyped
<1>5. ASSUME NEW t \in Concepts \union {Log}, Write(t)
      PROVE  TypeOK'
  BY <1>5, WriteTyped DEF Target
<1>6. CASE Sync
  BY <1>2, <1>5, <1>6, BeginTyped, WalkTyped, DateStagedTyped, MakePlanTyped, SnapshotTyped, MovesTyped, RestageTyped
     DEF Sync, Decline, Refuse, WriteFails, Finish
<1>7. CASE Outside
  BY <1>2, <1>3, <1>4, <1>7, EditLogTyped, DayTyped, AddTyped DEF Outside, Abandon
<1>. QED
  BY <1>1, <1>6, <1>7 DEF Next

----------------------------------------------------------------------------
(* What each step of a run does to the run. *)
LEMMA StopIs ==
  ASSUME Stop
  PROVE  /\ run' = Idle /\ run'.at = "idle" /\ run'.prov = NoPlan /\ run'.plan = NoPlan /\ run'.before = NoPlan
         /\ run'.loaded = Empty /\ run'.left = {} /\ DOMAIN NoPlan = {}
         /\ UNCHANGED <<agent, day, tree, index, head, acts, dated, slipped>>
BY IdleType DEF Stop

LEMMA BeginIs ==
  ASSUME NEW kind \in {"ordinary", "staged"}, Begin(kind)
  PROVE  /\ run'.at = "loaded" /\ run'.prov = NoPlan /\ run'.plan = NoPlan /\ run'.before = NoPlan /\ DOMAIN NoPlan = {}
         /\ run'.loaded = tree /\ run'.now = day /\ run'.left = {}
         /\ UNCHANGED <<agent, day, tree, index, head, acts, dated, slipped>>
BY IdleType DEF Begin, Idle

LEMMA RunIs ==
  ASSUME TypeOK
  PROVE  /\ Walk => /\ run.at = "loaded" /\ run'.at = "dated" /\ run'.prov = [c \in Walked(run.loaded) |-> GeneratedAt(c)]
                    /\ UNCHANGED <<run.now, run.loaded, run.plan, run.before, run.raced, run.left, run.kind>>
                    /\ UNCHANGED <<agent, day, tree, index, head, acts, dated>>
                    /\ slipped' = slipped \union {c \in Walked(run.loaded) : tree.file[c].body # run.loaded.file[c].body}
         /\ DateStaged => /\ run.at = "loaded" /\ run'.at = "dated"
                          /\ run'.prov = [c \in StagedConcepts |-> [day |-> run.now, creating |-> HeadFile(c) = Absent]]
                          /\ dated' = dated \union {<<c, run.loaded.file[c].body, run.now>> : c \in StagedConcepts}
                          /\ UNCHANGED <<run.now, run.loaded, run.plan, run.before, run.raced, run.left, run.kind>>
                          /\ UNCHANGED <<agent, day, tree, index, head, acts, slipped>>
         /\ MakePlan => /\ run.at = "dated" /\ run'.at = "planned"
                        /\ run'.plan = Plan(run.loaded, run.prov, run.logDirty)
                        /\ UNCHANGED <<run.now, run.loaded, run.prov, run.before, run.raced, run.left, run.kind>>
                        /\ UNCHANGED <<agent, day, tree, index, head, acts, dated, slipped>>
         /\ Snapshot => /\ run.at = "planned" /\ run'.at \in {"asking", "confirmed"}
                        /\ run'.before = [t \in DOMAIN run.plan |-> On(t)]
                        /\ UNCHANGED <<run.now, run.loaded, run.prov, run.plan, run.raced, run.left, run.kind>>
                        /\ UNCHANGED <<agent, day, tree, index, head, acts, dated, slipped>>
         /\ Confirm => /\ run.at = "asking" /\ run'.at = "confirmed"
                       /\ UNCHANGED <<run.now, run.loaded, run.prov, run.plan, run.before, run.raced, run.left, run.kind>>
                       /\ UNCHANGED <<agent, day, tree, index, head, acts, dated, slipped>>
         /\ Accept => /\ run.at = "confirmed" /\ run'.at = "writing" /\ run'.left = DOMAIN run.plan
                      /\ \A t \in DOMAIN run.plan : On(t) = run.before[t]
                      /\ UNCHANGED <<run.now, run.loaded, run.prov, run.plan, run.before, run.raced, run.kind>>
                      /\ UNCHANGED <<agent, day, tree, index, head, acts, dated, slipped>>
         /\ Restage => /\ run.at = "writing" /\ run'.at = "hooked" /\ run.left = {}
                       /\ UNCHANGED <<run.now, run.loaded, run.prov, run.plan, run.before, run.raced, run.left, run.kind>>
                       /\ UNCHANGED <<agent, day, tree, head, acts, dated, slipped>>
<1>. DEFINE walk == [c \in Walked(run.loaded) |-> GeneratedAt(c)]
            stage == [c \in StagedConcepts |-> [day |-> run.now, creating |-> HeadFile(c) = Absent]]
            plan == Plan(run.loaded, run.prov, run.logDirty)
            before == [t \in DOMAIN run.plan |-> On(t)]
<1>0. run \in Run
  BY DEF TypeOK
<1>1. Walk => run' = [run EXCEPT !.at = "dated", !.prov = walk]
  BY DEF Walk
<1>2. DateStaged => run' = [run EXCEPT !.at = "dated", !.logDirty = index.log # tree.log, !.prov = stage]
  BY DEF DateStaged
<1>3. MakePlan => run' = [run EXCEPT !.at = "planned", !.plan = plan]
  BY DEF MakePlan
<1>4. Snapshot => \E at \in {"asking", "confirmed"} : run' = [run EXCEPT !.at = at, !.before = before]
  BY DEF Snapshot
<1>. HIDE DEF walk, stage, plan, before
<1>5. Walk => /\ run'.at = "dated" /\ run'.prov = walk
              /\ UNCHANGED <<run.now, run.loaded, run.plan, run.before, run.raced, run.left, run.kind>>
  BY <1>0, <1>1 DEF Run
<1>6. DateStaged => /\ run'.at = "dated" /\ run'.prov = stage
                    /\ UNCHANGED <<run.now, run.loaded, run.plan, run.before, run.raced, run.left, run.kind>>
  BY <1>0, <1>2 DEF Run
<1>7. MakePlan => /\ run'.at = "planned" /\ run'.plan = plan
                  /\ UNCHANGED <<run.now, run.loaded, run.prov, run.before, run.raced, run.left, run.kind>>
  BY <1>0, <1>3 DEF Run
<1>8. Snapshot => /\ run'.at \in {"asking", "confirmed"} /\ run'.before = before
                  /\ UNCHANGED <<run.now, run.loaded, run.prov, run.plan, run.raced, run.left, run.kind>>
  BY <1>0, <1>4 DEF Run
<1>9. Confirm => /\ run'.at = "confirmed"
                 /\ UNCHANGED <<run.now, run.loaded, run.prov, run.plan, run.before, run.raced, run.left, run.kind>>
  BY <1>0 DEF Run, Confirm
<1>10. Accept => /\ run'.at = "writing" /\ run'.left = DOMAIN run.plan
                 /\ UNCHANGED <<run.now, run.loaded, run.prov, run.plan, run.before, run.raced, run.kind>>
  BY <1>0 DEF Run, Accept
<1>11. Restage => /\ run'.at = "hooked"
                  /\ UNCHANGED <<run.now, run.loaded, run.prov, run.plan, run.before, run.raced, run.left, run.kind>>
  BY <1>0 DEF Run, Restage
<1>12. Walk => /\ run.at = "loaded" /\ UNCHANGED <<agent, day, tree, index, head, acts, dated>>
               /\ slipped' = slipped \union {c \in Walked(run.loaded) : tree.file[c].body # run.loaded.file[c].body}
  BY DEF Walk
<1>13. DateStaged => /\ run.at = "loaded" /\ UNCHANGED <<agent, day, tree, index, head, acts, slipped>>
                     /\ dated' = dated \union {<<c, run.loaded.file[c].body, run.now>> : c \in StagedConcepts}
  BY DEF DateStaged
<1>14. MakePlan => run.at = "dated" /\ UNCHANGED <<agent, day, tree, index, head, acts, dated, slipped>>
  BY DEF MakePlan
<1>15. Snapshot => run.at = "planned" /\ UNCHANGED <<agent, day, tree, index, head, acts, dated, slipped>>
  BY DEF Snapshot
<1>16. Confirm => run.at = "asking" /\ UNCHANGED <<agent, day, tree, index, head, acts, dated, slipped>>
  BY DEF Confirm
<1>17. Accept => /\ run.at = "confirmed" /\ UNCHANGED <<agent, day, tree, index, head, acts, dated, slipped>>
                 /\ \A t \in DOMAIN run.plan : On(t) = run.before[t]
  BY DEF Accept, Stale
<1>18. Restage => run.at = "writing" /\ run.left = {} /\ UNCHANGED <<agent, day, tree, head, acts, dated, slipped>>
  BY DEF Restage
<1>. QED
  BY <1>5, <1>6, <1>7, <1>8, <1>9, <1>10, <1>11, <1>12, <1>13, <1>14, <1>15, <1>16, <1>17, <1>18
     DEF walk, stage, plan, before

LEMMA WriteIs ==
  ASSUME TypeOK, PresentInv, NEW t \in Target, Write(t)
  PROVE  /\ run.at = "writing" /\ run'.at = "writing" /\ t \in run.left /\ t \in DOMAIN run.plan /\ run'.left = run.left \ {t}
         /\ UNCHANGED <<run.now, run.loaded, run.prov, run.plan, run.before, run.raced, run.kind>>
         /\ UNCHANGED <<agent, day, index, head, acts, dated, slipped>>
         /\ IF t = Log THEN tree'.log = run.plan[t] /\ tree'.file = tree.file
            ELSE /\ tree'.log = tree.log /\ t \in Concepts /\ tree'.file[t] = run.plan[t] /\ run.plan[t] \in Text
                 /\ \A c \in Concepts : c # t => tree'.file[c] = tree.file[c]
<1>1. /\ run.at = "writing" /\ t \in run.left /\ run' = [run EXCEPT !.left = @ \ {t}]
      /\ tree' = IF t = Log THEN [tree EXCEPT !.log = run.plan[t]] ELSE [tree EXCEPT !.file[t] = run.plan[t]]
      /\ UNCHANGED <<agent, day, index, head, acts, dated, slipped>>
  BY DEF Write
<1>2. run \in Run /\ t \in DOMAIN run.plan /\ tree \in Tree
  BY <1>1 DEF TypeOK, Run
<1>3. IF t = Log THEN run.plan[t] \in LogText ELSE run.plan[t] \in Text /\ t \in Concepts
  BY <1>2 DEF PresentInv, Target
<1>4. /\ run'.at = "writing" /\ run'.left = run.left \ {t}
      /\ UNCHANGED <<run.now, run.loaded, run.prov, run.plan, run.before, run.raced, run.kind>>
  BY <1>1, <1>2 DEF Run
<1>. QED
  BY <1>1, <1>2, <1>3, <1>4, TreeWith

\* The cases of a step, by what they do to the run and the tree.
LEMMA Steps ==
  ASSUME [Next]_vars
  PROVE  \/ UNCHANGED vars
         \/ Stop
         \/ \E kind \in {"ordinary", "staged"} : Begin(kind)
         \/ Walk \/ DateStaged \/ MakePlan \/ Snapshot \/ Confirm \/ Accept \/ Restage
         \/ \E t \in Target : Write(t)
         \/ \E c \in Concepts, b \in Body : Edit(c, b)
         \/ EditLog
         \/ NextDay \/ (\E c \in Concepts : Add(c)) \/ AddLog
         \/ Commit \/ Amend
BY DEF Next, Sync, Outside, Decline, Refuse, WriteFails, Finish, Abandon, Target

\* Those who act on neither the tree nor the history.
LEMMA AsideIs ==
  ASSUME TypeOK, NextDay \/ (\E c \in Concepts : Add(c)) \/ AddLog
  PROVE  /\ UNCHANGED <<agent, tree, head, dated, slipped, run.at, run.prov, run.plan, run.before, run.left, run.loaded, run.now>>
         /\ run.raced \subseteq run'.raced
         /\ (run.at = "idle" => run' = run) /\ (run.at # "idle" => ~run'.calm)
<1>1. Acts({})
  BY DEF NextDay, Add, AddLog
<1>2. UNCHANGED <<agent, tree, head, dated, slipped>>
  BY DEF NextDay, Add, AddLog
<1>. QED
  BY <1>1, <1>2, ActTyped

LEMMA EditIs ==
  ASSUME TypeOK, NEW c \in Concepts, NEW b \in Body, Edit(c, b)
  PROVE  /\ UNCHANGED <<agent, day, index, head, dated, slipped, run.at, run.prov, run.plan, run.before, run.left, run.loaded, run.now>>
         /\ run.raced \subseteq run'.raced /\ (run.at \in Window => c \in run'.raced)
         /\ (run.at = "idle" => run' = run) /\ (run.at # "idle" => ~run'.calm)
         /\ tree'.log = tree.log /\ tree'.file[c] \in Text
         /\ tree'.file[c].stamp = tree.file[c].stamp /\ tree'.file[c].at = tree.file[c].at
         /\ \A e \in Concepts : e # c => tree'.file[e] = tree.file[e]
<1>1. Acts({c}) /\ UNCHANGED <<agent, day, index, head, dated, slipped>>
  BY DEF Edit
<1>2. PICK x : x = [tree.file[c] EXCEPT !.body = b]
  OBVIOUS
<1>3. tree' = [tree EXCEPT !.file[c] = x] /\ x \in Text
  BY <1>2, EditTyped
<1>4. x.stamp = tree.file[c].stamp /\ x.at = tree.file[c].at
  <2>1. tree.file[c] \in [body : Body \union {None}, stamp : Body \union {None}, at : Day \union {None}]
    BY Parts, Trees DEF Text, Absent
  <2>. QED
    BY <1>2, <2>1
<1>5. {c} \in SUBSET Target
  BY DEF Target
<1>6. /\ UNCHANGED <<run.at, run.prov, run.plan, run.before, run.left, run.loaded, run.now>>
      /\ run.raced \subseteq run'.raced /\ (run.at \in Window => c \in run'.raced)
      /\ (run.at = "idle" => run' = run) /\ (run.at # "idle" => ~run'.calm)
  BY <1>1, <1>5, ActTyped
<1>. QED
  BY <1>1, <1>3, <1>4, <1>6, Parts, TreeWith

LEMMA EditLogIs ==
  ASSUME TypeOK, EditLog
  PROVE  /\ UNCHANGED <<agent, day, index, head, dated, slipped, run.at, run.prov, run.plan, run.before, run.left, run.loaded, run.now>>
         /\ run.raced \subseteq run'.raced /\ (run.at \in Window => Log \in run'.raced)
         /\ (run.at = "idle" => run' = run) /\ (run.at # "idle" => ~run'.calm)
         /\ tree'.log.lines = tree.log.lines /\ tree'.file = tree.file
<1>1. Acts({Log}) /\ UNCHANGED <<agent, day, index, head, dated, slipped>>
  BY DEF EditLog
<1>2. {Log} \in SUBSET Target
  BY DEF Target
<1>. QED
  BY <1>1, <1>2, EditLogTyped, ActTyped

LEMMA CommitIs ==
  ASSUME TypeOK, Commit \/ Amend
  PROVE  /\ UNCHANGED <<agent, day, tree, index, acts, slipped>> /\ dated \subseteq dated'
         /\ IF run.at \in {"idle", "hooked"} THEN run' = Idle
            ELSE /\ ~run'.calm
                 /\ UNCHANGED <<run.at, run.kind, run.now, run.loaded, run.prov, run.plan, run.before, run.left, run.raced>>
BY Commits, CommitTyped

----------------------------------------------------------------------------
(* What a run read and would write is there. *)
LEMMA PresentStays ==
  ASSUME PresentInv, UNCHANGED <<run.at, run.prov, run.plan, run.left, run.loaded, run.now>>,
         run.at = "idle" => run' = run,
         \A c \in Concepts : tree.file[c] # Absent => tree'.file[c] # Absent
  PROVE  PresentInv'
BY DEF PresentInv, Present

LEMMA IdlePresent ==
  ASSUME run' = Idle
  PROVE  PresentInv'
BY IdleType, Trees DEF PresentInv, Present

LEMMA PresentStep == TypeOK /\ PresentInv /\ [Next]_vars => PresentInv'
<1>. SUFFICES ASSUME TypeOK, PresentInv, [Next]_vars
              PROVE  PresentInv'
  OBVIOUS
<1>0. IF run.at = "idle" THEN run = Idle ELSE run.now \in Day
  BY DEF PresentInv
<1>1. CASE UNCHANGED vars
  BY <1>1, PresentStays DEF vars
<1>2. CASE Stop \/ Commit \/ Amend
  BY <1>2, StopIs, CommitIs, IdlePresent, PresentStays
<1>3. ASSUME NEW kind \in {"ordinary", "staged"}, Begin(kind)
      PROVE  PresentInv'
  BY <1>3, BeginIs DEF PresentInv, Present, TypeOK
<1>4. CASE Walk \/ DateStaged
  <2>1. /\ run'.at = "dated" /\ run.at = "loaded" /\ UNCHANGED <<tree, run.now, run.loaded, run.plan, run.left>>
        /\ DOMAIN run'.prov = Walked(run.loaded) \/ DOMAIN run'.prov = StagedConcepts
    BY <1>4, RunIs
  <2>2. DOMAIN run'.prov \subseteq Present(run.loaded)
    BY <2>1 DEF Walked, StagedConcepts
  <2>. QED
    BY <2>1, <2>2, <1>0 DEF PresentInv, Present
<1>5. CASE MakePlan
  <2>1. /\ run'.at = "planned" /\ run.at = "dated" /\ UNCHANGED <<tree, run.now, run.loaded, run.prov, run.left>>
        /\ run'.plan = Plan(run.loaded, run.prov, run.logDirty)
    BY <1>5, RunIs
  <2>2. \A t \in DOMAIN run'.plan : IF t = Log THEN run'.plan[t] \in LogText ELSE run'.plan[t] \in Text
    BY <2>1, PlanParts
  <2>. QED
    BY <2>1, <2>2, <1>0 DEF PresentInv, Present
<1>6. CASE Snapshot \/ Confirm
  <2>1. /\ run'.at \in {"asking", "confirmed"} /\ run.at \in {"planned", "asking"}
        /\ UNCHANGED <<tree, run.now, run.loaded, run.plan, run.prov, run.left>>
    BY <1>6, RunIs
  <2>. QED
    BY <2>1, <1>0 DEF PresentInv, Present
<1>7. CASE Accept
  BY <1>7, <1>0, RunIs DEF PresentInv, Present
<1>8. CASE Restage
  BY <1>8, <1>0, RunIs DEF PresentInv, Present
<1>9. ASSUME NEW t \in Target, Write(t)
      PROVE  PresentInv'
  <2>1. \A c \in Concepts : tree.file[c] # Absent => tree'.file[c] # Absent
    BY <1>9, WriteIs, Texts
  <2>. QED
    BY <2>1, <1>9, <1>0, WriteIs DEF PresentInv, Present
<1>10. ASSUME NEW c \in Concepts, NEW b \in Body, Edit(c, b)
       PROVE  PresentInv'
  <2>1. \A e \in Concepts : tree.file[e] # Absent => tree'.file[e] # Absent
    BY <1>10, EditIs, Texts
  <2>. QED
    BY <2>1, <1>10, EditIs, PresentStays
<1>11. CASE EditLog
  BY <1>11, EditLogIs, PresentStays
<1>12. CASE NextDay \/ (\E c \in Concepts : Add(c)) \/ AddLog
  BY <1>12, AsideIs, PresentStays
<1>. QED
  BY <1>1, <1>2, <1>3, <1>4, <1>5, <1>6, <1>7, <1>8, <1>9, <1>10, <1>11, <1>12, Steps

----------------------------------------------------------------------------
(* The log names a concept once a day. *)
LEMMA MergedOnce ==
  ASSUME TypeOK, OnceEach(run.loaded.log)
  PROVE  OnceEach(Merged(run.loaded, Additions(run.loaded, run.prov)))
<1>. DEFINE l == run.loaded
            new == Additions(l, run.prov)
            merged == Merged(l, new)
<1>1. l.log \in LogText /\ new \in SUBSET Entry
  BY Parts, Trees, NewEntries
<1>2. \A e \in new :
        /\ e = [day |-> run.prov[e.concept].day, concept |-> e.concept, verb |-> Verb(run.prov[e.concept])]
        /\ \A f \in Named(l.log) : ~(f.day = e.day /\ f.concept = e.concept)
  BY DEF Additions, Wants
<1>. HIDE DEF new
<1>3. /\ \A e \in Entry : merged.lines[e] = l.log.lines[e] + IF e \in new THEN 1 ELSE 0
      /\ Named(merged) = Named(l.log) \union new
  BY <1>1, Lines
<1>. HIDE DEF merged
<1>4. ASSUME NEW e \in Entry
      PROVE  merged.lines[e] <= 1
  <2>1. l.log.lines[e] \in Nat /\ l.log.lines[e] <= 1
    BY <1>1 DEF LogText, OnceEach
  <2>2. e \in new => ~ l.log.lines[e] > 0
    BY <1>2 DEF Named
  <2>. QED
    BY <2>1, <2>2, <1>3
<1>5. \A e, f \in Named(merged) : (e.day = f.day /\ e.concept = f.concept) => e = f
  BY <1>2, <1>3 DEF OnceEach
<1>. QED
  BY <1>4, <1>5 DEF OnceEach, merged, new

LEMMA NamedStep == TypeOK /\ PresentInv /\ NamedInv /\ [Next]_vars => NamedInv'
<1>. SUFFICES ASSUME TypeOK, PresentInv, NamedInv, [Next]_vars
              PROVE  NamedInv'
  OBVIOUS
<1>1. ASSUME UNCHANGED <<run.plan, run.loaded>>, tree'.log.lines = tree.log.lines
      PROVE  NamedInv'
  BY <1>1 DEF NamedInv, OnceEach, Named
<1>2. CASE Stop \/ Commit \/ Amend
  <2>1. (run' = Idle \/ UNCHANGED <<run.plan, run.loaded>>) /\ tree' = tree
    BY <1>2, StopIs, CommitIs
  <2>2. ASSUME run' = Idle
        PROVE  NamedInv'
    <3>1. OnceEach(run'.loaded.log) /\ Log \notin DOMAIN run'.plan
      BY <2>2, IdleType, Trees
    <3>2. OnceEach(tree'.log)
      BY <2>1 DEF NamedInv
    <3>. QED
      BY <3>1, <3>2 DEF NamedInv, OnceEach, Named
  <2>. QED
    BY <2>1, <2>2, <1>1
<1>3. ASSUME NEW kind \in {"ordinary", "staged"}, Begin(kind)
      PROVE  NamedInv'
  BY <1>3, BeginIs DEF NamedInv, OnceEach, Named
<1>4. CASE MakePlan
  <2>1. run'.plan = Plan(run.loaded, run.prov, run.logDirty) /\ UNCHANGED <<tree, run.loaded>>
    BY <1>4, RunIs
  <2>2. Log \in DOMAIN run'.plan => run'.plan[Log] = Merged(run.loaded, Additions(run.loaded, run.prov))
    BY <2>1, Planned
  <2>. QED
    BY <2>1, <2>2, MergedOnce DEF NamedInv, OnceEach, Named
<1>5. ASSUME NEW t \in Target, Write(t)
      PROVE  NamedInv'
  BY <1>5, WriteIs DEF NamedInv, OnceEach, Named
<1>6. CASE UNCHANGED vars
  BY <1>6, <1>1 DEF vars
<1>7. CASE Walk \/ DateStaged \/ Snapshot \/ Confirm \/ Accept \/ Restage
  <2>1. UNCHANGED <<run.plan, run.loaded, tree>>
    BY <1>7, RunIs
  <2>. QED
    BY <2>1, <1>1
<1>8. ASSUME NEW c \in Concepts, NEW b \in Body, Edit(c, b)
      PROVE  NamedInv'
  BY <1>8, <1>1, EditIs
<1>9. CASE EditLog
  BY <1>9, <1>1, EditLogIs
<1>10. CASE NextDay \/ (\E c \in Concepts : Add(c)) \/ AddLog
  BY <1>10, <1>1, AsideIs
<1>. QED
  BY <1>2, <1>3, <1>4, <1>5, <1>6, <1>7, <1>8, <1>9, <1>10, Steps

----------------------------------------------------------------------------
(* The history: each committed body was brought on a day that is kept. *)
LEMMA HistoryStays ==
  ASSUME TypeOK, HistoryInv, head' = head, dated \subseteq dated'
  PROVE  HistoryInv'
BY DEF HistoryInv, Brought

LEMMA HistoryCommits ==
  ASSUME TypeOK, HistoryInv, Commit \/ Amend
  PROVE  HistoryInv'
<1>. DEFINE C == [file : Files, log : LogText, day : Day]
<1>1. PICK commits \in Seq(C), d \in Day :
           /\ MakeCommit(commits, d) /\ Len(commits) <= Len(head)
           /\ \A i \in 1 .. Len(commits) : commits[i] = head[i]
  BY Commits
<1>0. PICK m : m = Len(commits)
  OBVIOUS
<1>2. /\ m \in Nat /\ Len(head') = m + 1 /\ \A i \in 1 .. m : head'[i] = head[i]
      /\ head'[m + 1].day = d
      /\ dated' = dated \union Introduced(head', d)
  <2>1. /\ m \in Nat /\ Len(head') = m + 1 /\ \A i \in 1 .. m : head'[i] = commits[i]
        /\ head'[Len(head')] = [file |-> index.file, log |-> index.log, day |-> d]
        /\ dated' = dated \union Introduced(head', d)
    BY <1>0, <1>1, CommitTyped
  <2>. QED
    BY <2>1, <1>0, <1>1
<1>3. Len(head) \in Nat /\ m <= Len(head)
  BY <1>0, <1>1, Parts
<1>. HIDE DEF C
<1>4. ASSUME NEW c \in Concepts, NEW n \in 1 .. m, head'[n].file[c].body # None
      PROVE  \E i \in 1 .. n : Brought(c, i, n)'
  <2>1. n \in 1 .. Len(head) /\ \A i \in 1 .. n : i \in 1 .. m /\ head'[i] = head[i]
    BY <1>2, <1>3
  <2>2. head[n].file[c].body # None
    BY <1>4, <2>1
  <2>3. PICK i \in 1 .. n : Brought(c, i, n)
    BY <2>1, <2>2 DEF HistoryInv
  <2>4. head'[n] = head[n] /\ head'[i] = head[i] /\ \A j \in i .. n : head'[j] = head[j]
    BY <2>1, <1>2
  <2>5. i > 1 => head'[i - 1] = head[i - 1]
    BY <2>1, <1>2
  <2>6. \A j \in i .. n : head'[j].file[c].body = head'[n].file[c].body
    BY <2>3, <2>4 DEF Brought
  <2>7. i > 1 => head'[i - 1].file[c].body # head'[n].file[c].body
    BY <2>3, <2>4, <2>5 DEF Brought
  <2>8. <<c, head'[n].file[c].body, head'[i].day>> \in dated'
    BY <2>3, <2>4, <1>2 DEF Brought
  <2>9. Brought(c, i, n)'
    BY <2>6, <2>7, <2>8 DEF Brought
  <2>. QED
    BY <2>9
<1>5. ASSUME NEW c \in Concepts, head'[m + 1].file[c].body # None
      PROVE  \E i \in 1 .. m + 1 : Brought(c, i, m + 1)'
  <2>. DEFINE b == head'[m + 1].file[c].body
              before == IF m + 1 = 1 THEN None ELSE head'[m + 1 - 1].file[c].body
  <2>1. CASE b # before
    <3>1. <<c, b, d>> \in Introduced(head', d)
      BY <2>1, <1>2, <1>5 DEF Introduced
    <3>2. /\ \A j \in m + 1 .. m + 1 : head'[j].file[c].body = head'[m + 1].file[c].body
          /\ m + 1 > 1 => head'[m + 1 - 1].file[c].body # head'[m + 1].file[c].body
          /\ <<c, head'[m + 1].file[c].body, head'[m + 1].day>> \in dated'
      BY <3>1, <2>1, <1>2
    <3>3. m + 1 \in 1 .. m + 1
      BY <1>2
    <3>4. Brought(c, m + 1, m + 1)'
      <4>1. PICK k \in Nat : k = m + 1
        BY <1>2
      <4>2. /\ \A j \in k .. k : head'[j].file[c].body = head'[k].file[c].body
            /\ k > 1 => head'[k - 1].file[c].body # head'[k].file[c].body
            /\ <<c, head'[k].file[c].body, head'[k].day>> \in dated'
        BY <3>2, <4>1, <1>2
      <4>3. Brought(c, k, k)'
        BY <4>2 DEF Brought
      <4>. QED
        BY <4>1, <4>3
    <3>. QED
      BY <3>3, <3>4
  <2>2. CASE b = before
    <3>1. m \in 1 .. m /\ head'[m].file[c].body = b
      BY <2>2, <1>2, <1>5
    <3>2. PICK i \in 1 .. m : Brought(c, i, m)'
      BY <3>1, <1>4, <1>5
    <3>3. /\ \A j \in i .. m : head'[j].file[c].body = b
          /\ i > 1 => head'[i - 1].file[c].body # b
          /\ <<c, b, head'[i].day>> \in dated'
      BY <3>1, <3>2 DEF Brought
    <3>4. \A j \in i .. m + 1 : head'[j].file[c].body = b
      <4>1. \A j \in i .. m + 1 : j = m + 1 \/ j \in i .. m
        BY <1>2
      <4>. QED
        BY <4>1, <3>3
    <3>5. i \in 1 .. m + 1
      BY <1>2
    <3>. QED
      <4>1. Brought(c, i, m + 1)'
        BY <3>3, <3>4 DEF Brought
      <4>. QED
        BY <3>5, <4>1
  <2>. QED
    BY <2>1, <2>2
<1>6. ASSUME NEW c \in Concepts, NEW n \in 1 .. Len(head'), head'[n].file[c].body # None
      PROVE  \E i \in 1 .. n : Brought(c, i, n)'
  <2>1. n \in 1 .. m \/ n = m + 1
    BY <1>2
  <2>. QED
    BY <2>1, <1>4, <1>5, <1>6
<1>. QED
  BY <1>6 DEF HistoryInv

LEMMA HistoryStep == TypeOK /\ PresentInv /\ HistoryInv /\ [Next]_vars => HistoryInv'
<1>. SUFFICES ASSUME TypeOK, PresentInv, HistoryInv, [Next]_vars
              PROVE  HistoryInv'
  OBVIOUS
<1>1. CASE Commit \/ Amend
  BY <1>1, HistoryCommits
<1>2. CASE UNCHANGED vars
  BY <1>2, HistoryStays DEF vars
<1>3. CASE Stop \/ (\E kind \in {"ordinary", "staged"} : Begin(kind)) \/ (\E t \in Target : Write(t))
  BY <1>3, StopIs, BeginIs, WriteIs, HistoryStays
<1>4. CASE Walk \/ DateStaged \/ MakePlan \/ Snapshot \/ Confirm \/ Accept \/ Restage
  <2>1. head' = head /\ dated \subseteq dated'
    BY <1>4, RunIs
  <2>. QED
    BY <2>1, HistoryStays
<1>5. ASSUME NEW c \in Concepts, NEW b \in Body, Edit(c, b)
      PROVE  HistoryInv'
  BY <1>5, EditIs, HistoryStays
<1>6. CASE EditLog \/ NextDay \/ (\E c \in Concepts : Add(c)) \/ AddLog
  BY <1>6, EditLogIs, AsideIs, HistoryStays
<1>. QED
  BY <1>1, <1>2, <1>3, <1>4, <1>5, <1>6, Steps

----------------------------------------------------------------------------
(* What is planned from, compared with and written over is one text, unless raced. *)
LEMMA RaceStep == TypeOK /\ PresentInv /\ RaceInv /\ [Next]_vars => RaceInv'
<1>. SUFFICES ASSUME TypeOK, PresentInv, RaceInv, [Next]_vars
              PROVE  RaceInv'
  OBVIOUS
<1>0. /\ run.at \in {"loaded", "dated", "planned"} => \A t \in Target \ run.raced : On(t) = Loaded(t)
      /\ run.at \in {"asking", "confirmed"} =>
           /\ DOMAIN run.before = DOMAIN run.plan
           /\ \A t \in DOMAIN run.plan \ run.raced : run.before[t] = Loaded(t)
      /\ run.at = "writing" => \A t \in run.left \ run.raced : On(t) = Loaded(t)
      /\ Log \in DOMAIN run.plan \ run.raced => run.plan[Log].prose = run.loaded.log.prose
  BY DEF RaceInv
<1>a. DOMAIN run.plan \subseteq Target /\ (run.at = "writing" => run.left \subseteq Target)
  BY DEF TypeOK, Run
\* Whoever acts from outside.
<1>1. ASSUME UNCHANGED <<run.at, run.plan, run.before, run.loaded, run.left>>, run.raced \subseteq run'.raced,
             \A t \in Target \ run'.raced : run.at \in Window => On(t)' = On(t)
      PROVE  RaceInv'
  <2>1. \A t : Loaded(t)' = Loaded(t)
    BY <1>1 DEF Loaded
  <2>2. run.at \in {"loaded", "dated", "planned", "writing"} => run.at \in Window
    BY DEF Window
  <2>. QED
    BY <1>1, <2>1, <2>2, <1>0, <1>a DEF RaceInv
<1>2. CASE Stop \/ Commit \/ Amend
  <2>1. \/ run'.at = "idle" /\ run'.plan = NoPlan
        \/ UNCHANGED <<run.at, run.plan, run.before, run.loaded, run.left, run.raced, tree>>
    BY <1>2, StopIs, CommitIs, IdleType
  <2>2. CASE run'.at = "idle" /\ run'.plan = NoPlan
    BY <2>2, IdleType DEF RaceInv
  <2>3. CASE UNCHANGED <<run.at, run.plan, run.before, run.loaded, run.left, run.raced, tree>>
    BY <2>3, <1>1 DEF On
  <2>. QED
    BY <2>1, <2>2, <2>3
<1>3. ASSUME NEW kind \in {"ordinary", "staged"}, Begin(kind)
      PROVE  RaceInv'
  BY <1>3, BeginIs DEF RaceInv, On, Loaded
<1>4. CASE Walk \/ DateStaged
  <2>1. run.at = "loaded" /\ run'.at = "dated" /\ UNCHANGED <<run.loaded, run.plan, run.raced, tree>>
    BY <1>4, RunIs
  <2>. QED
    BY <2>1, <1>0 DEF RaceInv, On, Loaded
<1>5. CASE MakePlan
  <2>1. /\ run.at = "dated" /\ run'.at = "planned" /\ UNCHANGED <<run.loaded, run.raced, tree>>
        /\ run'.plan = Plan(run.loaded, run.prov, run.logDirty)
    BY <1>5, RunIs
  <2>2. Log \in DOMAIN run'.plan => run'.plan[Log] = Merged(run.loaded, Additions(run.loaded, run.prov))
    BY <2>1, Planned
  <2>3. Log \notin run.raced => tree.log = run.loaded.log
    BY <2>1, <1>0 DEF On, Loaded, Target
  <2>4. tree.log = run.loaded.log =>
          Merged(run.loaded, Additions(run.loaded, run.prov)).prose = run.loaded.log.prose
    BY DEF Merged
  <2>. QED
    BY <2>1, <2>2, <2>3, <2>4, <1>0 DEF RaceInv, On, Loaded
<1>6. CASE Snapshot
  <2>1. /\ run.at = "planned" /\ run'.at \in {"asking", "confirmed"}
        /\ run'.before = [t \in DOMAIN run.plan |-> On(t)] /\ UNCHANGED <<run.plan, run.raced, run.loaded, tree>>
    BY <1>6, RunIs
  <2>2. DOMAIN run'.before = DOMAIN run'.plan /\ \A t \in DOMAIN run.plan : run'.before[t] = On(t)
    BY <2>1
  <2>3. \A t : Loaded(t)' = Loaded(t)
    BY <2>1 DEF Loaded
  <2>. QED
    BY <2>1, <2>2, <2>3, <1>0, <1>a DEF RaceInv
<1>7. CASE Confirm
  <2>1. /\ run.at = "asking" /\ run'.at = "confirmed"
        /\ UNCHANGED <<run.plan, run.before, run.raced, run.loaded, tree>>
    BY <1>7, RunIs
  <2>2. \A t : Loaded(t)' = Loaded(t)
    BY <2>1 DEF Loaded
  <2>. QED
    BY <2>1, <2>2, <1>0 DEF RaceInv
<1>8. CASE Accept
  <2>1. /\ run.at = "confirmed" /\ run'.at = "writing"
        /\ UNCHANGED <<run.plan, run.before, run.raced, run.loaded, tree>>
        /\ run'.left = DOMAIN run.plan /\ \A t \in DOMAIN run.plan : On(t) = run.before[t]
    BY <1>8, RunIs
  <2>2. \A t : Loaded(t)' = Loaded(t) /\ On(t)' = On(t)
    BY <2>1 DEF Loaded, On
  <2>. QED
    BY <2>1, <2>2, <1>0 DEF RaceInv
<1>9. CASE Restage
  <2>1. run'.at = "hooked" /\ UNCHANGED <<run.plan, run.raced, run.loaded>>
    BY <1>9, RunIs
  <2>. QED
    BY <2>1, <1>0 DEF RaceInv
<1>10. ASSUME NEW t \in Target, Write(t)
       PROVE  RaceInv'
  <2>1. /\ run.at = "writing" /\ run'.at = "writing" /\ run'.left = run.left \ {t}
        /\ UNCHANGED <<run.plan, run.raced, run.loaded>>
    BY <1>10, WriteIs
  <2>2. \A u \in Target : Loaded(u)' = Loaded(u) /\ (u # t => On(u)' = On(u))
    BY <2>1, <1>10, WriteIs DEF Loaded, On, Target
  <2>. QED
    BY <2>1, <2>2, <1>0, <1>a DEF RaceInv
<1>11. CASE UNCHANGED vars
  BY <1>11, <1>1 DEF vars, On
<1>12. ASSUME NEW c \in Concepts, NEW b \in Body, Edit(c, b)
       PROVE  RaceInv'
  <2>1. \A t \in Target \ run'.raced : run.at \in Window => On(t)' = On(t)
    BY <1>12, EditIs DEF On, Target
  <2>. QED
    BY <1>12, <1>1, <2>1, EditIs
<1>13. CASE EditLog
  <2>1. \A t \in Target \ run'.raced : run.at \in Window => On(t)' = On(t)
    BY <1>13, EditLogIs DEF On, Target
  <2>. QED
    BY <1>13, <1>1, <2>1, EditLogIs
<1>14. CASE NextDay \/ (\E c \in Concepts : Add(c)) \/ AddLog
  BY <1>14, <1>1, AsideIs DEF On
<1>. QED
  BY <1>2, <1>3, <1>4, <1>5, <1>6, <1>7, <1>8, <1>9, <1>10, <1>11, <1>12, <1>13, <1>14, Steps

----------------------------------------------------------------------------
(* A recorded digest has a date on which that body was committed or staged. *)
LEMMA DatesKept ==
  ASSUME NEW c, NEW t, Dates(c, t), dated \subseteq dated'
  PROVE  \A s : (s.stamp = t.stamp /\ s.at = t.at) => Dates(c, s)'
BY DEF Dates

LEMMA StampDates ==
  ASSUME TypeOK, PresentInv, NEW c \in Restamped(run.loaded, run.prov)
  PROVE  /\ c \in DOMAIN run.prov /\ run.prov[c] # Uncommitted
         /\ Stamp(run.loaded, c, run.prov[c]).stamp = run.loaded.file[c].body
         /\ Stamp(run.loaded, c, run.prov[c]).at = run.prov[c].day
<1>1. c \in DOMAIN run.prov /\ run.prov[c] # Uncommitted
  BY DEF Restamped
<1>2. c \in Concepts
  BY <1>1 DEF TypeOK
<1>3. tree.file[c] \in [body : Body \union {None}, stamp : Body \union {None}, at : Day \union {None}]
  BY <1>2, Parts, Trees DEF Text, Absent
<1>4. PICK s, a : s = run.loaded.file[c].body /\ a = run.prov[c].day
  OBVIOUS
<1>5. [tree.file[c] EXCEPT !.stamp = s, !.at = a].stamp = s /\ [tree.file[c] EXCEPT !.stamp = s, !.at = a].at = a
  BY <1>3
<1>. QED
  BY <1>1, <1>4, <1>5 DEF Stamp

LEMMA DatesStep == TypeOK /\ PresentInv /\ HistoryInv /\ DatesInv /\ [Next]_vars => DatesInv'
<1>. SUFFICES ASSUME TypeOK, PresentInv, HistoryInv, DatesInv, [Next]_vars
              PROVE  DatesInv'
  OBVIOUS
<1>0. /\ \A c \in Concepts \ slipped : Dates(c, tree.file[c])
      /\ \A c \in DOMAIN run.prov \ slipped :
           run.prov[c] # Uncommitted => <<c, run.loaded.file[c].body, run.prov[c].day>> \in dated
      /\ \A c \in DOMAIN run.plan \ ({Log} \union slipped) : Dates(c, run.plan[c])
  BY DEF DatesInv
<1>. DEFINE InTree == \A c \in Concepts \ slipped : Dates(c, tree.file[c])
            InProv == \A c \in DOMAIN run.prov \ slipped :
                        run.prov[c] # Uncommitted => <<c, run.loaded.file[c].body, run.prov[c].day>> \in dated
            InPlan == \A c \in DOMAIN run.plan \ ({Log} \union slipped) : Dates(c, run.plan[c])
<1>a. slipped \subseteq slipped'
  <2>1. CASE Walk \/ DateStaged \/ MakePlan \/ Snapshot \/ Confirm \/ Accept \/ Restage
    BY <2>1, RunIs
  <2>2. CASE UNCHANGED vars \/ Stop \/ (\E kind \in {"ordinary", "staged"} : Begin(kind))
    BY <2>2, StopIs, BeginIs DEF vars
  <2>3. CASE \E t \in Target : Write(t)
    BY <2>3, WriteIs
  <2>4. CASE (\E c \in Concepts, b \in Body : Edit(c, b)) \/ EditLog
    BY <2>4, EditIs, EditLogIs
  <2>5. CASE NextDay \/ (\E c \in Concepts : Add(c)) \/ AddLog \/ Commit \/ Amend
    BY <2>5, AsideIs, CommitIs
  <2>. QED
    BY <2>1, <2>2, <2>3, <2>4, <2>5, Steps
<1>1. dated \subseteq dated' /\ tree' = tree => InTree'
  BY <1>0, <1>a DEF Dates
<1>2. dated \subseteq dated' /\ run'.prov = run.prov /\ run'.loaded = run.loaded => InProv'
  BY <1>0, <1>a
<1>3. dated \subseteq dated' /\ run'.plan = run.plan => InPlan'
  BY <1>0, <1>a DEF Dates
<1>4. InTree' /\ InProv' /\ InPlan' => DatesInv'
  BY DEF DatesInv
<1>5. CASE Stop \/ Commit \/ Amend
  <2>1. /\ tree' = tree /\ dated \subseteq dated'
        /\ run' = Idle \/ UNCHANGED <<run.loaded, run.prov, run.plan>>
    BY <1>5, StopIs, CommitIs
  <2>2. run' = Idle => DOMAIN run'.prov = {} /\ DOMAIN run'.plan = {}
    BY <2>1, IdleType
  <2>. QED
    BY <2>1, <2>2, <1>1, <1>2, <1>3, <1>4
<1>6. ASSUME NEW kind \in {"ordinary", "staged"}, Begin(kind)
      PROVE  DatesInv'
  BY <1>6, <1>1, <1>4, BeginIs
<1>7. CASE Walk
  <2>1. /\ run.at = "loaded" /\ run'.prov = [c \in Walked(run.loaded) |-> GeneratedAt(c)]
        /\ UNCHANGED <<run.loaded, run.plan, tree, dated>>
        /\ slipped' = slipped \union {c \in Walked(run.loaded) : tree.file[c].body # run.loaded.file[c].body}
    BY <1>7, RunIs
  <2>3. ASSUME NEW c \in Walked(run.loaded), GeneratedAt(c) # Uncommitted, c \notin slipped'
        PROVE  <<c, run.loaded.file[c].body, GeneratedAt(c).day>> \in dated
    <3>1. c \in Concepts /\ tree.file[c] # Absent /\ tree.file[c].body = run.loaded.file[c].body
      BY <2>1, <2>3 DEF Walked, Present, PresentInv
    <3>. QED
      BY <3>1, <2>3, Provenances
  <2>4. DOMAIN run'.prov = Walked(run.loaded) /\ \A c \in Walked(run.loaded) : run'.prov[c] = GeneratedAt(c)
    BY <2>1
  <2>. QED
    BY <2>1, <2>3, <2>4, <1>1, <1>3, <1>4
<1>8. CASE DateStaged
  <2>1. /\ run'.prov = [c \in StagedConcepts |-> [day |-> run.now, creating |-> HeadFile(c) = Absent]]
        /\ dated' = dated \union {<<c, run.loaded.file[c].body, run.now>> : c \in StagedConcepts}
        /\ UNCHANGED <<run.loaded, run.plan, tree>>
    BY <1>8, RunIs
  <2>2. DOMAIN run'.prov = StagedConcepts /\ \A c \in StagedConcepts : run'.prov[c].day = run.now
    BY <2>1
  <2>3. InProv'
    BY <2>1, <2>2
  <2>. QED
    BY <2>1, <2>3, <1>1, <1>3, <1>4
<1>9. CASE MakePlan
  <2>1. /\ run'.plan = Plan(run.loaded, run.prov, run.logDirty)
        /\ UNCHANGED <<run.loaded, run.prov, tree, dated>>
    BY <1>9, RunIs
  <2>2. ASSUME NEW c \in DOMAIN run'.plan \ ({Log} \union slipped')
        PROVE  Dates(c, run'.plan[c])
    <3>1. c \in Restamped(run.loaded, run.prov) /\ run'.plan[c] = Stamp(run.loaded, c, run.prov[c])
      BY <2>1, Planned
    <3>2. /\ c \in DOMAIN run.prov /\ run.prov[c] # Uncommitted
          /\ run'.plan[c].stamp = run.loaded.file[c].body /\ run'.plan[c].at = run.prov[c].day
      BY <3>1, StampDates
    <3>. QED
      BY <3>2, <1>0, <1>a DEF Dates
  <2>3. InPlan'
    BY <2>1, <2>2 DEF Dates
  <2>. QED
    BY <2>1, <2>3, <1>1, <1>2, <1>4
<1>10. CASE Snapshot \/ Confirm \/ Accept \/ Restage
  <2>1. UNCHANGED <<run.loaded, run.prov, run.plan, tree, dated>>
    BY <1>10, RunIs
  <2>. QED
    BY <2>1, <1>1, <1>2, <1>3, <1>4
<1>11. ASSUME NEW t \in Target, Write(t)
       PROVE  DatesInv'
  <2>1. UNCHANGED <<run.loaded, run.prov, run.plan, dated>> /\ t \in DOMAIN run.plan
    BY <1>11, WriteIs
  <2>2. ASSUME NEW c \in Concepts \ slipped'
        PROVE  Dates(c, tree'.file[c])
    <3>1. tree'.file[c] = tree.file[c] \/ (c = t /\ t # Log /\ tree'.file[c] = run.plan[t])
      BY <1>11, WriteIs
    <3>. QED
      BY <3>1, <2>1, <1>0, <1>a
  <2>3. InTree'
    BY <2>1, <2>2 DEF Dates
  <2>. QED
    BY <2>1, <2>3, <1>2, <1>3, <1>4
<1>12. CASE UNCHANGED vars
  BY <1>12, <1>1, <1>2, <1>3, <1>4 DEF vars
<1>13. ASSUME NEW c \in Concepts, NEW b \in Body, Edit(c, b)
       PROVE  DatesInv'
  <2>1. /\ UNCHANGED <<run.loaded, run.prov, run.plan, dated>>
        /\ tree'.file[c].stamp = tree.file[c].stamp /\ tree'.file[c].at = tree.file[c].at
        /\ \A e \in Concepts : e # c => tree'.file[e] = tree.file[e]
    BY <1>13, EditIs
  <2>2. InTree'
    BY <2>1, <1>0, <1>a DEF Dates
  <2>. QED
    BY <2>1, <2>2, <1>2, <1>3, <1>4
<1>14. CASE EditLog
  <2>1. UNCHANGED <<run.loaded, run.prov, run.plan, dated>> /\ tree'.file = tree.file
    BY <1>14, EditLogIs
  <2>2. InTree'
    BY <2>1, <1>0, <1>a DEF Dates
  <2>. QED
    BY <2>1, <2>2, <1>2, <1>3, <1>4
<1>15. CASE NextDay \/ (\E c \in Concepts : Add(c)) \/ AddLog
  <2>1. UNCHANGED <<run.loaded, run.prov, run.plan, tree, dated>>
    BY <1>15, AsideIs
  <2>. QED
    BY <2>1, <1>1, <1>2, <1>3, <1>4
<1>. QED
  BY <1>5, <1>6, <1>7, <1>8, <1>9, <1>10, <1>11, <1>12, <1>13, <1>14, <1>15, Steps

----------------------------------------------------------------------------
(* The course of a run that nobody disturbs. *)
LEMMA CalmIs ==
  ASSUME TypeOK
  PROVE  /\ (Walk \/ MakePlan \/ Snapshot \/ Confirm \/ Accept \/ Restage \/ \E t \in Target : Write(t)) =>
              UNCHANGED <<run.calm, run.logDirty>>
         /\ Walk => run.kind = "ordinary"
         /\ DateStaged => /\ run.kind = "staged" /\ run'.calm = run.calm
                          /\ run'.logDirty \/ index.log = tree.log
         /\ Restage => run.kind = "staged" /\ index' = Restaged
<1>. DEFINE walk == [c \in Walked(run.loaded) |-> GeneratedAt(c)]
            stage == [c \in StagedConcepts |-> [day |-> run.now, creating |-> HeadFile(c) = Absent]]
            plan == Plan(run.loaded, run.prov, run.logDirty)
            before == [t \in DOMAIN run.plan |-> On(t)]
<1>0. run \in Run
  BY DEF TypeOK
<1>1. Walk => run' = [run EXCEPT !.at = "dated", !.prov = walk]
  BY DEF Walk
<1>2. PICK dirty \in BOOLEAN : dirty <=> index.log # tree.log
  OBVIOUS
<1>3. DateStaged => run' = [run EXCEPT !.at = "dated", !.logDirty = dirty, !.prov = stage]
  <2>1. dirty = (index.log # tree.log)
    BY <1>2
  <2>. QED
    BY <2>1 DEF DateStaged
<1>4. MakePlan => run' = [run EXCEPT !.at = "planned", !.plan = plan]
  BY DEF MakePlan
<1>5. Snapshot => \E at \in {"asking", "confirmed"} : run' = [run EXCEPT !.at = at, !.before = before]
  BY DEF Snapshot
<1>. HIDE DEF walk, stage, plan, before
<1>6. Walk \/ MakePlan \/ Snapshot => UNCHANGED <<run.calm, run.logDirty>>
  BY <1>0, <1>1, <1>4, <1>5 DEF Run
<1>7. DateStaged => run'.calm = run.calm /\ (run'.logDirty \/ index.log = tree.log)
  BY <1>0, <1>2, <1>3 DEF Run
<1>8. Confirm \/ Accept \/ Restage => UNCHANGED <<run.calm, run.logDirty>>
  BY <1>0 DEF Run, Confirm, Accept, Restage
<1>9. (\E t \in Target : Write(t)) => UNCHANGED <<run.calm, run.logDirty>>
  BY <1>0 DEF Run, Write
<1>10. /\ Walk => run.kind = "ordinary"
       /\ DateStaged => run.kind = "staged"
       /\ Restage => run.kind = "staged" /\ index' = Restaged
  BY DEF Walk, DateStaged, Restage
<1>. QED
  BY <1>6, <1>7, <1>8, <1>9, <1>10

\* A provenance depends on the body and the history alone.
LEMMA SameProvenance ==
  ASSUME NEW c, tree'.file[c].body = tree.file[c].body, head' = head
  PROVE  GeneratedAt(c)' = GeneratedAt(c)
<1>1. SinceBody(c)' = SinceBody(c) /\ HeadFile(c)' = HeadFile(c)
  BY DEF SinceBody, HeadFile, Committed
<1>. QED
  BY <1>1 DEF GeneratedAt

\* A plan made from what is there stamps all that is due, and names all that is new.
LEMMA PlansAll ==
  ASSUME TypeOK, PresentInv, tree = run.loaded
  PROVE  Complete(run.loaded, run.prov, Plan(run.loaded, run.prov, run.logDirty), run.logDirty)
<1>. DEFINE l == run.loaded
            prov == run.prov
            new == Additions(l, prov)
            merged == Merged(l, new)
            p == Plan(l, prov, run.logDirty)
<1>1. DOMAIN p = Restamped(l, prov) \union IF run.logDirty \/ merged = tree.log THEN {} ELSE {Log}
  BY DEF Plan
<1>2. \A t \in DOMAIN p : p[t] = IF t = Log THEN merged ELSE Stamp(l, t, prov[t])
  BY Planned
<1>3. Named(merged) = Named(l.log) \union new
  <2>1. l.log \in LogText /\ new \in SUBSET Entry
    BY Parts, Trees, NewEntries
  <2>. QED
    BY <2>1, Lines
<1>4. merged = tree.log => new \subseteq Named(l.log)
  BY <1>3
<1>5. Restamped(l, prov) = Due(l, prov)
  <2>1. ASSUME NEW c \in DOMAIN prov, ~Stamped(l.file[c])
        PROVE  Stamp(l, c, prov[c]) # tree.file[c]
    <3>1. c \in Concepts
      BY DEF TypeOK
    <3>2. tree.file[c] \in [body : Body \union {None}, stamp : Body \union {None}, at : Day \union {None}]
      BY <3>1, Parts, Trees DEF Text, Absent
    <3>3. PICK s, a : s = l.file[c].body /\ a = prov[c].day
      OBVIOUS
    <3>4. [tree.file[c] EXCEPT !.stamp = s, !.at = a].stamp = s
      BY <3>2
    <3>. QED
      BY <2>1, <3>3, <3>4 DEF Stamp, Stamped
  <2>. QED
    BY <2>1 DEF Restamped, Due
<1>6. ASSUME NEW c \in Due(l, prov)
      PROVE  /\ c \in Concepts /\ c # Log
             /\ Stamp(l, c, prov[c]).body = l.file[c].body /\ Stamped(Stamp(l, c, prov[c]))
             /\ Stamp(l, c, prov[c]).at = prov[c].day
  <2>1. c \in Concepts
    BY DEF Due, TypeOK
  <2>2. tree.file[c] \in [body : Body \union {None}, stamp : Body \union {None}, at : Day \union {None}]
    BY <2>1, Parts, Trees DEF Text, Absent
  <2>3. PICK s, a : s = l.file[c].body /\ a = prov[c].day
    OBVIOUS
  <2>4. PICK n : n = [tree.file[c] EXCEPT !.stamp = s, !.at = a]
    OBVIOUS
  <2>5. n.body = tree.file[c].body /\ n.stamp = s /\ n.at = a
    BY <2>2, <2>4
  <2>6. n = Stamp(l, c, prov[c])
    BY <2>3, <2>4 DEF Stamp
  <2>. QED
    BY <2>1, <2>3, <2>5, <2>6, LogAssumption DEF Stamped
<1>. HIDE DEF p, new, merged
<1>7. DOMAIN p \ {Log} = Due(l, prov)
  BY <1>1, <1>5, <1>6
<1>8. \A c \in DOMAIN p \ {Log} : p[c].body = l.file[c].body /\ Stamped(p[c]) /\ p[c].at = prov[c].day
  BY <1>2, <1>6, <1>7
<1>9. IF Log \in DOMAIN p THEN Named(p[Log]) = Named(l.log) \union new
      ELSE run.logDirty \/ new \subseteq Named(l.log)
  BY <1>1, <1>2, <1>3, <1>4
<1>. QED
  BY <1>7, <1>8, <1>9 DEF Complete, p, new

LEMMA CourseStep == TypeOK /\ PresentInv /\ CourseInv /\ [Next]_vars => CourseInv'
<1>. SUFFICES ASSUME TypeOK, PresentInv, CourseInv, [Next]_vars, run'.calm, run'.at # "idle"
              PROVE  CourseInv'
  BY DEF CourseInv
<1>. DEFINE Calm == run.calm /\ run.at # "idle"
            Complete1 == Complete(run.loaded, run.prov, run.plan, run.logDirty)
            Dated1 == DOMAIN run.prov = Walked(run.loaded) /\ \A c \in Walked(run.loaded) : run.prov[c] = GeneratedAt(c)
<1>0. Calm =>
        /\ run.at \notin {"writing", "hooked"} => tree = run.loaded
        /\ run.at \in {"writing", "hooked"} => \A t \in Target : On(t) = Left(t)
        /\ run.kind = "ordinary" => ~run.logDirty
        /\ (run.at # "loaded" /\ run.kind = "ordinary") => Dated1
        /\ run.at \notin {"loaded", "dated"} => Complete1
        /\ (run.at \notin {"loaded", "hooked"} /\ run.kind = "staged") => run.logDirty \/ index.log = run.loaded.log
        /\ run.at = "hooked" =>
             /\ \A c \in DOMAIN run.plan \ {Log} : index.file[c] = tree.file[c]
             /\ run.logDirty \/ index.log = tree.log
  BY DEF CourseInv
<1>1. UNCHANGED <<run.loaded, run.prov, run.plan, run.logDirty, agent>> => Complete1' = Complete1
  BY DEF Complete, Due, Additions, Wants, Stamped, Verb
<1>2. UNCHANGED <<run.loaded, run.prov, tree, head>> => Dated1' = Dated1
  <2>. SUFFICES ASSUME UNCHANGED <<run.loaded, run.prov, tree, head>>
                PROVE  Dated1' = Dated1
    OBVIOUS
  <2>1. \A c : GeneratedAt(c)' = GeneratedAt(c)
    BY SameProvenance
  <2>. QED
    BY <2>1
<1>3. CASE UNCHANGED vars
  <2>1. Dated1' = Dated1 /\ Complete1' = Complete1 /\ \A t \in Target : On(t)' = On(t) /\ Left(t)' = Left(t)
    BY <1>3, <1>1, <1>2 DEF vars, On, Left, Loaded
  <2>. QED
    BY <2>1, <1>0, <1>3 DEF CourseInv, vars
<1>4. CASE Stop \/ Commit \/ Amend
  BY <1>4, StopIs, CommitIs, IdleType
<1>5. ASSUME NEW kind \in {"ordinary", "staged"}, Begin(kind)
      PROVE  CourseInv'
  <2>1. run'.logDirty = FALSE
    BY <1>5 DEF Begin, Idle
  <2>. QED
    BY <2>1, <1>5, BeginIs DEF CourseInv
<1>6. CASE Walk
  <2>1. /\ run.at = "loaded" /\ run'.at = "dated" /\ run'.prov = [c \in Walked(run.loaded) |-> GeneratedAt(c)]
        /\ run.kind = "ordinary" /\ UNCHANGED <<run.calm, run.logDirty, run.kind, run.loaded, tree, head, index>>
    BY <1>6, RunIs, CalmIs
  <2>2. \A c : GeneratedAt(c)' = GeneratedAt(c)
    BY <2>1, SameProvenance
  <2>3. Dated1'
    BY <2>1, <2>2
  <2>. QED
    BY <2>1, <2>3, <1>0 DEF CourseInv
<1>7. CASE DateStaged
  <2>1. /\ run.at = "loaded" /\ run'.at = "dated" /\ run'.calm = run.calm /\ run.kind = "staged"
        /\ run'.logDirty \/ index.log = tree.log
        /\ UNCHANGED <<run.kind, run.loaded, tree, index>>
    BY <1>7, RunIs, CalmIs
  <2>. QED
    BY <2>1, <1>0 DEF CourseInv
<1>8. CASE MakePlan
  <2>1. /\ run.at = "dated" /\ run'.at = "planned" /\ run'.plan = Plan(run.loaded, run.prov, run.logDirty)
        /\ UNCHANGED <<run.calm, run.logDirty, run.kind, run.loaded, run.prov, agent, tree, head, index>>
    BY <1>8, RunIs, CalmIs
  <2>2. tree = run.loaded
    BY <2>1, <1>0
  <2>3. Complete(run.loaded, run.prov, run'.plan, run.logDirty)
    BY <2>1, <2>2, PlansAll
  <2>4. Complete1'
    BY <2>1, <2>3 DEF Complete, Due, Additions, Wants, Stamped, Verb
  <2>. QED
    BY <2>1, <2>4, <1>0, <1>2 DEF CourseInv
<1>9. CASE Snapshot \/ Confirm
  <2>1. /\ run.at \in {"planned", "asking"} /\ run'.at \in {"asking", "confirmed"}
        /\ UNCHANGED <<run.calm, run.logDirty, run.kind, run.loaded, run.prov, run.plan, agent, tree, head, index>>
    BY <1>9, RunIs, CalmIs
  <2>. QED
    BY <2>1, <1>0, <1>1, <1>2 DEF CourseInv
<1>10. CASE Accept
  <2>1. /\ run.at = "confirmed" /\ run'.at = "writing" /\ run'.left = DOMAIN run.plan
        /\ UNCHANGED <<run.calm, run.logDirty, run.kind, run.loaded, run.prov, run.plan, agent, tree, head, index>>
    BY <1>10, RunIs, CalmIs
  <2>2. \A t \in Target : On(t)' = Left(t)'
    BY <2>1, <1>0 DEF On, Left, Loaded
  <2>. QED
    BY <2>1, <2>2, <1>0, <1>1, <1>2 DEF CourseInv
<1>11. CASE Restage
  <2>1. /\ run.at = "writing" /\ run.left = {} /\ run'.at = "hooked" /\ run.kind = "staged" /\ index' = Restaged
        /\ UNCHANGED <<run.calm, run.logDirty, run.kind, run.loaded, run.prov, run.plan, run.left, agent, tree, head>>
    BY <1>11, RunIs, CalmIs
  <2>2. \A t \in Target : On(t)' = Left(t)'
    BY <2>1, <1>0 DEF On, Left, Loaded
  <2>3. \A c \in DOMAIN run.plan \ {Log} : index'.file[c] = tree.file[c]
    BY <2>1 DEF Restaged, TypeOK, Target
  <2>4. index'.log = IF Log \in DOMAIN run.plan THEN tree.log ELSE index.log
    BY <2>1 DEF Restaged
  <2>5. Log \notin DOMAIN run.plan => tree.log = run.loaded.log
    BY <2>1, <1>0 DEF On, Left, Loaded, Target
  <2>. QED
    BY <2>1, <2>2, <2>3, <2>4, <2>5, <1>0, <1>1, <1>2 DEF CourseInv
<1>12. ASSUME NEW t \in Target, Write(t)
       PROVE  CourseInv'
  <2>1. /\ run.at = "writing" /\ run'.at = "writing" /\ t \in DOMAIN run.plan /\ run'.left = run.left \ {t}
        /\ UNCHANGED <<run.calm, run.logDirty, run.kind, run.loaded, run.prov, run.plan, agent, head, index>>
    BY <1>12, WriteIs, CalmIs
  <2>2. \A u \in Target : On(u)' = IF u = t THEN run.plan[t] ELSE On(u)
    BY <1>12, WriteIs DEF On, Target
  <2>3. \A u \in Target : On(u)' = Left(u)'
    BY <2>1, <2>2, <1>0 DEF Left, Loaded
  <2>4. ASSUME NEW c \in Concepts
        PROVE  tree'.file[c].body = tree.file[c].body
    <3>1. c # Log /\ c \in Target
      BY LogAssumption DEF Target
    <3>2. tree.file[c] = Left(c) /\ tree'.file[c] = Left(c)'
      BY <3>1, <2>1, <2>3, <1>0 DEF On
    <3>3. c \in DOMAIN run.plan => run.plan[c].body = run.loaded.file[c].body
      BY <3>1, <2>1, <1>0 DEF Complete
    <3>. QED
      BY <3>1, <3>2, <3>3, <2>1 DEF Left, Loaded
  <2>5. \A c \in Concepts : GeneratedAt(c)' = GeneratedAt(c)
    BY <2>1, <2>4, SameProvenance
  <2>6. Walked(run.loaded) \subseteq Concepts
    BY DEF Walked, Present
  <2>7. Dated1' = Dated1
    BY <2>1, <2>5, <2>6
  <2>. QED
    BY <2>1, <2>3, <2>7, <1>0, <1>1 DEF CourseInv
<1>13. CASE EditLog
  BY <1>13, EditLogIs
<1>14. ASSUME NEW c \in Concepts, NEW b \in Body, Edit(c, b)
       PROVE  FALSE
  BY <1>14, EditIs
<1>15. CASE NextDay \/ (\E c \in Concepts : Add(c)) \/ AddLog
  BY <1>15, AsideIs
<1>. QED
  BY <1>3, <1>4, <1>5, <1>6, <1>7, <1>8, <1>9, <1>10, <1>11, <1>12, <1>13, <1>14, <1>15, Steps

----------------------------------------------------------------------------
(* What holds throughout, and what it gives. *)
LEMMA InitHolds == Init => SyncInv
<1>. SUFFICES ASSUME Init
              PROVE  SyncInv
  OBVIOUS
<1>1. run = Idle /\ tree = Empty /\ head = <<>>
  BY DEF Init
<1>2. PresentInv
  BY <1>1, IdleType, Trees DEF PresentInv, Present
<1>3. HistoryInv
  BY <1>1 DEF HistoryInv
<1>4. NamedInv
  BY <1>1, IdleType, Trees DEF NamedInv
<1>5. DatesInv
  BY <1>1, IdleType, Trees, Texts DEF DatesInv, Dates
<1>6. RaceInv
  BY <1>1, IdleType DEF RaceInv
<1>7. CourseInv
  BY <1>1, IdleType DEF CourseInv
<1>. QED
  BY <1>2, <1>3, <1>4, <1>5, <1>6, <1>7, InitType DEF SyncInv

LEMMA SyncInductive == Spec => []SyncInv
<1>1. SyncInv /\ [Next]_vars => SyncInv'
  BY TypeStep, PresentStep, HistoryStep, NamedStep, DatesStep, RaceStep, CourseStep DEF SyncInv
<1>. QED
  BY <1>1, InitHolds, PTL DEF Spec

\* Every text, plan, date and commit is of the type it should be, for any concepts and
\* bounds: what a run stamps is a body with a day, what it writes fits its target, and
\* the provenance found in the history names a day of it.
THEOREM TypeCorrect == Spec => []TypeOK
<1>1. SyncInv => TypeOK
  BY DEF SyncInv
<1>. QED
  BY <1>1, SyncInductive, PTL

\* log.md never names a concept twice on one day, neither by a repeated line nor under
\* both verbs, and whatever files people change at any moment: a run adds one line of what
\* the log it loaded does not name that day, and writes that log with its additions over
\* whatever is there (wantsLogEntry, mergeLog).
THEOREM NamesAreSingle == Spec => []NamedOnce
<1>1. SyncInv => NamedOnce
  BY DEF SyncInv, NamedInv, NamedOnce
<1>. QED
  BY <1>1, SyncInductive, PTL

\* Whatever files people change at any moment, a recorded body is dated with a day on
\* which it was committed or staged, but for a concept whose body changed between the load
\* and the walk of some run: GeneratedAt answers with a commit that brought the body it
\* reads, and a stamp writes the loaded body's digest with that date.
THEOREM StampsAreTrue == Spec => []StampTrue
<1>1. SyncInv => StampTrue
  BY DEF SyncInv, DatesInv, Dates, StampTrue, Stamped
<1>. QED
  BY <1>1, SyncInductive, PTL

\* A write replaces the text its run loaded, whatever people change during the prompt, and
\* whatever else the plan has written by then, unless the target itself was edited before
\* the snapshot or after the comparison: the snapshot then holds the loaded text, and the
\* comparison found it in place.
THEOREM FreshWhenWritten == Spec => PlanIsFresh
<1>1. SyncInv => Fresh
  <2>1. SyncInv => RaceInv
    BY DEF SyncInv
  <2>. QED
    BY <2>1 DEF RaceInv, Fresh, Written
<1>. QED
  BY <1>1, SyncInductive, PTL DEF PlanIsFresh

\* A step by which a target leaves the plan is its write.
LEMMA OnlyWrites ==
  ASSUME TypeOK, PresentInv, [Next]_vars, NEW t, Written(t)
  PROVE  t \in Target /\ Write(t)
<1>0. run.at = "writing" /\ run'.at = "writing" /\ t \in run.left /\ t \notin run'.left
  BY DEF Written
<1>1. ASSUME NEW u \in Target, Write(u)
      PROVE  t \in Target /\ Write(t)
  BY <1>0, <1>1, WriteIs
<1>2. CASE Stop \/ Commit \/ Amend
  BY <1>0, <1>2, StopIs, CommitIs, IdleType
<1>3. CASE \E kind \in {"ordinary", "staged"} : Begin(kind)
  BY <1>0, <1>3, BeginIs
<1>4. CASE Walk \/ DateStaged \/ MakePlan \/ Snapshot \/ Confirm \/ Accept \/ Restage
  BY <1>0, <1>4, RunIs
<1>5. CASE \E c \in Concepts, b \in Body : Edit(c, b)
  BY <1>0, <1>5, EditIs
<1>6. CASE UNCHANGED vars \/ EditLog \/ NextDay \/ (\E c \in Concepts : Add(c)) \/ AddLog
  BY <1>0, <1>6, EditLogIs, AsideIs DEF vars
<1>. QED
  BY <1>1, <1>2, <1>3, <1>4, <1>5, <1>6, Steps

\* No write changes what people wrote under the days of the log, unless they change it
\* while the run plans or writes: mergeLog cuts the text it was given the offsets of, and
\* that text is still there when the log is written.
THEOREM ProseIsKept == Spec => LogVerbatim
<1>1. SyncInv /\ [Next]_vars => [Verbatim]_vars
  <2>. SUFFICES ASSUME SyncInv, [Next]_vars, Log \notin run.raced, Written(Log)
                PROVE  tree'.log.prose = tree.log.prose
    BY DEF Verbatim
  <2>0. TypeOK /\ PresentInv /\ RaceInv
    BY DEF SyncInv
  <2>1. Log \in Target /\ Write(Log)
    BY <2>0, OnlyWrites
  <2>2. run.at = "writing" /\ Log \in run.left /\ Log \in DOMAIN run.plan /\ tree'.log = run.plan[Log]
    BY <2>0, <2>1, WriteIs
  <2>3. run.plan[Log].prose = run.loaded.log.prose /\ tree.log = run.loaded.log
    BY <2>0, <2>2 DEF RaceInv, On, Loaded
  <2>. QED
    BY <2>2, <2>3
<1>. QED
  BY <1>1, SyncInductive, PTL DEF Spec, LogVerbatim

----------------------------------------------------------------------------
(* What a run that nobody disturbs leaves behind. *)
LEMMA WantsLess ==
  ASSUME NEW log, NEW more, Named(log) \subseteq Named(more), NEW d, NEW c, Wants(more, d, c)
  PROVE  Wants(log, d, c)
BY DEF Wants

\* What is dated and still wanted is added.
LEMMA Adds ==
  ASSUME NEW l, NEW prov, NEW c \in DOMAIN prov, prov[c] # Uncommitted, Wants(l.log, prov[c].day, c)
  PROVE  \E e \in Additions(l, prov) : e.day = prov[c].day /\ e.concept = c
<1>. DEFINE e == [day |-> prov[c].day, concept |-> c, verb |-> Verb(prov[c])]
<1>1. e \in Additions(l, prov)
  BY DEF Additions
<1>2. e.day = prov[c].day /\ e.concept = c
  OBVIOUS
<1>. QED
  BY <1>1, <1>2

\* The log then wants no entry for what the run has dated.
LEMMA NamesAll ==
  ASSUME NEW l, NEW prov, NEW log, Named(l.log) \union Additions(l, prov) \subseteq Named(log),
         NEW c \in DOMAIN prov, prov[c] # Uncommitted
  PROVE  ~Wants(log, prov[c].day, c)
<1>. SUFFICES ASSUME Wants(log, prov[c].day, c)
              PROVE  FALSE
  OBVIOUS
<1>1. Wants(l.log, prov[c].day, c)
  BY WantsLess
<1>2. PICK e \in Additions(l, prov) : e.day = prov[c].day /\ e.concept = c
  BY <1>1, Adds
<1>. QED
  BY <1>2 DEF Wants

\* What an undisturbed run has left once it has written everything.
LEMMA Leaves ==
  ASSUME TypeOK, PresentInv, CourseInv, run.calm, run.at \in {"writing", "hooked"}, run.left = {}
  PROVE  /\ \A c \in Concepts : tree.file[c] = IF c \in DOMAIN run.plan THEN run.plan[c] ELSE run.loaded.file[c]
         /\ \A c \in Concepts : tree.file[c].body = run.loaded.file[c].body
         /\ \A c \in Concepts : c \in DOMAIN run.plan <=> c \in Due(run.loaded, run.prov)
         /\ run.logDirty \/ Named(tree.log) = Named(run.loaded.log) \union Additions(run.loaded, run.prov)
         /\ \A c \in DOMAIN run.plan \ {Log} : Stamped(run.plan[c]) /\ run.plan[c].at = run.prov[c].day
<1>1. Complete(run.loaded, run.prov, run.plan, run.logDirty) /\ \A t \in Target : On(t) = Left(t)
  BY DEF CourseInv
<1>2. \A c \in Concepts : c # Log /\ c \in Target
  BY LogAssumption DEF Target
<1>3. \A c \in Concepts : tree.file[c] = IF c \in DOMAIN run.plan THEN run.plan[c] ELSE run.loaded.file[c]
  BY <1>1, <1>2 DEF On, Left, Loaded
<1>4. \A c \in Concepts : tree.file[c].body = run.loaded.file[c].body
  BY <1>1, <1>2, <1>3 DEF Complete
<1>5. tree.log = IF Log \in DOMAIN run.plan THEN run.plan[Log] ELSE run.loaded.log
  BY <1>1 DEF On, Left, Loaded, Target
<1>6. run.logDirty \/ Named(tree.log) = Named(run.loaded.log) \union Additions(run.loaded, run.prov)
  BY <1>1, <1>5 DEF Complete
<1>. QED
  BY <1>1, <1>2, <1>3, <1>4, <1>6 DEF Complete

\* However the outside meddles, what an undisturbed hook stamped is committed as the
\* working tree has it, with its own body's digest, and neither mode has anything to do
\* for it again: the hook stages what it wrote, and where the log had no unstaged edits
\* the log committed with it names the concept on that day or is past it.
THEOREM HooksAreKept == Spec => HookIsKept
<1>1. SyncInv /\ [Next]_vars => [Kept]_vars
  <2>. SUFFICES ASSUME SyncInv, [Next]_vars, run.at = "hooked", run.calm, head' # head,
                       NEW c \in DOMAIN run.plan \ {Log}
                PROVE  /\ Stamped(HeadFile(c)') /\ HeadFile(c)' = tree.file[c]
                       /\ run.logDirty \/ ~Wants(Committed.log', HeadFile(c)'.at, c)
    BY DEF Kept
  <2>0. TypeOK /\ PresentInv /\ CourseInv
    BY DEF SyncInv
  <2>1. Commit \/ Amend
    <3>1. CASE Walk \/ DateStaged \/ MakePlan \/ Snapshot \/ Confirm \/ Accept \/ Restage
      BY <2>0, <3>1, RunIs
    <3>2. CASE UNCHANGED vars \/ Stop \/ (\E kind \in {"ordinary", "staged"} : Begin(kind))
      BY <3>2, StopIs, BeginIs DEF vars
    <3>3. CASE \E t \in Target : Write(t)
      BY <2>0, <3>3, WriteIs
    <3>4. CASE (\E e \in Concepts, b \in Body : Edit(e, b)) \/ EditLog
      BY <2>0, <3>4, EditIs, EditLogIs
    <3>5. CASE NextDay \/ (\E e \in Concepts : Add(e)) \/ AddLog
      BY <2>0, <3>5, AsideIs
    <3>. QED
      BY <3>1, <3>2, <3>3, <3>4, <3>5, Steps
  <2>2. PICK commits \in Seq([file : Files, log : LogText, day : Day]), d \in Day : MakeCommit(commits, d)
    BY <2>0, <2>1, Commits
  <2>3. /\ head'[Len(head')] = [file |-> index.file, log |-> index.log, day |-> d]
        /\ Len(head') = Len(commits) + 1 /\ Len(commits) \in Nat
    BY <2>0, <2>2, CommitTyped
  <2>4. head' # <<>>
    BY <2>3, EmptySeq
  <2>5. HeadFile(c)' = index.file[c] /\ Committed.log' = index.log
    BY <2>3, <2>4 DEF HeadFile, Committed
  <2>6. c \in Concepts /\ run.left = {}
    BY <2>0 DEF TypeOK, Target, PresentInv
  <2>7. index.file[c] = tree.file[c] /\ (run.logDirty \/ index.log = tree.log)
    BY <2>0 DEF CourseInv
  <2>8. /\ tree.file[c] = run.plan[c] /\ Stamped(run.plan[c]) /\ run.plan[c].at = run.prov[c].day
        /\ c \in Due(run.loaded, run.prov)
        /\ run.logDirty \/ Named(tree.log) = Named(run.loaded.log) \union Additions(run.loaded, run.prov)
    BY <2>0, <2>6, Leaves
  <2>9. run.logDirty \/ ~Wants(tree.log, run.prov[c].day, c)
    BY <2>8, NamesAll DEF Due
  <2>. QED
    BY <2>5, <2>7, <2>8, <2>9
<1>. QED
  BY <1>1, SyncInductive, PTL DEF Spec, HookIsKept

\* The state an undisturbed ordinary run ends in.
LEMMA EndsSettled ==
  ASSUME SyncInv, run.at = "writing", run.left = {}, run.calm, run.kind = "ordinary"
  PROVE  NothingToDo /\ UpToDate
<1>. DEFINE l == run.loaded
            prov == run.prov
<1>0. /\ TypeOK /\ PresentInv /\ CourseInv /\ HistoryInv /\ l \in Tree
      /\ \A c \in Concepts \ slipped : Dates(c, tree.file[c])
  <2>1. /\ TypeOK /\ PresentInv /\ CourseInv /\ HistoryInv
        /\ \A c \in Concepts \ slipped : Dates(c, tree.file[c])
    BY DEF SyncInv, DatesInv
  <2>. QED
    BY <2>1, Parts
<1>1. /\ \A c \in Concepts : tree.file[c] = IF c \in DOMAIN run.plan THEN run.plan[c] ELSE l.file[c]
      /\ \A c \in Concepts : tree.file[c].body = l.file[c].body
      /\ \A c \in Concepts : c \in DOMAIN run.plan <=> c \in Due(l, prov)
      /\ \A c \in DOMAIN run.plan \ {Log} : Stamped(run.plan[c]) /\ run.plan[c].at = prov[c].day
  BY <1>0, Leaves
<1>2. Named(tree.log) = Named(l.log) \union Additions(l, prov)
  <2>1. ~run.logDirty
    BY <1>0 DEF CourseInv
  <2>. QED
    BY <2>1, <1>0, Leaves
<1>3. DOMAIN prov = Walked(l) /\ \A c \in Walked(l) : prov[c] = GeneratedAt(c)
  BY <1>0 DEF CourseInv
<1>4. \A c \in Concepts : c # Log
  BY LogAssumption
<1>5. \A c \in Concepts : tree.file[c] # Absent <=> l.file[c] # Absent
  <2>1. \A c \in Concepts : tree.file[c] \in Text \union {Absent} /\ l.file[c] \in Text \union {Absent}
    BY <1>0, Parts, Trees
  <2>. QED
    BY <2>1, <1>1, Texts
\* What the run did not date it had no need to.
<1>6. ASSUME NEW c \in Concepts, tree.file[c] # Absent, c \notin DOMAIN prov
      PROVE  tree.file[c] = l.file[c] /\ Stamped(l.file[c]) /\ ~Wants(l.log, l.file[c].at, c)
  <2>1. c \notin DOMAIN run.plan
    BY <1>1, <1>6 DEF Due
  <2>. QED
    BY <2>1, <1>1, <1>3, <1>5, <1>6 DEF Walked, Present
<1>7. ASSUME NEW c \in Concepts, tree.file[c] # Absent, GeneratedAt(c) # Uncommitted,
             agent \/ l.file[c].at # None
      PROVE  Stamped(tree.file[c])
  <2>1. CASE c \in Due(l, prov)
    BY <2>1, <1>1, <1>4
  <2>2. CASE c \notin Due(l, prov)
    <3>1. tree.file[c] = l.file[c]
      BY <2>2, <1>1
    <3>2. c \in DOMAIN prov => prov[c] = GeneratedAt(c)
      BY <1>3
    <3>. QED
      BY <2>2, <3>1, <3>2, <1>6, <1>7 DEF Due
  <2>. QED
    BY <2>1, <2>2
<1>. DEFINE again == [c \in Walked(tree) |-> GeneratedAt(c)]
<1>8. DOMAIN again = Walked(tree) /\ \A c \in Walked(tree) : again[c] = GeneratedAt(c)
  OBVIOUS
<1>9. \A c \in Walked(tree) : /\ c \in Concepts /\ tree.file[c] # Absent
                              /\ Stamped(tree.file[c]) => Wants(tree.log, tree.file[c].at, c)
  BY DEF Walked, Present
<1>. HIDE DEF again
<1>10. Restamped(tree, again) = {}
  <2>. SUFFICES ASSUME NEW c \in Walked(tree), ~Stamped(tree.file[c]), GeneratedAt(c) # Uncommitted,
                       tree.file[c].at = None => agent
                PROVE  FALSE
    BY <1>8 DEF Restamped
  <2>1. c \in Concepts /\ tree.file[c] # Absent
    BY <1>9
  <2>2. tree.file[c] = l.file[c]
    BY <2>1, <1>1, <1>4
  <2>. QED
    BY <2>1, <2>2, <1>7
<1>11. Additions(tree, again) = {}
  <2>. SUFFICES ASSUME NEW c \in Walked(tree), GeneratedAt(c) # Uncommitted, Wants(tree.log, GeneratedAt(c).day, c)
                PROVE  FALSE
    BY <1>8 DEF Additions
  <2>1. c \in Concepts /\ tree.file[c] # Absent
    BY <1>9
  <2>2. CASE c \in DOMAIN prov
    BY <2>2, <1>2, <1>3, NamesAll
  <2>3. CASE c \notin DOMAIN prov
    <3>1. tree.file[c] = l.file[c] /\ Stamped(l.file[c]) /\ ~Wants(l.log, l.file[c].at, c)
      BY <2>1, <2>3, <1>6
    <3>2. Wants(tree.log, l.file[c].at, c)
      BY <3>1, <1>9
    <3>. QED
      BY <3>1, <3>2, <1>2, WantsLess
  <2>. QED
    BY <2>2, <2>3
<1>12. Merged(tree, {}) = tree.log
  <2>1. tree.log \in [lines : [Entry -> Nat], prose : 0 .. Torn]
    BY <1>0, Parts, Trees DEF LogText
  <2>2. \A e \in Entry : tree.log.lines[e] + 0 = tree.log.lines[e]
    BY <2>1
  <2>3. [e \in Entry |-> tree.log.lines[e] + IF e \in {} THEN 1 ELSE 0] = tree.log.lines
    BY <2>1, <2>2
  <2>. QED
    BY <2>1, <2>3 DEF Merged
<1>13. NothingToDo
  <2>1. DOMAIN Plan(tree, again, FALSE) = {}
    BY <1>10, <1>11, <1>12 DEF Plan
  <2>. QED
    BY <2>1 DEF NothingToDo, again
<1>14. ASSUME NEW c \in Concepts, tree.file[c] # Absent, tree.file[c].body = HeadFile(c).body
       PROVE  /\ agent \/ tree.file[c].at # None => Stamped(tree.file[c])
              /\ c \notin slipped =>
                   \E e \in Named(tree.log) :
                     \/ e.day > GeneratedAt(c).day
                     \/ Stamped(tree.file[c]) /\ e.day > tree.file[c].at
                     \/ e.concept = c /\ <<c, tree.file[c].body, e.day>> \in dated
  <2>1. PICK i \in 1 .. Len(head) :
           /\ GeneratedAt(c) = [day |-> head[i].day, creating |-> \A j \in 1 .. i - 1 : head[j].file[c] = Absent]
           /\ <<c, tree.file[c].body, head[i].day>> \in dated
    BY <1>0, <1>14, Brings
  <2>2. GeneratedAt(c) # Uncommitted /\ GeneratedAt(c).day \in Day /\ <<c, tree.file[c].body, GeneratedAt(c).day>> \in dated
    <3>1. head[i].day \in Day /\ GeneratedAt(c).day = head[i].day
      BY <2>1, <1>0, Parts
    <3>. QED
      BY <2>1, <3>1 DEF Uncommitted, Day, None
  <2>3. agent \/ tree.file[c].at # None => Stamped(tree.file[c])
    <3>1. c \notin DOMAIN run.plan => tree.file[c] = l.file[c]
      BY <1>1
    <3>2. c \in DOMAIN run.plan => Stamped(tree.file[c])
      BY <1>1, <1>4
    <3>. QED
      BY <3>1, <3>2, <2>2, <1>7, <1>14
  <2>4. ASSUME NEW d \in Day, ~Wants(tree.log, d, c)
        PROVE  \E e \in Named(tree.log) : e.day > d \/ (e.day = d /\ e.concept = c)
    <3>1. Named(tree.log) \subseteq Entry
      BY <1>0, Parts, Trees
    <3>2. \A e \in Named(tree.log) : e.day \in Int /\ d \in Int
      BY <3>1 DEF Entry, Day
    <3>. QED
      BY <2>4, <3>2 DEF Wants
  <2>5. CASE c \in DOMAIN prov
    <3>1. ~Wants(tree.log, GeneratedAt(c).day, c)
      BY <2>2, <2>5, <1>2, <1>3, NamesAll
    <3>. QED
      BY <3>1, <2>2, <2>3, <2>4
  <2>6. CASE c \notin DOMAIN prov
    <3>1. tree.file[c] = l.file[c] /\ Stamped(tree.file[c]) /\ ~Wants(l.log, tree.file[c].at, c)
      BY <2>6, <1>6, <1>14
    <3>2. ~Wants(tree.log, tree.file[c].at, c)
      BY <3>1, <1>2, WantsLess
    <3>3. tree.file[c] \in Text
      BY <1>0, <1>14, Parts, Trees
    <3>4. tree.file[c].at \in Day
      <4>1. tree.file[c].stamp = None <=> tree.file[c].at = None
        BY <3>3 DEF Text
      <4>. QED
        BY <4>1, <3>1, <3>3, Texts DEF Stamped
    <3>5. c \notin slipped => <<c, tree.file[c].body, tree.file[c].at>> \in dated
      BY <3>1, <3>4, <1>0 DEF Dates, Stamped, Day, None
    <3>. QED
      BY <3>1, <3>2, <3>4, <3>5, <2>3, <2>4
  <2>. QED
    BY <2>5, <2>6
<1>. QED
  BY <1>13, <1>14 DEF UpToDate

\* A plan depends on the tree and the config alone.
LEMMA SamePlan ==
  ASSUME NEW l, NEW prov, NEW dirty, UNCHANGED <<agent, tree>>
  PROVE  Plan(l, prov, dirty)' = Plan(l, prov, dirty)
<1>1. /\ \A c : Stamp(l, c, prov[c])' = Stamp(l, c, prov[c])
      /\ Merged(l, Additions(l, prov))' = Merged(l, Additions(l, prov))
  BY DEF Stamp, Merged, Additions, Wants, Verb
<1>2. Restamped(l, prov)' = Restamped(l, prov)
  BY <1>1 DEF Restamped, Stamped
<1>. QED
  BY <1>1, <1>2 DEF Plan

\* An ordinary run that was not disturbed and has written everything leaves nothing to a
\* next one, whatever earlier runs and hooks left half-written and whatever people did
\* under those: each committed body is recorded and named, and both modes would plan an
\* empty change.
THEOREM RunsSettle == Spec => SyncSettles
<1>1. SyncInv /\ [Next]_vars => [Settled]_vars
  <2>. SUFFICES ASSUME SyncInv, [Next]_vars, run.at = "writing", run'.at = "idle", run.left = {}, run.calm,
                       run.kind = "ordinary"
                PROVE  NothingToDo' /\ UpToDate'
    BY DEF Settled
  <2>0. TypeOK /\ PresentInv
    BY DEF SyncInv
  <2>1. NothingToDo /\ UpToDate
    BY EndsSettled
  <2>2. UNCHANGED <<agent, tree, head, dated, slipped>>
    <3>1. CASE UNCHANGED vars \/ Stop \/ (\E kind \in {"ordinary", "staged"} : Begin(kind))
      BY <3>1, StopIs, BeginIs DEF vars
    <3>2. CASE Walk \/ DateStaged \/ MakePlan \/ Snapshot \/ Confirm \/ Accept \/ Restage
      BY <2>0, <3>2, RunIs
    <3>3. CASE \E t \in Target : Write(t)
      BY <2>0, <3>3, WriteIs
    <3>4. CASE (\E e \in Concepts, b \in Body : Edit(e, b)) \/ EditLog
      BY <2>0, <3>4, EditIs, EditLogIs
    <3>5. CASE NextDay \/ (\E e \in Concepts : Add(e)) \/ AddLog
      BY <2>0, <3>5, AsideIs
    <3>6. CASE Commit \/ Amend
      BY <2>0, <3>6, CommitIs
    <3>. QED
      BY <3>1, <3>2, <3>3, <3>4, <3>5, <3>6, Steps
  <2>3. \A c : GeneratedAt(c)' = GeneratedAt(c) /\ HeadFile(c)' = HeadFile(c)
    BY <2>2, SameProvenance DEF HeadFile, Committed
  <2>4. NothingToDo'
    <3>1. PICK t, prov : t = tree /\ prov = [c \in Walked(tree) |-> GeneratedAt(c)]
      OBVIOUS
    <3>2. tree' = t /\ [c \in Walked(tree) |-> GeneratedAt(c)]' = prov
      BY <3>1, <2>2, <2>3
    <3>3. DOMAIN Plan(t, prov, FALSE) = {}
      BY <3>1, <2>1 DEF NothingToDo
    <3>4. Plan(t, prov, FALSE)' = Plan(t, prov, FALSE)
      BY <2>2, SamePlan
    <3>. QED
      BY <3>2, <3>3, <3>4 DEF NothingToDo
  <2>5. UpToDate'
    <3>. SUFFICES ASSUME NEW c \in Concepts, tree.file[c] # Absent, tree.file[c].body = HeadFile(c).body
                  PROVE  /\ agent \/ tree.file[c].at # None => Stamped(tree.file[c])
                         /\ c \notin slipped =>
                              \E e \in Named(tree.log) :
                                \/ e.day > GeneratedAt(c).day
                                \/ Stamped(tree.file[c]) /\ e.day > tree.file[c].at
                                \/ e.concept = c /\ <<c, tree.file[c].body, e.day>> \in dated
      BY <2>2, <2>3 DEF UpToDate, Stamped
    <3>. QED
      BY <2>1 DEF UpToDate
  <2>. QED
    BY <2>4, <2>5
<1>. QED
  BY <1>1, SyncInductive, PTL DEF Spec, SyncSettles
=============================================================================
