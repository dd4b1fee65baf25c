------------------------------ MODULE MoveProofs ------------------------------
(* Theorems about Move, for any bundles, any commands and any number of runs. *)
EXTENDS Move, FiniteSetTheorems, SequenceTheorems, WellFoundedInduction, TLAPS

----------------------------------------------------------------------------
(* Texts and plans. *)
LEMMA Shape ==
  ASSUME NEW id, NEW refs, NEW attested, NEW loads
  PROVE  LET t == Text(id, refs, attested, loads)
         IN t.id = id /\ t.refs = refs /\ t.attested = attested /\ t.loads = loads /\ IsText(t)
BY DEF Text, IsText

\* A text with other references is the same text otherwise.
LEMMA NewRefs ==
  ASSUME NEW t, IsText(t), NEW refs
  PROVE  LET n == [t EXCEPT !.refs = refs] IN IsText(n) /\ n.id = t.id /\ n.refs = refs /\ n.attested = t.attested
<1>1. t = [id |-> t.id, refs |-> t.refs, attested |-> t.attested, loads |-> t.loads]
  BY DEF IsText, Text
<1>2. PICK id : id = t.id
  OBVIOUS
<1>3. PICK attested : attested = t.attested
  OBVIOUS
<1>4. PICK loads : loads = t.loads
  OBVIOUS
<1>5. [t EXCEPT !.refs = refs] = Text(id, refs, attested, loads)
  BY <1>1, <1>2, <1>3, <1>4 DEF Text
<1>. QED
  BY <1>2, <1>3, <1>4, <1>5, Shape

\* Texts are told apart by what they hold.
LEMMA Apart ==
  ASSUME NEW s, NEW t, IsText(s), IsText(t), s.id = t.id, s.attested = t.attested, s.loads = t.loads, s.refs = t.refs
  PROVE  s = t
BY DEF IsText, Text

\* A rewritten text drifts where it differs.
LEMMA Drifting ==
  ASSUME NEW t, IsText(t), NEW refs
  PROVE  LET n == [t EXCEPT !.refs = refs] IN n # t /\ Current(t) <=> Current(t) /\ ~Current(n)
<1>1. t = [id |-> t.id, refs |-> t.refs, attested |-> t.attested, loads |-> t.loads]
  BY DEF IsText, Text
<1>2. refs = t.refs => [t EXCEPT !.refs = refs] = t
  BY <1>1
<1>3. refs # t.refs => [t EXCEPT !.refs = refs] # t
  BY NewRefs
<1>. QED
  BY <1>2, <1>3, NewRefs DEF Current

\* What the refusals leave: a source that loads, and a destination that is free.
LEMMA Refused ==
  ASSUME NEW d, NEW m, NEW to, NEW texts
  PROVE  LET why == Refusal(d, m, to, texts)
         IN /\ why \in Refusals \cup {""}
            /\ why = "" => m.src \in Loaded(d) /\ to # <<>> /\ Head(to) \notin DOMAIN d
<1>1. CASE m.src \notin Loaded(d)
  BY <1>1 DEF Refusal, Refusals
<1>2. CASE m.src \in Loaded(d) /\ m.src = Path(<<>>, "project", TRUE)
  BY <1>2 DEF Refusal, Refusals
<1>3. CASE m.src \in Loaded(d) /\ m.src # Path(<<>>, "project", TRUE) /\ to = <<>>
  BY <1>3 DEF Refusal, Refusals
<1>4. CASE m.src \in Loaded(d) /\ m.src # Path(<<>>, "project", TRUE) /\ to # <<>>
  <2>. DEFINE dst == Head(to)
              rest == IF Concepts(d) # Loaded(d) THEN "unloaded-files"
                      ELSE IF Blocks(d, m, texts) THEN "unrewritable" ELSE ""
  <2>1. Refusal(d, m, to, texts) =
          CASE dst.name = "index" -> "reserved"
            [] dst = m.src -> "same-path"
            [] dst # m.src /\ Taken(d, dst) -> "destination-exists"
            [] OTHER -> rest
    BY <1>4 DEF Refusal
  <2>2. rest \in Refusals \cup {""}
    BY DEF Refusals
  <2>. HIDE DEF dst, rest
  <2>3. CASE dst.name = "index" /\ dst # m.src /\ ~Taken(d, dst)
    BY <2>1, <2>3 DEF Refusals
  <2>4. CASE dst.name # "index" /\ dst # m.src /\ ~Taken(d, dst)
    BY <1>4, <2>1, <2>2, <2>4 DEF Refusals, Taken, dst
  <2>5. CASE dst = m.src \/ Taken(d, dst)
    BY <2>1, <2>5 DEF Refusals
  <2>. QED
    BY <2>3, <2>4, <2>5
<1>. QED
  BY <1>1, <1>2, <1>3, <1>4

\* A plan's texts are the concepts' with other references.
LEMMA PlanTexts ==
  ASSUME NEW d, NEW m, NEW to, to # <<>>, NEW p \in Loaded(d), IsText(d[p])
  PROVE  LET t == NewTexts(d, m, to)[p]
         IN IsText(t) /\ t.id = d[p].id /\ (t # d[p] /\ Current(d[p]) <=> Current(d[p]) /\ ~Current(t))
<1>1. PICK refs : NewText(d, m, Head(to), p) = [d[p] EXCEPT !.refs = refs]
  BY DEF NewText
<1>2. NewTexts(d, m, to)[p] = [d[p] EXCEPT !.refs = refs]
  BY <1>1 DEF NewTexts
<1>3. PICK s : s = d[p]
  OBVIOUS
<1>4. PICK n : n = [s EXCEPT !.refs = refs]
  OBVIOUS
<1>5. IsText(n) /\ n.id = s.id
  BY <1>3, <1>4, NewRefs
<1>6. n # s /\ Current(s) <=> Current(s) /\ ~Current(n)
  BY <1>3, <1>4, Drifting
<1>. QED
  BY <1>2, <1>3, <1>4, <1>5, <1>6

----------------------------------------------------------------------------
(* The plan, by the texts it is made of. *)
Planning(edits, texts) ==
  /\ run'.pc = "mkdir" /\ run'.dst \notin DOMAIN disk /\ run'.plan = [p \in edits |-> texts[p]] /\ run'.left = edits
  /\ \A p \in Loaded(disk) : /\ IsText(texts[p]) /\ texts[p].id = disk[p].id
                             /\ texts[p] # disk[p] /\ Current(disk[p]) <=> Current(disk[p]) /\ ~Current(texts[p])
                             /\ p \notin edits => texts[p] = disk[p]
  /\ run'.drifts = {p \in edits : texts[p] # disk[p] /\ Current(disk[p])}

\* A run either is refused or has a plan of such texts.
LEMMA Plans ==
  ASSUME PlanMove, \A p \in DOMAIN disk : IsText(disk[p])
  PROVE  /\ run.pc \in {"idle", "failed"} /\ runs' = runs + 1 /\ UNCHANGED <<disk, move, first, touched, partial>>
         /\ run'.pc \in Refusals \/ \E edits \in SUBSET Loaded(disk) : \E texts : Planning(edits, texts)
<1>1. PICK to, texts, why, edits :
        /\ texts = NewTexts(disk, move, to) /\ why = Refusal(disk, move, to, texts) /\ edits = Edits(disk, move, texts)
        /\ run' = IF why # "" THEN [NotRun EXCEPT !.pc = why]
                  ELSE Phase("mkdir", Head(to), [p \in edits |-> texts[p]], edits, Drifts(disk, move, texts))
  BY DEF PlanMove
<1>2. run.pc \in {"idle", "failed"} /\ runs' = runs + 1 /\ UNCHANGED <<disk, move, first, touched, partial>>
  BY DEF PlanMove
<1>3. why \in Refusals \cup {""} /\ (why = "" => move.src \in Loaded(disk) /\ to # <<>> /\ Head(to) \notin DOMAIN disk)
  BY <1>1, Refused
<1>4. CASE why # ""
  BY <1>1, <1>2, <1>3, <1>4 DEF NotRun, Phase
<1>5. CASE why = ""
  <2>1. run' = Phase("mkdir", Head(to), [p \in edits |-> texts[p]], edits, Drifts(disk, move, texts))
    BY <1>1, <1>5
  <2>2. /\ run'.pc = "mkdir" /\ run'.dst = Head(to) /\ run'.plan = [p \in edits |-> texts[p]] /\ run'.left = edits
        /\ run'.drifts = Drifts(disk, move, texts)
    BY <2>1 DEF Phase
  <2>3. ASSUME NEW p \in Loaded(disk)
        PROVE  /\ IsText(texts[p]) /\ texts[p].id = disk[p].id
               /\ texts[p] # disk[p] /\ Current(disk[p]) <=> Current(disk[p]) /\ ~Current(texts[p])
               /\ p \notin edits => texts[p] = disk[p]
    <3>1. IsText(disk[p])
      BY DEF Loaded, Concepts
    <3>2. to # <<>>
      BY <1>3, <1>5
    <3>3. /\ IsText(texts[p]) /\ texts[p].id = disk[p].id
          /\ texts[p] # disk[p] /\ Current(disk[p]) <=> Current(disk[p]) /\ ~Current(texts[p])
      BY <1>1, <3>1, <3>2, PlanTexts
    <3>4. p \notin edits => texts[p] = disk[p]
      BY <1>1 DEF Edits
    <3>. QED
      BY <3>3, <3>4
  <2>4. edits \in SUBSET Loaded(disk) /\ Drifts(disk, move, texts) = {p \in edits : texts[p] # disk[p] /\ Current(disk[p])}
    BY <1>1 DEF Edits, Drifts
  <2>5. Planning(edits, texts)
    BY <1>3, <1>5, <2>2, <2>3, <2>4 DEF Planning
  <2>6. edits \in SUBSET Loaded(disk)
    BY <2>4
  <2>. QED
    BY <1>2, <2>5, <2>6
<1>. QED
  BY <1>4, <1>5

----------------------------------------------------------------------------
(* Nothing is lost. *)
LEMMA MoveInit ==
  ASSUME Init
  PROVE  MoveInv /\ DriftInv
<1>1. run.pc = "idle" /\ runs = 0 /\ disk = first /\ \A p \in DOMAIN first : IsText(first[p])
  BY MoveAssumption DEF Init, NotRun, Phase
<1>. QED
  BY <1>1 DEF MoveInv, DriftInv, Writing, Refusals, DriftsReported

LEMMA MoveStep ==
  ASSUME MoveInv, [Next]_vars
  PROVE  MoveInv'
<1>. SUFFICES ASSUME ~touched, ~touched' PROVE MoveInv'
  <2>1. touched => touched'
    BY DEF Next, PlanMove, MakeDirectory, Rename, Fail, Edit, Write, vars
  <2>. QED
    BY <2>1 DEF MoveInv
<1>0. \A p \in Refusals : p \notin {"idle", "mkdir", "write", "done", "failed"}
  BY DEF Refusals
<1>1. CASE PlanMove
  <2>0. run.pc # "done" /\ \A p \in DOMAIN disk : IsText(disk[p])
    BY <1>1 DEF PlanMove, MoveInv
  <2>1. /\ run.pc \in {"idle", "failed"} /\ runs' = runs + 1 /\ UNCHANGED <<disk, move, first, touched, partial>>
        /\ runs \in Nat /\ (run.pc = "idle" => disk = first) /\ (run.pc = "failed" => runs # 0)
        /\ DOMAIN disk = DOMAIN first /\ (\A p \in DOMAIN disk : IsText(disk[p]) /\ disk[p].id = first[p].id)
        /\ \A p \in DOMAIN first : IsText(first[p])
    BY <1>1, <2>0, Plans DEF MoveInv
  <2>2. CASE run'.pc \in Refusals
    BY <1>0, <2>1, <2>2 DEF MoveInv, Writing
  <2>3. CASE \E edits \in SUBSET Loaded(disk) : \E texts : Planning(edits, texts)
    <3>1. PICK edits \in SUBSET Loaded(disk) : \E texts : Planning(edits, texts)
      BY <2>3
    <3>10. PICK texts : Planning(edits, texts)
      BY <3>1
    <3>11. /\ run'.pc = "mkdir" /\ run'.dst \notin DOMAIN disk /\ run'.plan = [p \in edits |-> texts[p]] /\ run'.left = edits
           /\ \A p \in Loaded(disk) : IsText(texts[p]) /\ texts[p].id = disk[p].id
      BY <3>10 DEF Planning
    <3>2. edits \subseteq DOMAIN disk
      BY DEF Loaded, Concepts
    <3>3. /\ run'.left \subseteq DOMAIN run'.plan /\ DOMAIN run'.plan \subseteq DOMAIN first
          /\ \A p \in DOMAIN run'.plan : IsText(run'.plan[p]) /\ run'.plan[p].id = first[p].id
          /\ run'.dst \notin DOMAIN first
      BY <2>1, <3>11, <3>2
    <3>. QED
      BY <1>0, <2>1, <3>11, <3>3 DEF MoveInv, Writing
  <2>. QED
    BY <1>1, <2>0, <2>2, <2>3, Plans
<1>2. CASE MakeDirectory
  <2>1. run.pc = "mkdir" /\ run' = [run EXCEPT !.pc = "write"] /\ UNCHANGED <<disk, move, runs, first, touched, partial>>
    BY <1>2 DEF MakeDirectory
  <2>2. run'.pc = "write" /\ UNCHANGED <<run.dst, run.plan, run.left>>
    BY <2>1 DEF MoveInv
  <2>. QED
    BY <1>0, <2>1, <2>2 DEF MoveInv, Writing
<1>3. ASSUME NEW p \in run.left, Write(p) PROVE MoveInv'
  <2>1. /\ run.pc = "write" /\ p \in run.left /\ disk' = [q \in DOMAIN disk \cup {p} |-> IF q = p THEN run.plan[p] ELSE disk[q]]
        /\ run' = [run EXCEPT !.left = run.left \ {p}] /\ UNCHANGED <<move, runs, first, touched, partial>>
    BY <1>3 DEF Write
  <2>2. run'.pc = "write" /\ run'.left = run.left \ {p} /\ UNCHANGED <<run.dst, run.plan>>
    BY <2>1
  <2>3. p \in DOMAIN first /\ p \in DOMAIN run.plan /\ IsText(run.plan[p]) /\ run.plan[p].id = first[p].id
    BY <2>1 DEF MoveInv, Writing
  <2>4. DOMAIN disk' = DOMAIN first /\ \A q \in DOMAIN disk' : IsText(disk'[q]) /\ disk'[q].id = first[q].id
    BY <2>1, <2>3 DEF MoveInv
  <2>. QED
    BY <1>0, <2>1, <2>2, <2>4 DEF MoveInv, Writing
<1>4. CASE Rename
  <2>1. /\ run.pc = "write" /\ move.src \in DOMAIN disk /\ run' = [run EXCEPT !.pc = "done"]
        /\ disk' = [q \in AfterMove(DOMAIN disk, move.src, run.dst) |-> IF q = run.dst THEN disk[move.src] ELSE disk[q]]
        /\ UNCHANGED <<move, runs, first, touched, partial>>
    BY <1>4 DEF Rename
  <2>2. run'.pc = "done" /\ run'.dst = run.dst
    BY <2>1
  <2>3. DOMAIN disk = DOMAIN first /\ run.dst \notin DOMAIN first /\ \A p \in DOMAIN disk : disk[p].id = first[p].id
    BY <2>1 DEF MoveInv, Writing
  <2>4. ASSUME NEW p \in DOMAIN first
        PROVE  Image(p)' \in DOMAIN disk' /\ disk'[Image(p)'].id = first[p].id
    BY <2>1, <2>2, <2>3 DEF Image, AfterMove
  <2>5. \A p \in DOMAIN first : Image(p)' \in DOMAIN disk' /\ disk'[Image(p)'].id = first[p].id
    BY <2>4
  <2>. QED
    BY <1>0, <2>1, <2>2, <2>5 DEF MoveInv, Writing
<1>5. CASE Fail
  <2>1. run.pc \in {"mkdir", "write"} /\ run' = [NotRun EXCEPT !.pc = "failed"] /\ UNCHANGED <<disk, move, runs, first, touched>>
    BY <1>5 DEF Fail
  <2>2. run'.pc = "failed"
    BY <2>1 DEF NotRun, Phase
  <2>. QED
    BY <1>0, <2>1, <2>2 DEF MoveInv, Writing
<1>6. CASE UNCHANGED vars
  BY <1>6 DEF vars, MoveInv, Writing, Image
<1>7. \A p : ~Edit(p)
  BY DEF Edit
<1>. QED
  BY <1>1, <1>2, <1>3, <1>4, <1>5, <1>6, <1>7 DEF Next

\* Whatever step fails and however often the command is run, every concept's text keeps a
\* path, and a refused command has left every text as it was.
THEOREM LosesNothing == Spec => []NothingLost
<1>1. MoveInv => NothingLost
  BY DEF MoveInv, NothingLost
<1>2. Init => MoveInv
  BY MoveInit
<1>3. MoveInv /\ [Next]_vars => MoveInv'
  BY MoveStep
<1>. QED
  BY <1>1, <1>2, <1>3, PTL DEF Spec

----------------------------------------------------------------------------
(* What a move says will drift does. *)
LEMMA DriftStep ==
  ASSUME MoveInv, MoveInv', DriftInv, [Next]_vars
  PROVE  DriftInv'
<1>. SUFFICES ASSUME ~touched, ~touched', runs' = 1 PROVE DriftInv'
  <2>1. touched => touched'
    BY DEF Next, PlanMove, MakeDirectory, Rename, Fail, Edit, Write, vars
  <2>. QED
    BY <2>1 DEF DriftInv
<1>0. \A p \in Refusals : p \notin {"idle", "mkdir", "write", "done", "failed"}
  BY DEF Refusals
<1>. DEFINE Due(p) == Current(first[p]) /\ ~Current(Planned(p))
            At(p) == disk[p] = IF p \in run.left THEN first[p] ELSE Planned(p)
<1>00. Writing /\ runs = 1 => run.drifts = {p \in Loaded(first) : Due(p)} /\ \A p \in DOMAIN first : At(p)
  BY DEF DriftInv
<1>1. CASE PlanMove
  <2>0. run.pc # "done" /\ \A p \in DOMAIN disk : IsText(disk[p])
    BY <1>1 DEF PlanMove, MoveInv
  <2>1. /\ runs' = runs + 1 /\ UNCHANGED <<disk, first>> /\ runs \in Nat /\ run.pc \in {"idle", "failed"}
        /\ run'.pc \in Refusals \/ \E edits \in SUBSET Loaded(disk) : \E texts : Planning(edits, texts)
    BY <1>1, <2>0, Plans DEF MoveInv
  <2>2. disk = first
    BY <2>1 DEF MoveInv
  <2>3. CASE run'.pc \in Refusals
    BY <1>0, <2>3 DEF DriftInv, DriftsReported, Writing
  <2>4. CASE \E edits \in SUBSET Loaded(disk) : \E texts : Planning(edits, texts)
    <3>1. PICK edits \in SUBSET Loaded(disk) : \E texts : Planning(edits, texts)
      BY <2>4
    <3>2. PICK texts : Planning(edits, texts)
      BY <3>1
    <3>3. /\ run'.pc = "mkdir" /\ run'.plan = [p \in edits |-> texts[p]] /\ run'.left = edits
          /\ \A p \in Loaded(first) : /\ texts[p] # first[p] /\ Current(first[p]) <=> Current(first[p]) /\ ~Current(texts[p])
                                      /\ p \notin edits => texts[p] = first[p]
          /\ run'.drifts = {p \in edits : texts[p] # first[p] /\ Current(first[p])}
      BY <2>2, <3>2 DEF Planning
    <3>4. \A p : Planned(p)' = IF p \in edits THEN texts[p] ELSE first[p]
      BY <2>1, <3>3 DEF Planned
    <3>5. \A p \in Loaded(first) : p \in run'.drifts <=> Current(first[p]) /\ ~Current(Planned(p)')
      <4>. SUFFICES ASSUME NEW p \in Loaded(first) PROVE p \in run'.drifts <=> Current(first[p]) /\ ~Current(Planned(p)')
        OBVIOUS
      <4>1. CASE p \in edits
        BY <3>3, <3>4, <4>1
      <4>2. CASE p \notin edits
        BY <3>3, <3>4, <4>2
      <4>. QED
        BY <4>1, <4>2
    <3>6. run'.drifts \subseteq Loaded(first)
      BY <2>2, <3>3
    <3>7. run'.drifts = {p \in Loaded(first) : Current(first[p]) /\ ~Current(Planned(p)')}
      BY <3>5, <3>6
    <3>8. \A p \in DOMAIN first : disk'[p] = IF p \in run'.left THEN first[p] ELSE Planned(p)'
      BY <2>1, <2>2, <3>3, <3>4
    <3>9. (run.drifts = {p \in Loaded(first) : Current(first[p]) /\ ~Current(Planned(p))})'
      BY <2>1, <3>7 DEF Loaded, Concepts, Current
    <3>. QED
      BY <2>1, <3>3, <3>8, <3>9 DEF DriftInv, DriftsReported
  <2>. QED
    BY <2>1, <2>3, <2>4
<1>2. CASE MakeDirectory
  <2>1. run.pc = "mkdir" /\ run' = [run EXCEPT !.pc = "write"] /\ UNCHANGED <<disk, move, runs, first, touched, partial>>
    BY <1>2 DEF MakeDirectory
  <2>2. run'.pc = "write" /\ run'.plan = run.plan /\ run'.left = run.left /\ run'.drifts = run.drifts
    BY <2>1
  <2>3. \A p : Planned(p)' = Planned(p)
    BY <2>1, <2>2 DEF Planned
  <2>. QED
    BY <1>00, <2>1, <2>2, <2>3 DEF DriftInv, DriftsReported, Writing, Loaded, Concepts, Current
<1>3. ASSUME NEW p \in run.left, Write(p) PROVE DriftInv'
  <2>1. /\ run.pc = "write" /\ p \in run.left /\ disk' = [q \in DOMAIN disk \cup {p} |-> IF q = p THEN run.plan[p] ELSE disk[q]]
        /\ run' = [run EXCEPT !.left = run.left \ {p}] /\ UNCHANGED <<move, runs, first, touched, partial>>
    BY <1>3 DEF Write
  <2>2. run'.pc = "write" /\ run'.left = run.left \ {p} /\ run'.plan = run.plan /\ run'.drifts = run.drifts
    BY <2>1
  <2>3. \A q : Planned(q)' = Planned(q)
    BY <2>1, <2>2 DEF Planned
  <2>4. p \in DOMAIN run.plan /\ DOMAIN disk = DOMAIN first /\ p \in DOMAIN first
    BY <2>1 DEF MoveInv, Writing
  <2>5. \A q \in DOMAIN first : At(q)
    BY <1>00, <2>1 DEF Writing
  <2>6. \A q \in DOMAIN first : At(q)'
    <3>. SUFFICES ASSUME NEW q \in DOMAIN first PROVE At(q)'
      BY <2>1
    <3>1. CASE q = p
      BY <2>1, <2>2, <2>3, <2>4, <3>1 DEF Planned
    <3>2. CASE q # p
      BY <2>1, <2>2, <2>3, <2>4, <2>5, <3>2
    <3>. QED
      BY <3>1, <3>2
  <2>7. (run.drifts = {q \in Loaded(first) : Due(q)})'
    BY <1>00, <2>1, <2>2, <2>3 DEF Writing, Loaded, Concepts, Current
  <2>. QED
    BY <2>1, <2>2, <2>6, <2>7 DEF DriftInv, DriftsReported
<1>4. CASE Rename
  <2>1. /\ run.pc = "write" /\ run.left = {} /\ move.src \in DOMAIN disk /\ run' = [run EXCEPT !.pc = "done"]
        /\ disk' = [q \in AfterMove(DOMAIN disk, move.src, run.dst) |-> IF q = run.dst THEN disk[move.src] ELSE disk[q]]
        /\ UNCHANGED <<move, runs, first, touched, partial>>
    BY <1>4 DEF Rename
  <2>2. run'.pc = "done" /\ run'.dst = run.dst /\ run'.drifts = run.drifts
    BY <2>1
  <2>3. DOMAIN disk = DOMAIN first /\ run.dst \notin DOMAIN first /\ \A p \in DOMAIN first : disk[p] = Planned(p)
    BY <1>00, <2>1 DEF MoveInv, Writing
  <2>4. ASSUME NEW p \in DOMAIN first
        PROVE  disk'[Image(p)'] = Planned(p)
    BY <2>1, <2>2, <2>3 DEF Image, AfterMove
  <2>5. run.drifts = {p \in Loaded(first) : Due(p)}
    BY <1>00, <2>1 DEF Writing
  <2>6. run'.drifts = {p \in Loaded(first) : Current(first[p]) /\ ~Current(disk'[Image(p)'])}
    BY <2>2, <2>4, <2>5 DEF Loaded, Concepts
  <2>7. (run.drifts = {p \in Loaded(first) : Current(first[p]) /\ ~Current(disk[Image(p)])})'
    BY <2>1, <2>6 DEF Loaded, Concepts, Current
  <2>. QED
    BY <2>2, <2>7 DEF DriftInv, DriftsReported, Writing
<1>5. CASE Fail
  <2>1. run'.pc = "failed"
    BY <1>5 DEF Fail, NotRun, Phase
  <2>. QED
    BY <2>1 DEF DriftInv, DriftsReported, Writing
<1>6. CASE UNCHANGED vars
  <2>1. UNCHANGED <<disk, move, run, runs, first, touched>>
    BY <1>6 DEF vars
  <2>. QED
    BY <2>1 DEF DriftInv, DriftsReported, Writing, Image, Planned, Loaded, Concepts, Current
<1>7. \A p : ~Edit(p)
  BY DEF Edit
<1>. QED
  BY <1>1, <1>2, <1>3, <1>4, <1>5, <1>6, <1>7 DEF Next

\* The concepts a first move says will drift are exactly those whose attestation held before
\* and no longer does.
THEOREM ReportsEveryDrift == Spec => []DriftsReported
<1>1. Init => MoveInv /\ DriftInv
  BY MoveInit
<1>2. MoveInv /\ DriftInv /\ [Next]_vars => (MoveInv /\ DriftInv)'
  BY MoveStep, DriftStep
<1>3. DriftInv => DriftsReported
  BY DEF DriftInv, DriftsReported
<1>. QED
  BY <1>1, <1>2, <1>3, PTL DEF Spec

----------------------------------------------------------------------------
(* Sequences and paths: normalising, relating one directory to another. *)
\* What holds of 0 and of the next number holds up to any number.
LEMMA UpTo ==
  ASSUME NEW n \in Nat, NEW T, 0 \in T, \A k \in 1 .. n : k - 1 \in T => k \in T
  PROVE  \A k \in 0 .. n : k \in T
<1>. DEFINE Bad == {k \in 0 .. n : k \notin T}
<1>0. Bad \subseteq Nat
  OBVIOUS
<1>1. Bad # {} => \E x \in Bad : \A y \in Bad : ~ (<<y, x>> \in OpToRel(<, Nat))
  BY <1>0, NatLessThanWellFounded, WFMin
<1>2. \A x, y \in Nat : x < y => <<x, y>> \in OpToRel(<, Nat)
  BY DEF OpToRel
<1>3. SUFFICES ASSUME Bad # {} PROVE FALSE
  OBVIOUS
<1>4. PICK x \in Bad : \A y \in Bad : ~ (y < x)
  BY <1>0, <1>1, <1>2, <1>3
<1>5. x \in 1 .. n /\ x \notin T
  OBVIOUS
<1>6. x - 1 \in T
  BY <1>4, <1>5
<1>. QED
  BY <1>5, <1>6

\* A step of the normalisation takes a sequence to a sequence.
LEMMA Climbs ==
  ASSUME NEW S, NEW out \in Seq(S), NEW s \in S
  PROVE  /\ Climb(out, s) \in Seq(S)
         /\ s # ".." => Climb(out, s) = Append(out, s)
         /\ s = ".." /\ out # <<>> /\ out[Len(out)] # ".." => Climb(out, s) = SubSeq(out, 1, Len(out) - 1)
         /\ s = ".." /\ (out = <<>> \/ out[Len(out)] = "..") => Climb(out, s) = Append(out, s)
BY DEF Climb, Last, Front

\* The normalisation goes through the segments one by one.
LEMMA Normalising ==
  ASSUME NEW S, NEW s \in Seq(S)
  PROVE  \E out : /\ out \in [0 .. Len(s) -> Seq(S)] /\ out[0] = <<>> /\ Normal(s) = out[Len(s)]
                  /\ \A k \in 1 .. Len(s) : out[k] = Climb(out[k - 1], s[k])
<1>. DEFINE Body(g) == [n \in 0 .. Len(s) |-> IF n = 0 THEN <<>> ELSE Climb(g[n - 1], s[n])]
            out == CHOOSE g : g = Body(g)
            Part(k, g) == /\ g \in [0 .. k -> Seq(S)] /\ g[0] = <<>>
                          /\ \A n \in 1 .. k : g[n] = Climb(g[n - 1], s[n])
            T == {k \in 0 .. Len(s) : \E g : Part(k, g)}
<1>0. Len(s) \in Nat /\ \A k \in 1 .. Len(s) : s[k] \in S
  OBVIOUS
<1>1. Normal(s) = out[Len(s)]
  BY DEF Normal
<1>2. 0 \in T
  <2>1. Part(0, [n \in 0 .. 0 |-> <<>>])
    OBVIOUS
  <2>. HIDE DEF Part
  <2>. QED
    BY <1>0, <2>1
<1>3. ASSUME NEW k \in 1 .. Len(s), k - 1 \in T
      PROVE  k \in T
  <2>1. PICK g : Part(k - 1, g)
    BY <1>3
  <2>. DEFINE h == [n \in 0 .. k |-> IF n = k THEN Climb(g[k - 1], s[k]) ELSE g[n]]
  <2>0. g[k - 1] \in Seq(S) /\ s[k] \in S
    BY <1>0, <2>1
  <2>2. Climb(g[k - 1], s[k]) \in Seq(S)
    BY <2>0, Climbs
  <2>3. h \in [0 .. k -> Seq(S)] /\ h[0] = <<>>
    BY <2>1, <2>2
  <2>4. ASSUME NEW n \in 1 .. k
        PROVE  h[n] = Climb(h[n - 1], s[n])
    <3>1. h[n - 1] = g[n - 1]
      OBVIOUS
    <3>2. CASE n = k
      BY <3>1, <3>2
    <3>3. CASE n # k
      <4>1. n \in 1 .. k - 1 /\ h[n] = g[n]
        BY <3>3
      <4>. QED
        BY <2>1, <3>1, <4>1
    <3>. QED
      BY <3>2, <3>3
  <2>5. Part(k, h)
    BY <2>3, <2>4
  <2>. HIDE DEF Part, h
  <2>. QED
    BY <2>5
<1>4. Len(s) \in T
  <2>. HIDE DEF T
  <2>1. \A k \in 1 .. Len(s) : k - 1 \in T => k \in T
    BY <1>3
  <2>2. \A k \in 0 .. Len(s) : k \in T
    BY <1>0, <1>2, <2>1, UpTo
  <2>. QED
    BY <1>0, <2>2
<1>5. PICK g : Part(Len(s), g)
  BY <1>4
<1>6. g = Body(g)
  BY <1>0, <1>5
<1>7. out = Body(out)
  <2>. HIDE DEF Body
  <2>. QED
    BY <1>6
<1>8. DOMAIN out = 0 .. Len(s) /\ out[0] = <<>> /\ \A k \in 1 .. Len(s) : out[k] = Climb(out[k - 1], s[k])
  <2>. HIDE DEF out
  <2>. QED
    BY <1>0, <1>7
<1>9. \A k \in 0 .. Len(s) : out[k] \in Seq(S)
  <2>. DEFINE U == {k \in 0 .. Len(s) : out[k] \in Seq(S)}
  <2>. HIDE DEF out
  <2>0. <<>> \in Seq(S)
    OBVIOUS
  <2>1. 0 \in U
    <3>. HIDE DEF Body
    <3>1. out[0] \in Seq(S) /\ 0 \in 0 .. Len(s)
      BY <1>0, <1>8, <2>0
    <3>. QED
      BY <3>1
  <2>2. ASSUME NEW k \in 1 .. Len(s), k - 1 \in U
        PROVE  k \in U
    <3>1. out[k - 1] \in Seq(S) /\ s[k] \in S /\ out[k] = Climb(out[k - 1], s[k])
      BY <1>0, <1>8, <2>2
    <3>2. out[k] \in Seq(S)
      BY <3>1, Climbs
    <3>. QED
      BY <3>2
  <2>3. \A k \in 0 .. Len(s) : k \in U
    <3>. HIDE DEF U
    <3>. QED
      BY <1>0, <2>1, <2>2, UpTo
  <2>. QED
    BY <2>3
<1>10. out \in [0 .. Len(s) -> Seq(S)]
  <2>. HIDE DEF out
  <2>1. out = [k \in 0 .. Len(s) |-> out[k]]
    BY <1>7
  <2>. QED
    BY <1>9, <2>1
<1>. HIDE DEF out
<1>. QED
  BY <1>1, <1>8, <1>10

\* A beginning of a sequence, made longer, made shorter, and after another one.
LEMMA Beginnings ==
  ASSUME NEW S, NEW s \in Seq(S)
  PROVE  /\ \A n \in 0 .. Len(s) : SubSeq(s, 1, n) \in Seq(S) /\ Len(SubSeq(s, 1, n)) = n
         /\ \A n \in 0 .. Len(s) : \A i \in 1 .. n : SubSeq(s, 1, n)[i] = s[i]
         /\ \A n \in 1 .. Len(s) : Append(SubSeq(s, 1, n - 1), s[n]) = SubSeq(s, 1, n)
         /\ \A n \in 1 .. Len(s) : SubSeq(SubSeq(s, 1, n), 1, n - 1) = SubSeq(s, 1, n - 1)
         /\ \A t \in Seq(S) : \A n \in 1 .. Len(s) : Append(t \o SubSeq(s, 1, n - 1), s[n]) = t \o SubSeq(s, 1, n)
<1>1. ASSUME NEW n \in 0 .. Len(s)
      PROVE  SubSeq(s, 1, n) \in Seq(S) /\ Len(SubSeq(s, 1, n)) = n /\ \A i \in 1 .. n : SubSeq(s, 1, n)[i] = s[i]
  OBVIOUS
<1>2. ASSUME NEW n \in 1 .. Len(s)
      PROVE  Append(SubSeq(s, 1, n - 1), s[n]) = SubSeq(s, 1, n)
  OBVIOUS
<1>3. ASSUME NEW n \in 1 .. Len(s)
      PROVE  SubSeq(SubSeq(s, 1, n), 1, n - 1) = SubSeq(s, 1, n - 1)
  OBVIOUS
<1>4. ASSUME NEW t \in Seq(S), NEW n \in 1 .. Len(s)
      PROVE  Append(t \o SubSeq(s, 1, n - 1), s[n]) = t \o SubSeq(s, 1, n)
  <2>1. SubSeq(s, 1, n - 1) \in Seq(S) /\ SubSeq(s, 1, n) \in Seq(S) /\ s[n] \in S
    BY <1>1
  <2>. DEFINE l == Append(t \o SubSeq(s, 1, n - 1), s[n])
              r == t \o SubSeq(s, 1, n)
  <2>2. l \in Seq(S) /\ r \in Seq(S) /\ Len(l) = Len(r)
    BY <1>1, <2>1
  <2>3. ASSUME NEW i \in 1 .. Len(l)
        PROVE  l[i] = r[i]
    BY <1>1, <2>1
  <2>. QED
    BY <2>2, <2>3, SeqEqual
<1>. QED
  BY <1>1, <1>2, <1>3, <1>4


\* Segments other than ".." are appended one by one.
LEMMA Descends ==
  ASSUME NEW S, NEW b \in Seq(S), NEW c \in Seq(S), NEW out, NEW m \in Nat, out[m] = b,
         \A j \in 1 .. Len(c) : c[j] # "..",
         \A j \in 1 .. Len(c) : out[m + j] = Climb(out[m + (j - 1)], c[j])
  PROVE  out[m + Len(c)] = b \o c
<1>. DEFINE U == {j \in 0 .. Len(c) : out[m + j] = b \o SubSeq(c, 1, j)}
<1>0. Len(c) \in Nat
  OBVIOUS
<1>1. 0 \in U
  <2>1. SubSeq(c, 1, 0) = <<>> /\ b \o <<>> = b
    OBVIOUS
  <2>. QED
    BY <1>0, <2>1
<1>2. ASSUME NEW j \in 1 .. Len(c), j - 1 \in U
      PROVE  j \in U
  <2>1. PICK was : was = out[m + (j - 1)]
    OBVIOUS
  <2>2. was = b \o SubSeq(c, 1, j - 1)
    BY <1>2, <2>1
  <2>3. SubSeq(c, 1, j - 1) \in Seq(S) /\ c[j] \in S /\ c[j] # ".."
    BY <1>0, Beginnings
  <2>4. was \in Seq(S)
    BY <2>2, <2>3
  <2>5. Climb(was, c[j]) = Append(was, c[j])
    BY <2>3, <2>4, Climbs
  <2>6. Append(was, c[j]) = b \o SubSeq(c, 1, j)
    BY <2>2, Beginnings
  <2>7. out[m + j] = b \o SubSeq(c, 1, j)
    BY <2>1, <2>5, <2>6
  <2>. QED
    BY <1>0, <2>7
<1>3. \A j \in 0 .. Len(c) : j \in U
  <2>. HIDE DEF U
  <2>1. \A j \in 1 .. Len(c) : j - 1 \in U => j \in U
    BY <1>2
  <2>. QED
    BY <1>0, <1>1, <2>1, UpTo
<1>4. out[m + Len(c)] = b \o SubSeq(c, 1, Len(c))
  BY <1>0, <1>3
<1>. QED
  BY <1>4, SubSeqFull

\* Each ".." takes off a segment that is another.
LEMMA Ascends ==
  ASSUME NEW S, NEW a \in Seq(S), ".." \in S, NEW k \in 0 .. Len(a), NEW out, NEW m \in Nat, out[m] = a,
         \A j \in 1 .. Len(a) : a[j] # "..",
         \A j \in 1 .. k : out[m + j] = Climb(out[m + (j - 1)], "..")
  PROVE  out[m + k] = SubSeq(a, 1, Len(a) - k)
<1>. DEFINE U == {j \in 0 .. k : out[m + j] = SubSeq(a, 1, Len(a) - j)}
<1>0. Len(a) \in Nat /\ k \in Nat
  OBVIOUS
<1>1. 0 \in U
  <2>1. SubSeq(a, 1, Len(a) - 0) = a
    BY <1>0, SubSeqFull
  <2>. QED
    BY <1>0, <2>1
<1>2. ASSUME NEW j \in 1 .. k, j - 1 \in U
      PROVE  j \in U
  <2>1. PICK was : was = out[m + (j - 1)]
    OBVIOUS
  <2>0. Len(a) - (j - 1) \in 1 .. Len(a)
    BY <1>0
  <2>2. PICK n \in 1 .. Len(a) : n = Len(a) - (j - 1)
    BY <2>0
  <2>3. was = SubSeq(a, 1, n)
    BY <1>2, <2>1, <2>2
  <2>4. was \in Seq(S) /\ Len(was) = n /\ was[n] = a[n] /\ a[n] # ".."
    BY <1>0, <2>2, <2>3, Beginnings
  <2>5. was # <<>>
    BY <2>2, <2>4
  <2>6. Climb(was, "..") = SubSeq(was, 1, n - 1)
    BY <2>4, <2>5, Climbs
  <2>7. SubSeq(was, 1, n - 1) = SubSeq(a, 1, n - 1)
    BY <2>2, <2>3, Beginnings
  <2>8. n - 1 = Len(a) - j
    BY <1>0, <2>2
  <2>9. out[m + j] = SubSeq(a, 1, Len(a) - j)
    BY <2>1, <2>6, <2>7, <2>8
  <2>. QED
    BY <1>0, <2>9
<1>3. \A j \in 0 .. k : j \in U
  <2>. HIDE DEF U
  <2>1. \A j \in 1 .. k : j - 1 \in U => j \in U
    BY <1>2
  <2>. QED
    BY <1>0, <1>1, <2>1, UpTo
<1>. QED
  BY <1>0, <1>3

Ups(k) == [i \in 1 .. k |-> ".."]

\* Going up from a directory, then down.
LEMMA UpAndDown ==
  ASSUME NEW a \in Inside, NEW c \in Inside, NEW k \in 0 .. Len(a)
  PROVE  Normal(a \o Ups(k) \o c) = SubSeq(a, 1, Len(a) - k) \o c
<1>1. PICK T : T = Segments \cup {".."}
  OBVIOUS
<1>2. /\ a \in Seq(T) /\ c \in Seq(T) /\ ".." \in T /\ Len(a) \in Nat /\ Len(c) \in Nat
      /\ \A j \in 1 .. Len(a) : a[j] # ".."
      /\ \A j \in 1 .. Len(c) : c[j] # ".."
  BY <1>1 DEF Inside
<1>3. Ups(k) \in Seq(T) /\ Len(Ups(k)) = k /\ \A j \in 1 .. k : Ups(k)[j] = ".."
  BY <1>2 DEF Ups
<1>30. PICK u \in Seq(T) : u = Ups(k)
  BY <1>3
<1>40. a \o u \in Seq(T) /\ Len(a \o u) = Len(a) + k
  BY <1>2, <1>3, <1>30
<1>41. \A j \in 1 .. Len(a) : (a \o u)[j] = a[j]
  BY <1>2, <1>3, <1>30
<1>42. \A j \in 1 .. k : (a \o u)[Len(a) + j] = ".."
  BY <1>2, <1>3, <1>30
<1>43. PICK w \in Seq(T) : w = a \o u
  BY <1>40
<1>44. w \o c \in Seq(T) /\ Len(w \o c) = Len(a) + k + Len(c)
  <2>1. w \o c \in Seq(T) /\ Len(w \o c) = Len(w) + Len(c)
    BY <1>2, ConcatProperties
  <2>. QED
    BY <1>2, <1>40, <1>43, <2>1
<1>45. PICK s \in Seq(T) : s = w \o c
  BY <1>44
<1>4. /\ s = a \o u \o c /\ Len(s) = Len(a) + k + Len(c)
      /\ \A j \in 1 .. Len(a) : s[j] = a[j]
      /\ \A j \in 1 .. k : s[Len(a) + j] = ".."
      /\ \A j \in 1 .. Len(c) : s[Len(a) + k + j] = c[j]
  <2>1. \A j \in 1 .. Len(w) : s[j] = w[j]
    BY <1>2, <1>45
  <2>2. \A j \in 1 .. Len(c) : s[Len(w) + j] = c[j]
    BY <1>2, <1>45
  <2>3. \A j \in 1 .. Len(a) : s[j] = a[j]
    BY <1>2, <1>40, <1>41, <1>43, <2>1
  <2>4. ASSUME NEW j \in 1 .. k
        PROVE  s[Len(a) + j] = ".."
    <3>1. Len(a) + j \in 1 .. Len(w)
      BY <1>2, <1>40, <1>43
    <3>2. w[Len(a) + j] = ".."
      BY <1>42, <1>43
    <3>. QED
      BY <2>1, <3>1, <3>2
  <2>. QED
    BY <1>40, <1>43, <1>44, <1>45, <2>2, <2>3, <2>4
<1>5. PICK out : /\ out \in [0 .. Len(s) -> Seq(T)] /\ out[0] = <<>> /\ Normal(s) = out[Len(s)]
                 /\ \A n \in 1 .. Len(s) : out[n] = Climb(out[n - 1], s[n])
  BY Normalising
<1>6. out[Len(a)] = a
  <2>0. PICK z \in Nat : z = 0
    OBVIOUS
  <2>1. \A j \in 1 .. Len(a) : out[z + j] = Climb(out[z + (j - 1)], a[j])
    BY <1>2, <1>4, <1>5, <2>0
  <2>2. <<>> \in Seq(T)
    OBVIOUS
  <2>3. PICK e \in Seq(T) : e = <<>>
    BY <2>2
  <2>4. out[z] = e
    BY <1>5, <2>0, <2>3
  <2>5. out[z + Len(a)] = e \o a
    BY <1>2, <2>1, <2>4, Descends
  <2>6. e \o a = a
    BY <1>2, <2>3, ConcatEmptySeq
  <2>. QED
    BY <1>2, <2>0, <2>5, <2>6
<1>7. out[Len(a) + k] = SubSeq(a, 1, Len(a) - k)
  <2>1. ASSUME NEW j \in 1 .. k
        PROVE  out[Len(a) + j] = Climb(out[Len(a) + (j - 1)], "..")
    <3>1. Len(a) + j \in 1 .. Len(s) /\ (Len(a) + j) - 1 = Len(a) + (j - 1)
      BY <1>2, <1>4
    <3>2. PICK n \in 1 .. Len(s) : n = Len(a) + j /\ n - 1 = Len(a) + (j - 1)
      BY <3>1
    <3>3. s[n] = ".."
      BY <1>4, <3>2
    <3>4. out[n] = Climb(out[n - 1], "..")
      BY <1>5, <3>3
    <3>. QED
      BY <3>2, <3>4
  <2>2. out[Len(a)] = a
    BY <1>2, <1>6
  <2>. QED
    BY <1>2, <2>1, <2>2, Ascends
<1>8. out[(Len(a) + k) + Len(c)] = SubSeq(a, 1, Len(a) - k) \o c
  <2>1. ASSUME NEW j \in 1 .. Len(c)
        PROVE  out[(Len(a) + k) + j] = Climb(out[(Len(a) + k) + (j - 1)], c[j])
    <3>1. Len(a) + k + j \in 1 .. Len(s) /\ (Len(a) + k + j) - 1 = (Len(a) + k) + (j - 1)
      BY <1>2, <1>4
    <3>2. PICK n \in 1 .. Len(s) : n = Len(a) + k + j /\ n - 1 = (Len(a) + k) + (j - 1)
      BY <3>1
    <3>3. s[n] = c[j]
      BY <1>4, <3>2
    <3>4. out[n] = Climb(out[n - 1], c[j])
      BY <1>5, <3>3
    <3>. QED
      BY <3>2, <3>4
  <2>2. SubSeq(a, 1, Len(a) - k) \in Seq(T)
    BY <1>2, Beginnings
  <2>3. Len(a) + k \in Nat
    BY <1>2
  <2>. QED
    BY <1>2, <1>7, <2>1, <2>2, <2>3, Descends
<1>. QED
  BY <1>2, <1>30, <1>4, <1>5, <1>8

\* A directory is its own normal form.
LEMMA Already ==
  ASSUME NEW a \in Inside
  PROVE  Normal(a) = a
<1>0. <<>> \in Inside
  BY DEF Inside
<1>1. PICK e \in Inside : e = <<>>
  BY <1>0
<1>2. Ups(0) = e
  BY <1>1 DEF Ups
<1>3. a \o e = a /\ SubSeq(a, 1, Len(a)) = a /\ Len(a) \in Nat /\ a \o e \in Inside
  BY <1>1 DEF Inside
<1>4. PICK k \in 0 .. Len(a) : k = 0 /\ Len(a) - k = Len(a)
  BY <1>3
<1>5. Normal(a \o Ups(k) \o e) = SubSeq(a, 1, Len(a) - k) \o e
  BY <1>1, UpAndDown
<1>. QED
  BY <1>2, <1>3, <1>4, <1>5

\* Of a set of places one is the last.
LEMMA LastPlace ==
  ASSUME NEW n \in Nat, NEW S \in SUBSET (1 .. n), S # {}
  PROVE  \E i \in S : \A j \in S : j <= i
<1>. DEFINE T == {k \in 0 .. n : \A j \in S : j <= n - k}
<1>1. SUFFICES ASSUME ~ \E i \in S : \A j \in S : j <= i PROVE FALSE
  OBVIOUS
<1>2. 0 \in T
  OBVIOUS
<1>3. ASSUME NEW k \in 1 .. n, k - 1 \in T
      PROVE  k \in T
  <2>1. \A j \in S : j <= n - (k - 1)
    BY <1>3
  <2>2. n - (k - 1) \notin S
    BY <1>1, <2>1
  <2>3. ASSUME NEW j \in S
        PROVE  j <= n - k
    <3>1. j \in 1 .. n /\ j <= n - (k - 1) /\ j # n - (k - 1)
      BY <2>1, <2>2
    <3>. QED
      BY <3>1
  <2>. QED
    BY <2>3
<1>4. n \in T
  <2>. HIDE DEF T
  <2>1. \A k \in 1 .. n : k - 1 \in T => k \in T
    BY <1>3
  <2>2. \A k \in 0 .. n : k \in T
    BY <1>2, <2>1, UpTo
  <2>. QED
    BY <2>2
<1>5. PICK i \in S : i \in 1 .. n
  OBVIOUS
<1>6. i <= n - n
  BY <1>4
<1>. QED
  BY <1>5, <1>6

\* Two sequences that agree up to a place begin alike.
LEMMA BeginAlike ==
  ASSUME NEW S, NEW a \in Seq(S), NEW b \in Seq(S), NEW n \in Nat, n <= Len(a), n <= Len(b), \A i \in 1 .. n : a[i] = b[i]
  PROVE  SubSeq(a, 1, n) = SubSeq(b, 1, n)
<1>. DEFINE x == SubSeq(a, 1, n)
            y == SubSeq(b, 1, n)
<1>1. n \in 0 .. Len(a) /\ n \in 0 .. Len(b)
  OBVIOUS
<1>2. x \in Seq(S) /\ y \in Seq(S) /\ Len(x) = n /\ Len(y) = n /\ \A i \in 1 .. n : x[i] = a[i] /\ y[i] = b[i]
  BY <1>1, Beginnings
<1>. HIDE DEF x, y
<1>3. x = y
  BY <1>2, SeqEqual
<1>. QED
  BY <1>3 DEF x, y

\* What two directories share is a beginning of both.
LEMMA SharesBeginning ==
  ASSUME NEW a \in Inside, NEW b \in Inside
  PROVE  /\ Shared(a, b) \in 0 .. Len(a) /\ Shared(a, b) <= Len(b)
         /\ \A i \in 1 .. Shared(a, b) : a[i] = b[i]
<1>. DEFINE D == {n \in 1 .. Len(a) : n <= Len(b) /\ SubSeq(a, 1, n) = SubSeq(b, 1, n)}
<1>0. Len(a) \in Nat /\ Len(b) \in Nat /\ a \in Seq(Segments \ {".."}) /\ b \in Seq(Segments \ {".."})
  BY DEF Inside
<1>1. ASSUME NEW n \in D
      PROVE  n \in 1 .. Len(a) /\ n <= Len(b) /\ \A i \in 1 .. n : a[i] = b[i]
  <2>1. n \in 0 .. Len(a) /\ n \in 0 .. Len(b)
    BY <1>0
  <2>2. SubSeq(a, 1, n) = SubSeq(b, 1, n)
    OBVIOUS
  <2>3. \A i \in 1 .. n : SubSeq(a, 1, n)[i] = a[i] /\ SubSeq(b, 1, n)[i] = b[i]
    BY <1>0, <2>1, Beginnings
  <2>4. \A i \in 1 .. n : a[i] = b[i]
    BY <2>2, <2>3
  <2>. QED
    BY <2>4
<1>2. ASSUME NEW n \in 1 .. Len(a), n <= Len(b), \A i \in 1 .. n : a[i] = b[i]
      PROVE  n \in D
  BY <1>0, <1>2, BeginAlike
<1>3. Shared(a, b) = Cardinality(D)
  BY DEF Shared
<1>. HIDE DEF D
<1>4. CASE D = {}
  BY <1>0, <1>3, <1>4, FS_EmptySet
<1>5. CASE D # {}
  <2>1. D \in SUBSET (1 .. Len(a))
    BY <1>1
  <2>2. PICK m \in D : \A j \in D : j <= m
    BY <1>0, <1>5, <2>1, LastPlace
  <2>3. m \in 1 .. Len(a) /\ m <= Len(b) /\ \A i \in 1 .. m : a[i] = b[i]
    BY <1>1
  <2>4. \A j \in 1 .. m : j \in D
    BY <1>0, <1>2, <2>3
  <2>5. D = 1 .. m
    <3>1. \A j \in D : j \in 1 .. m
      BY <1>0, <2>1, <2>2, <2>3
    <3>. QED
      BY <2>4, <3>1
  <2>6. Cardinality(1 .. m) = m
    BY <2>3, FS_Interval
  <2>. QED
    BY <1>3, <2>3, <2>5, <2>6
<1>. QED
  BY <1>4, <1>5

\* The way from one directory to another leads there.
LEMMA WayLeadsThere ==
  ASSUME NEW a \in Inside, NEW b \in Inside, NEW most \in Nat
  PROVE  Normal(a \o Relative(a, b, most)) = b
<1>. DEFINE m == IF Shared(a, b) < most THEN Shared(a, b) ELSE most
<1>0. Len(a) \in Nat /\ Len(b) \in Nat /\ a \in Seq(Segments \ {".."}) /\ b \in Seq(Segments \ {".."})
  BY DEF Inside
<1>1. m \in 0 .. Len(a) /\ m <= Len(b) /\ \A i \in 1 .. m : a[i] = b[i]
  BY <1>0, SharesBeginning
<1>2. Relative(a, b, most) = Ups(Len(a) - m) \o SubSeq(b, m + 1, Len(b))
  BY DEF Relative, Ups
<1>. HIDE DEF m
<1>30. m \in Nat /\ m <= Len(a) /\ m + 1 \in 1 .. Len(b) + 1
  BY <1>0, <1>1
<1>31. Len(a) - m \in 0 .. Len(a)
  BY <1>0, <1>30
<1>3. PICK k \in 0 .. Len(a) : k = Len(a) - m
  BY <1>31
<1>40. SubSeq(b, m + 1, Len(b)) \in Inside
  BY <1>0, <1>30 DEF Inside
<1>4. PICK c \in Inside : c = SubSeq(b, m + 1, Len(b))
  BY <1>40
<1>5. Normal((a \o Ups(k)) \o c) = SubSeq(a, 1, m) \o c
  <2>1. Len(a) - k = m
    BY <1>0, <1>3, <1>30
  <2>2. Normal(a \o Ups(k) \o c) = SubSeq(a, 1, Len(a) - k) \o c
    BY UpAndDown
  <2>. QED
    BY <2>1, <2>2
<1>6. (a \o Ups(k)) \o c = a \o (Ups(k) \o c)
  <2>1. PICK T : T = Segments \cup {".."}
    OBVIOUS
  <2>2. a \in Seq(T) /\ c \in Seq(T) /\ Ups(k) \in Seq(T)
    BY <2>1 DEF Inside, Ups
  <2>. QED
    BY <2>2, ConcatAssociative
<1>7. SubSeq(a, 1, m) = SubSeq(b, 1, m)
  BY <1>0, <1>1, <1>30, BeginAlike
<1>8. SubSeq(b, 1, m) \o SubSeq(b, m + 1, Len(b)) = b
  <2>1. SubSeq(b, 1, m) \o SubSeq(b, m + 1, Len(b)) = SubSeq(b, 1, Len(b))
    <3>1. 1 \in 1 .. Len(b) + 1 /\ m \in 1 - 1 .. Len(b) /\ Len(b) \in m .. Len(b)
      BY <1>0, <1>1
    <3>. QED
      BY <1>0, <3>1, ConcatAdjacentSubSeq
  <2>. QED
    BY <1>0, <2>1, SubSeqFull
<1>. QED
  BY <1>2, <1>3, <1>4, <1>5, <1>6, <1>7, <1>8

UpsLead(r) == \A i, j \in 1 .. Len(r) : i < j /\ r[j] = ".." => r[i] = ".."

\* One more segment leaves the .. in front.
LEMMA ClimbKeepsUps ==
  ASSUME NEW S, NEW was \in Seq(S), NEW x \in S, UpsLead(was)
  PROVE  UpsLead(Climb(was, x))
<1>1. PICK r \in Seq(S) : r = Climb(was, x)
  BY Climbs
<1>0. Len(was) \in Nat
  OBVIOUS
<1>2. CASE x # ".."
  <2>1. r = Append(was, x)
    BY <1>1, <1>2, Climbs
  <2>2. Len(r) = Len(was) + 1 /\ r[Len(r)] = x /\ \A i \in 1 .. Len(was) : r[i] = was[i]
    BY <2>1
  <2>3. UpsLead(r)
    <3>. SUFFICES ASSUME NEW i \in 1 .. Len(r), NEW j \in 1 .. Len(r), i < j, r[j] = ".."
                  PROVE  r[i] = ".."
      BY DEF UpsLead
    <3>1. j # Len(r)
      BY <1>2, <2>2
    <3>2. i \in 1 .. Len(was) /\ j \in 1 .. Len(was)
      BY <1>0, <2>2, <3>1
    <3>3. was[j] = ".."
      BY <2>2, <3>2
    <3>4. was[i] = ".."
      BY <3>2, <3>3 DEF UpsLead
    <3>. QED
      BY <2>2, <3>2, <3>4
  <2>. QED
    BY <1>1, <2>3
<1>3. CASE x = ".." /\ was # <<>> /\ was[Len(was)] # ".."
  <2>1. r = SubSeq(was, 1, Len(was) - 1)
    BY <1>1, <1>3, Climbs
  <2>0. Len(was) - 1 \in 0 .. Len(was)
    BY <1>3
  <2>2. Len(r) = Len(was) - 1 /\ \A i \in 1 .. Len(r) : r[i] = was[i]
    BY <2>0, <2>1, Beginnings
  <2>. QED
    BY <1>0, <1>1, <2>0, <2>2 DEF UpsLead
<1>4. CASE x = ".." /\ (was = <<>> \/ was[Len(was)] = "..")
  <2>1. r = Append(was, x)
    BY <1>1, <1>4, Climbs
  <2>2. Len(r) = Len(was) + 1 /\ r[Len(r)] = ".." /\ \A i \in 1 .. Len(was) : r[i] = was[i]
    BY <1>4, <2>1
  <2>3. \A i \in 1 .. Len(was) : was[i] = ".."
    <3>1. CASE was = <<>>
      BY <3>1
    <3>2. CASE was # <<>>
      <4>1. Len(was) \in 1 .. Len(was) /\ was[Len(was)] = ".."
        BY <1>4, <3>2
      <4>2. \A i \in 1 .. Len(was) : i < Len(was) \/ i = Len(was)
        BY <1>0
      <4>. QED
        BY <4>1, <4>2 DEF UpsLead
    <3>. QED
      BY <3>1, <3>2
  <2>4. \A i \in 1 .. Len(r) : r[i] = ".."
    <3>1. \A i \in 1 .. Len(r) : i \in 1 .. Len(was) \/ i = Len(r)
      BY <1>0, <2>2
    <3>. QED
      BY <2>2, <2>3, <3>1
  <2>. QED
    BY <1>1, <2>4 DEF UpsLead
<1>. QED
  BY <1>2, <1>3, <1>4

\* In a normal form ".." comes first, and nothing in it is new.
LEMMA UpsFirst ==
  ASSUME NEW S, NEW s \in Seq(S)
  PROVE  Normal(s) \in Seq(S) /\ UpsLead(Normal(s))
<1>0. Len(s) \in Nat
  OBVIOUS
<1>1. PICK out : /\ out \in [0 .. Len(s) -> Seq(S)] /\ out[0] = <<>> /\ Normal(s) = out[Len(s)]
                 /\ \A n \in 1 .. Len(s) : out[n] = Climb(out[n - 1], s[n])
  BY Normalising
<1>. DEFINE U == {n \in 0 .. Len(s) : UpsLead(out[n])}
<1>2. 0 \in U
  <2>1. Len(<<>>) = 0
    OBVIOUS
  <2>2. UpsLead(<<>>)
    BY <2>1 DEF UpsLead
  <2>. QED
    BY <1>0, <1>1, <2>2
<1>3. \A n \in 1 .. Len(s) : n - 1 \in U => n \in U
  <2>. SUFFICES ASSUME NEW n \in 1 .. Len(s), n - 1 \in U PROVE n \in U
    OBVIOUS
  <2>1. out[n - 1] \in Seq(S) /\ s[n] \in S /\ UpsLead(out[n - 1])
    BY <1>0, <1>1
  <2>2. UpsLead(Climb(out[n - 1], s[n]))
    BY <2>1, ClimbKeepsUps
  <2>. QED
    BY <1>0, <1>1, <2>2
<1>4. \A n \in 0 .. Len(s) : n \in U
  <2>. HIDE DEF U
  <2>. QED
    BY <1>0, <1>2, <1>3, UpTo
<1>. QED
  BY <1>0, <1>1, <1>4

\* What is read as a place within the bundle is one.
LEMMA WithinIsInside ==
  ASSUME NEW s \in Seq(Segments), NEW i \in DOMAIN Within(Normal(s)), BundleName # ".."
  PROVE  Within(Normal(s))[i] \in Inside
<1>1. PICK n \in Seq(Segments) : n = Normal(s) /\ UpsLead(n)
  BY UpsFirst
<1>2. CASE ~Escapes(n)
  <2>1. Within(n) = <<n>>
    BY <1>2 DEF Within
  <2>2. \A j \in 1 .. Len(n) : n[j] # ".."
    BY <1>1, <1>2 DEF Escapes, UpsLead
  <2>3. n \in Inside
    BY <2>2 DEF Inside
  <2>. QED
    BY <1>1, <2>1, <2>3
<1>3. CASE Escapes(n)
  <2>. DEFINE r == SubSeq(n, 3, Len(n))
  <2>1. Within(n) = (IF Len(n) > 1 /\ n[2] = BundleName THEN <<r>> ELSE <<>>)
    BY <1>3 DEF Within
  <2>2. Len(n) >= 2 /\ n[2] # ".." /\ Within(n) = <<r>>
    BY <1>1, <2>1
  <2>3. \A j \in 3 .. Len(n) : n[j] \in Segments \ {".."}
    BY <1>1, <2>2 DEF UpsLead
  <2>4. r \in Inside
    BY <2>2, <2>3, SubSeqProperties DEF Inside
  <2>. HIDE DEF r
  <2>. QED
    BY <1>1, <2>2, <2>4
<1>. QED
  BY <1>2, <1>3

IsCommand(m) == m.to \in Seq(Segments) /\ m.cwd \in Seq(Segments)

\* A destination is a path for a concept.
LEMMA DestinationIsPath ==
  ASSUME NEW d, NEW m, IsCommand(m), BundleName # "..", m.src \in DOMAIN d, IsPath(m.src), ResolveDestination(d, m) # <<>>
  PROVE  LET dst == Head(ResolveDestination(d, m)) IN IsPath(dst) /\ dst.md = TRUE
<1>. DEFINE under == Within(Normal(m.cwd \o m.to))
            asId == Within(Normal(m.to))
            readings == under \o asId
            existing == {i \in DOMAIN readings : readings[i] \in Directories(d)}
            housed == {i \in DOMAIN readings : Front(readings[i]) \in Directories(d)}
            FirstOf(places) == readings[CHOOSE i \in places : \A j \in places : i <= j]
<1>1. /\ under \in Seq(Inside) /\ Len(under) \in 0 .. 1 /\ asId \in Seq(Inside) /\ Len(asId) \in 0 .. 1
  <2>1. ASSUME NEW s \in Seq(Segments)
        PROVE  Within(Normal(s)) \in Seq(Inside) /\ Len(Within(Normal(s))) \in 0 .. 1
    <3>1. PICK w : w = Within(Normal(s))
      OBVIOUS
    <3>2. \A i \in DOMAIN w : w[i] \in Inside
      BY <3>1, WithinIsInside
    <3>3. w = <<>> \/ \E r : w = <<r>>
      BY <3>1 DEF Within
    <3>4. CASE w = <<>>
      BY <3>1, <3>4
    <3>5. CASE \E r : w = <<r>>
      <4>1. PICK r : w = <<r>>
        BY <3>5
      <4>2. r \in Inside /\ Len(<<r>>) = 1
        BY <3>2, <4>1
      <4>3. <<r>> \in Seq(Inside)
        BY <4>2
      <4>. QED
        BY <3>1, <4>1, <4>2, <4>3
    <3>. QED
      BY <3>3, <3>4, <3>5
  <2>2. m.to \in Seq(Segments) /\ m.cwd \o m.to \in Seq(Segments)
    BY DEF IsCommand
  <2>. QED
    BY <2>1, <2>2
<1>2. readings \in Seq(Inside) /\ Len(readings) \in 0 .. 2
  <2>. HIDE DEF under, asId
  <2>1. readings \in Seq(Inside) /\ Len(readings) = Len(under) + Len(asId)
    BY <1>1, ConcatProperties
  <2>2. Len(under) + Len(asId) \in 0 .. 2
    <3>1. PICK k \in 0 .. 1 : k = Len(under)
      BY <1>1
    <3>2. PICK l \in 0 .. 1 : l = Len(asId)
      BY <1>1
    <3>3. k + l \in 0 .. 2
      OBVIOUS
    <3>. QED
      BY <3>1, <3>2, <3>3
  <2>. QED
    BY <2>1, <2>2
<1>. HIDE DEF under, asId
<1>3. ResolveDestination(d, m) =
        CASE existing # {} -> <<Into(FirstOf(existing), m.src)>>
          [] existing = {} /\ readings = <<>> -> <<>>
          [] existing = {} /\ readings # <<>> /\ m.slash -> <<Into(Head(readings), m.src)>>
          [] OTHER -> <<File(IF housed # {} THEN FirstOf(housed) ELSE Head(readings))>>
  BY DEF ResolveDestination, under, asId
<1>. HIDE DEF readings
<1>4. ASSUME NEW places \in SUBSET DOMAIN readings, places # {}
      PROVE  \E i \in DOMAIN readings : FirstOf(places) = readings[i]
  <2>1. \E i \in places : \A j \in places : i <= j
    BY <1>2, <1>4
  <2>. QED
    BY <2>1
<1>5. <<>> \in Directories(d)
  <2>1. m.src.dir \in Seq(Segments \ {".."})
    BY DEF IsPath, Inside
  <2>2. SubSeq(m.src.dir, 1, 0) = <<>> /\ 0 \in 0 .. Len(m.src.dir)
    BY <2>1
  <2>. QED
    BY <2>2 DEF Directories
<1>6. existing \subseteq DOMAIN readings /\ housed \subseteq DOMAIN readings
  OBVIOUS
<1>7. existing = {} => \A i \in DOMAIN readings : readings[i] # <<>>
  BY <1>5
<1>8. ASSUME NEW r \in Inside
      PROVE  /\ IsPath(Into(r, m.src)) /\ Into(r, m.src).md = TRUE
             /\ r # <<>> => IsPath(File(r)) /\ File(r).md = TRUE
  <2>1. IsPath(Into(r, m.src)) /\ Into(r, m.src).md = TRUE
    BY DEF IsPath, Into, Path
  <2>2. ASSUME r # <<>>
        PROVE  Front(r) \in Inside /\ Last(r) # ""
    <3>1. r \in Seq(Segments \ {".."}) /\ Len(r) \in Nat \ {0}
      BY <2>2 DEF Inside
    <3>2. SubSeq(r, 1, Len(r) - 1) \in Seq(Segments \ {".."}) /\ r[Len(r)] \in Segments
      BY <3>1
    <3>. QED
      BY <3>2 DEF Inside, Front, Last, Segments
  <2>3. r # <<>> => IsPath(File(r)) /\ File(r).md = TRUE
    BY <2>2 DEF IsPath, File, Path
  <2>. QED
    BY <2>1, <2>3
<1>9. readings # <<>> => \E i \in DOMAIN readings : Head(readings) = readings[i]
  BY <1>2
<1>10. CASE existing # {}
  <2>1. PICK i \in DOMAIN readings : FirstOf(existing) = readings[i]
    BY <1>4, <1>6, <1>10
  <2>2. ResolveDestination(d, m) = <<Into(readings[i], m.src)>>
    BY <1>3, <1>10, <2>1
  <2>3. readings[i] \in Inside
    BY <1>2
  <2>6. Head(ResolveDestination(d, m)) = Into(readings[i], m.src)
    BY <2>2
  <2>. QED
    BY <1>8, <2>6, <2>3
<1>11. CASE existing = {} /\ m.slash
  <2>1. readings # <<>>
    BY <1>3, <1>11
  <2>2. PICK i \in DOMAIN readings : Head(readings) = readings[i]
    BY <1>9, <2>1
  <2>3. ResolveDestination(d, m) = <<Into(readings[i], m.src)>>
    BY <1>3, <1>11, <2>1, <2>2
  <2>4. readings[i] \in Inside
    BY <1>2
  <2>6. Head(ResolveDestination(d, m)) = Into(readings[i], m.src)
    BY <2>3
  <2>. QED
    BY <1>8, <2>6, <2>4
<1>12. CASE existing = {} /\ ~m.slash
  <2>1. readings # <<>>
    BY <1>3, <1>12
  <2>2. ResolveDestination(d, m) = <<File(IF housed # {} THEN FirstOf(housed) ELSE Head(readings))>>
    BY <1>3, <1>12, <2>1
  <2>3. \E i \in DOMAIN readings : (IF housed # {} THEN FirstOf(housed) ELSE Head(readings)) = readings[i]
    <3>1. CASE housed # {}
      <4>1. \E i \in DOMAIN readings : FirstOf(housed) = readings[i]
        BY <1>4, <1>6, <3>1
      <4>. QED
        BY <3>1, <4>1
    <3>2. CASE housed = {}
      BY <1>9, <2>1, <3>2
    <3>. QED
      BY <3>1, <3>2
  <2>4. PICK i \in DOMAIN readings : ResolveDestination(d, m) = <<File(readings[i])>>
    BY <2>2, <2>3
  <2>5. readings[i] \in Inside /\ readings[i] # <<>>
    BY <1>2, <1>7, <1>12
  <2>6. Head(ResolveDestination(d, m)) = File(readings[i])
    BY <2>4
  <2>. QED
    BY <1>8, <2>6, <2>5
<1>. QED
  BY <1>10, <1>11, <1>12

----------------------------------------------------------------------------
(* What a reference reaches, before and after. *)
Moving(files, src, dst) ==
  /\ src \in files /\ dst \notin files /\ src.name # "index" /\ IsPath(dst) /\ dst.md = TRUE
  /\ \A p \in files : IsPath(p)
Nameless(ref) == ref.name = ""
(* A directory that a reference may name other than as "/". *)
Below(ref, dir) == Nameless(ref) => dir # <<>>
SameName(a, b) == a.name = b.name
SameEnding(a, b) == a.md = b.md
Clear(files, dst) == dst.name \notin Dotted /\ Path(dst.dir, dst.name, FALSE) \notin files

\* A path's parts.
LEMMA PathIs ==
  ASSUME NEW dir, NEW name, NEW md
  PROVE  Path(dir, name, md).dir = dir /\ Path(dir, name, md).name = name /\ Path(dir, name, md).md = md
BY DEF Path

\* A reference reaches one file at most, of its directory and its name.
LEMMA HitIs ==
  ASSUME NEW files, NEW dir, NEW ref, NEW q \in Hits(files, dir, ref)
  PROVE  /\ q \in files /\ q.dir = dir /\ \A other \in Hits(files, dir, ref) : other = q
         /\ Nameless(ref) => q.name = "index"
         /\ ~Nameless(ref) => SameName(q, ref)
<1>1. CASE ref.name = ""
  <2>1. Hits(files, dir, ref) = files \cap {IndexOf(dir)}
    BY <1>1 DEF Hits
  <2>2. q = IndexOf(dir) /\ q \in files /\ Hits(files, dir, ref) = {q}
    BY <2>1
  <2>3. q.dir = dir /\ q.name = "index"
    BY <2>2 DEF IndexOf, Path
  <2>4. Nameless(ref)
    BY <1>1 DEF Nameless
  <2>. QED
    BY <2>2, <2>3, <2>4
<1>2. CASE ref.name # ""
  <2>. DEFINE direct == files \cap {Path(dir, ref.name, ref.md)}
              md == files \cap {Path(dir, ref.name, TRUE)}
  <2>0. ~Nameless(ref)
    BY <1>2 DEF Nameless
  <2>1. Hits(files, dir, ref) = IF direct # {} \/ ref.md \/ ref.name \in Dotted THEN direct ELSE md
    BY <1>2 DEF Hits
  <2>2. CASE direct # {} \/ ref.md \/ ref.name \in Dotted
    <3>1. Hits(files, dir, ref) = direct
      BY <2>1, <2>2
    <3>2. q = Path(dir, ref.name, ref.md) /\ q \in files /\ Hits(files, dir, ref) = {q}
      BY <3>1
    <3>3. q.dir = dir /\ SameName(q, ref)
      BY <3>2 DEF Path, SameName
    <3>. QED
      BY <2>0, <3>2, <3>3
  <2>3. CASE ~(direct # {} \/ ref.md \/ ref.name \in Dotted)
    <3>1. Hits(files, dir, ref) = md
      BY <2>1, <2>3
    <3>2. q = Path(dir, ref.name, TRUE) /\ q \in files /\ Hits(files, dir, ref) = {q}
      BY <3>1
    <3>3. q.dir = dir /\ SameName(q, ref)
      BY <3>2 DEF Path, SameName
    <3>. QED
      BY <2>0, <3>2, <3>3
  <2>. QED
    BY <2>2, <2>3
<1>. QED
  BY <1>1, <1>2

\* One spelled with .md reaches a file that has it.
LEMMA HitEnding ==
  ASSUME NEW files, NEW dir, NEW ref, ~Nameless(ref), ref.md, NEW q \in Hits(files, dir, ref)
  PROVE  q = Path(dir, ref.name, ref.md)
BY DEF Hits, Nameless

\* It still does when another file has moved.
LEMMA HitKept ==
  ASSUME NEW files, NEW src, NEW dst, Moving(files, src, dst),
         NEW dir, NEW ref, ref.md \in BOOLEAN, NEW q \in Hits(files, dir, ref), q # src
  PROVE  q \in Hits(AfterMove(files, src, dst), dir, ref)
<1>0. q \in AfterMove(files, src, dst)
  BY HitIs DEF AfterMove
<1>1. CASE ref.name = ""
  <2>1. q \in {IndexOf(dir)}
    BY <1>1 DEF Hits
  <2>. QED
    BY <1>0, <1>1, <2>1 DEF Hits
<1>2. CASE ref.name # ""
  <2>. DEFINE direct(f) == f \cap {Path(dir, ref.name, ref.md)}
              md(f) == f \cap {Path(dir, ref.name, TRUE)}
              after == AfterMove(files, src, dst)
  <2>1. \A f : Hits(f, dir, ref) = IF direct(f) # {} \/ ref.md \/ ref.name \in Dotted THEN direct(f) ELSE md(f)
    BY <1>2 DEF Hits
  <2>2. CASE q \in direct(files)
    <3>1. q \in direct(after)
      BY <1>0, <2>2
    <3>. QED
      BY <2>1, <3>1
  <2>3. CASE q \notin direct(files)
    <3>1. direct(files) = {} /\ ~ref.md /\ ref.name \notin Dotted /\ q \in md(files)
      BY <2>1, <2>3
    <3>2. dst # Path(dir, ref.name, ref.md)
      BY <3>1, PathIs DEF Moving
    <3>3. direct(after) = {}
      BY <3>1, <3>2 DEF AfterMove
    <3>4. q \in md(after)
      BY <1>0, <3>1
    <3>. QED
      BY <2>1, <3>1, <3>3, <3>4
  <2>. QED
    BY <2>2, <2>3
<1>. QED
  BY <1>1, <1>2

\* A reference to the new name reaches the file that moved.
LEMMA HitMoved ==
  ASSUME NEW files, NEW src, NEW dst, Moving(files, src, dst), Clear(files, dst),
         NEW ref, ref.md \in BOOLEAN, SameName(ref, dst)
  PROVE  dst \in Hits(AfterMove(files, src, dst), dst.dir, ref)
<1>. DEFINE after == AfterMove(files, src, dst)
            direct == after \cap {Path(dst.dir, ref.name, ref.md)}
            md == after \cap {Path(dst.dir, ref.name, TRUE)}
<1>1. dst = Path(dst.dir, dst.name, TRUE) /\ dst.name # "" /\ dst \in after /\ ref.name = dst.name
  BY DEF Moving, IsPath, AfterMove, SameName
<1>2. Hits(after, dst.dir, ref) = IF direct # {} \/ ref.md \/ ref.name \in Dotted THEN direct ELSE md
  BY <1>1 DEF Hits
<1>3. CASE ref.md = TRUE
  BY <1>1, <1>2, <1>3
<1>4. CASE ref.md = FALSE
  <2>1. Path(dst.dir, ref.name, FALSE) # dst
    <3>0. ~ Path(dst.dir, ref.name, FALSE).md
      BY DEF Path
    <3>1. PICK other : other = Path(dst.dir, ref.name, FALSE)
      OBVIOUS
    <3>2. dst.md
      BY DEF Moving
    <3>3. ~ other.md
      BY <3>0, <3>1
    <3>. QED
      BY <3>1, <3>2, <3>3
  <2>2. direct = {} /\ ref.name \notin Dotted
    BY <1>1, <1>4, <2>1 DEF Clear, AfterMove
  <2>. QED
    BY <1>1, <1>2, <1>4, <2>2
<1>. QED
  BY <1>3, <1>4

\* A directory that is not spelled from the root is below the root.
LEMMA HitBelow ==
  ASSUME NEW files, NEW dir, NEW ref, ref.lead # "/", NEW q \in Hits(files, dir, ref)
  PROVE  Below(ref, dir)
BY DEF Hits, AtRoot, Nameless, Below

\* The file that moves is no index, and a reference that reaches it has a name.
LEMMA MovedNamed ==
  ASSUME NEW files, NEW src, NEW dst, Moving(files, src, dst), NEW dir, NEW ref, src \in Hits(files, dir, ref)
  PROVE  ~Nameless(ref)
<1>1. src.name # "index"
  BY DEF Moving
<1>2. Nameless(ref) => src.name = "index"
  BY HitIs
<1>. QED
  BY <1>1, <1>2

\* Only a reference's name and ending tell which file of a directory it reaches.
LEMMA HitSame ==
  ASSUME NEW files, NEW dir, NEW ref, NEW r, SameName(r, ref), ~Nameless(ref) => SameEnding(r, ref), Below(ref, dir)
  PROVE  Hits(files, dir, r) = Hits(files, dir, ref)
BY DEF Hits, SameName, SameEnding, Nameless, Below

----------------------------------------------------------------------------
\* What a resolution says.
LEMMA NodeIs ==
  ASSUME NEW at, NEW via
  PROVE  Node(at, via).tag = "node" /\ Node(at, via).at = at /\ Node(at, via).via = via
BY DEF Node

\* A reference from the root that reaches a file names it.
LEMMA ResolvesRooted ==
  ASSUME NEW files, NEW from, NEW ref, ref.lead = "/", ~Escapes(Normal(ref.dir)),
         NEW q \in Hits(files, Normal(ref.dir), ref)
  PROVE  Resolve(files, from, ref) = Node(q, "rooted")
<1>. DEFINE rooted == Normal(ref.dir)
            relative == Normal(from.dir \o ref.dir)
            hits == Reached(files, rooted, relative, ref)
<1>1. hits = {Node(p, "rooted") : p \in Hits(files, rooted, ref)}
  BY DEF Reached
<1>2. hits = {Node(q, "rooted")}
  <2>1. PICK dir : dir = rooted
    OBVIOUS
  <2>2. q \in Hits(files, dir, ref)
    BY <2>1
  <2>3. \A other \in Hits(files, dir, ref) : other = q
    BY <2>2, HitIs
  <2>. QED
    BY <1>1, <2>1, <2>2, <2>3
<1>3. PICK last : ResolveTarget(files, from, ref) = Settled(rooted, last, hits)
  BY DEF ResolveTarget
<1>. HIDE DEF hits, rooted
<1>4. (CHOOSE h \in hits : TRUE) = Node(q, "rooted")
  BY <1>2
<1>5. Settled(rooted, last, hits) = Node(q, "rooted")
  <2>1. ~Escapes(rooted) /\ hits # {}
    BY <1>2 DEF rooted
  <2>. QED
    BY <1>4, <2>1 DEF Settled
<1>. QED
  BY <1>3, <1>5, NodeIs DEF Resolve, Described

\* A reference that reaches a file beside its own names that one.
LEMMA ResolvesBeside ==
  ASSUME NEW files, NEW from, NEW ref, ref.lead # "/", ~Escapes(Normal(from.dir \o ref.dir)),
         NEW q \in Hits(files, Normal(from.dir \o ref.dir), ref)
  PROVE  Resolve(files, from, ref) = Node(q, "file")
<1>. DEFINE rooted == Normal(ref.dir)
            relative == Normal(from.dir \o ref.dir)
            near == {Node(p, "file") : p \in Hits(files, relative, ref)}
            hits == Reached(files, rooted, relative, ref)
<1>1. near = {Node(q, "file")}
  <2>1. PICK dir : dir = relative
    OBVIOUS
  <2>2. q \in Hits(files, dir, ref)
    BY <2>1
  <2>3. \A other \in Hits(files, dir, ref) : other = q
    BY <2>2, HitIs
  <2>. QED
    BY <2>1, <2>2, <2>3
<1>2. hits = near
  <2>1. near # {}
    BY <1>1
  <2>. QED
    BY <2>1 DEF Reached
<1>3. PICK last : ResolveTarget(files, from, ref) = Settled(relative, last, hits)
  BY DEF ResolveTarget
<1>. HIDE DEF hits, near, relative
<1>4. (CHOOSE h \in hits : TRUE) = Node(q, "file")
  BY <1>1, <1>2
<1>5. Settled(relative, last, hits) = Node(q, "file")
  <2>1. ~Escapes(relative) /\ hits # {}
    BY <1>1, <1>2 DEF relative
  <2>. QED
    BY <1>4, <2>1 DEF Settled
<1>. QED
  BY <1>3, <1>5, NodeIs DEF Resolve, Described

\* A reference that names a file was read in one of three ways.
LEMMA ResolvedHow ==
  ASSUME NEW files, NEW from, NEW ref, Resolve(files, from, ref).tag = "node"
  PROVE  LET r == Resolve(files, from, ref) IN
         \/ /\ r.via = "rooted" /\ ref.lead = "/" /\ r.at \in Hits(files, Normal(ref.dir), ref) /\ ~Escapes(Normal(ref.dir))
         \/ /\ r.via = "root" /\ ref.lead # "/" /\ r.at \in Hits(files, Normal(ref.dir), ref)
         \/ /\ r.via = "file" /\ ref.lead # "/" /\ r.at \in Hits(files, Normal(from.dir \o ref.dir), ref)
            /\ ~Escapes(Normal(from.dir \o ref.dir))
<1>. DEFINE rooted == Normal(ref.dir)
            relative == Normal(from.dir \o ref.dir)
            hits == Reached(files, rooted, relative, ref)
            fst == IF ref.lead = "/" THEN rooted ELSE relative
<1>1. PICK last : ResolveTarget(files, from, ref) = Settled(fst, last, hits)
  BY DEF ResolveTarget
<1>. HIDE DEF hits, rooted, relative, fst
<1>2. \A tag : NoNode(tag).tag = tag
  BY DEF NoNode
<1>3. Resolve(files, from, ref) = ResolveTarget(files, from, ref)
  BY <1>2 DEF Resolve, Described
<1>4. ~Escapes(fst) /\ hits # {} /\ Resolve(files, from, ref) = CHOOSE h \in hits : TRUE
  <2>1. CASE Escapes(fst) \/ (hits = {} /\ Escapes(last))
    BY <1>1, <1>2, <1>3, <2>1 DEF Settled
  <2>2. CASE ~Escapes(fst) /\ hits # {}
    BY <1>1, <1>3, <2>2 DEF Settled
  <2>3. CASE ~Escapes(fst) /\ hits = {} /\ ~Escapes(last)
    BY <1>1, <1>2, <1>3, <2>3 DEF Settled
  <2>. QED
    BY <2>1, <2>2, <2>3
<1>5. Resolve(files, from, ref) \in hits
  BY <1>4
<1>6. CASE ref.lead = "/"
  <2>1. hits = {Node(p, "rooted") : p \in Hits(files, rooted, ref)}
    BY <1>6 DEF Reached, hits
  <2>2. PICK p \in Hits(files, rooted, ref) : Resolve(files, from, ref) = Node(p, "rooted")
    BY <1>5, <2>1
  <2>3. LET r == Resolve(files, from, ref) IN r.via = "rooted" /\ r.at = p
    BY <2>2, NodeIs
  <2>4. fst = Normal(ref.dir)
    BY <1>6 DEF fst, rooted
  <2>5. p \in Hits(files, Normal(ref.dir), ref)
    BY DEF rooted
  <2>. QED
    BY <1>4, <1>6, <2>3, <2>4, <2>5
<1>7. CASE ref.lead # "/"
  <2>1. hits \subseteq {Node(p, "file") : p \in Hits(files, relative, ref)} \cup {Node(p, "root") : p \in Hits(files, rooted, ref)}
    BY <1>7 DEF Reached, hits
  <2>2. CASE \E p \in Hits(files, relative, ref) : Resolve(files, from, ref) = Node(p, "file")
    <3>1. PICK p \in Hits(files, relative, ref) : Resolve(files, from, ref) = Node(p, "file")
      BY <2>2
    <3>2. LET r == Resolve(files, from, ref) IN r.via = "file" /\ r.at = p
      BY <3>1, NodeIs
    <3>3. fst = Normal(from.dir \o ref.dir)
      BY <1>7 DEF fst, relative
    <3>4. p \in Hits(files, Normal(from.dir \o ref.dir), ref)
      BY DEF relative
    <3>. QED
      BY <1>4, <1>7, <3>2, <3>3, <3>4
  <2>3. CASE \E p \in Hits(files, rooted, ref) : Resolve(files, from, ref) = Node(p, "root")
    BY <1>7, <2>3, NodeIs DEF rooted
  <2>. QED
    BY <1>5, <2>1, <2>2, <2>3
<1>. QED
  BY <1>6, <1>7

----------------------------------------------------------------------------
(* A rewritten reference names the file it named, wherever that is now. *)
\* A spelling has the lead and the directory it was given.
LEMMA SpellIs ==
  ASSUME NEW ref, IsRef(ref), NEW lead, NEW dir, NEW next
  PROVE  Spell(ref, lead, dir, next).lead = lead /\ Spell(ref, lead, dir, next).dir = dir
<1>1. PICK b : b = (ref.md /\ next.md)
  OBVIOUS
<1>2. PICK name : name = IF ref.name = "" THEN "" ELSE next.name
  OBVIOUS
<1>3. PICK n : n = [ref EXCEPT !.lead = lead, !.dir = dir, !.name = name, !.md = b]
  OBVIOUS
<1>4. Spell(ref, lead, dir, next) = n
  BY <1>1, <1>2, <1>3 DEF Spell
<1>5. n.lead = lead /\ n.dir = dir
  BY <1>3 DEF IsRef
<1>. QED
  BY <1>4, <1>5

\* Its name is the file's, unless the reference names a directory.
LEMMA SpellName ==
  ASSUME NEW ref, IsRef(ref), NEW lead, NEW dir, NEW next
  PROVE  IF Nameless(ref) THEN SameName(Spell(ref, lead, dir, next), ref)
         ELSE SameName(Spell(ref, lead, dir, next), next)
<1>1. PICK b : b = (ref.md /\ next.md)
  OBVIOUS
<1>2. PICK name : name = IF ref.name = "" THEN "" ELSE next.name
  OBVIOUS
<1>3. PICK n : n = [ref EXCEPT !.lead = lead, !.dir = dir, !.name = name, !.md = b]
  OBVIOUS
<1>4. Spell(ref, lead, dir, next) = n
  BY <1>1, <1>2, <1>3 DEF Spell
<1>5. n.name = name
  BY <1>3 DEF IsRef
<1>6. CASE Nameless(ref)
  <2>1. SameName(n, ref)
    BY <1>2, <1>5, <1>6 DEF Nameless, SameName
  <2>. QED
    BY <1>4, <1>6, <2>1
<1>7. CASE ~Nameless(ref)
  <2>1. SameName(n, next)
    BY <1>2, <1>5, <1>7 DEF Nameless, SameName
  <2>. QED
    BY <1>4, <1>7, <2>1
<1>. QED
  BY <1>6, <1>7

\* Its ending is the reference's, where the file has it.
LEMMA SpellEnding ==
  ASSUME NEW ref, IsRef(ref), NEW lead, NEW dir, NEW next, ref.md = FALSE \/ next.md = TRUE
  PROVE  SameEnding(Spell(ref, lead, dir, next), ref)
<1>1. PICK b : b = (ref.md /\ next.md)
  OBVIOUS
<1>2. PICK name : name = IF ref.name = "" THEN "" ELSE next.name
  OBVIOUS
<1>3. PICK n : n = [ref EXCEPT !.lead = lead, !.dir = dir, !.name = name, !.md = b]
  OBVIOUS
<1>4. Spell(ref, lead, dir, next) = n
  BY <1>1, <1>2, <1>3 DEF Spell
<1>5. n.md = b
  BY <1>3 DEF IsRef
<1>6. ref.md \in BOOLEAN
  BY DEF IsRef
<1>7. b = ref.md
  BY <1>1, <1>6
<1>8. SameEnding(n, ref)
  BY <1>5, <1>7 DEF SameEnding
<1>. QED
  BY <1>4, <1>8

\* A reference made rooted is otherwise the same.
LEMMA RootedIs ==
  ASSUME NEW ref, IsRef(ref), NEW n, n = [ref EXCEPT !.lead = "/"]
  PROVE  n.lead = "/" /\ n.dir = ref.dir /\ SameName(n, ref) /\ SameEnding(n, ref)
BY DEF IsRef, SameName, SameEnding

\* A directory of the bundle stays within it.
LEMMA InsideIs ==
  ASSUME NEW a \in Inside
  PROVE  ~Escapes(a) /\ Normal(a) = a
<1>1. a # <<>> => Head(a) # ".."
  BY DEF Inside
<1>. QED
  BY <1>1, Already DEF Escapes

\* What is spelled for a file reaches it in its directory.
LEMMA Reaches ==
  ASSUME NEW files, NEW src, NEW dst, Moving(files, src, dst), Clear(files, dst),
         NEW ref, IsRef(ref), NEW dir, NEW q \in Hits(files, dir, ref), NEW lead, NEW way, Below(ref, dir)
  PROVE  LET next == IF q = src THEN dst ELSE q
         IN next \in Hits(AfterMove(files, src, dst), next.dir, Spell(ref, lead, way, next))
<1>0. ref.md \in BOOLEAN /\ q \in files /\ q.md \in BOOLEAN
  BY HitIs DEF IsRef, Moving, IsPath
<1>1. CASE q = src
  <2>1. ~Nameless(ref)
    BY <1>1, MovedNamed
  <2>2. PICK n : n = Spell(ref, lead, way, dst)
    OBVIOUS
  <2>3. dst.md = TRUE
    BY DEF Moving
  <2>4. SameName(n, dst)
    BY <2>1, <2>2, SpellName
  <2>5. SameEnding(n, ref)
    BY <2>2, <2>3, SpellEnding
  <2>6. n.md \in BOOLEAN
    BY <1>0, <2>5 DEF SameEnding
  <2>7. dst \in Hits(AfterMove(files, src, dst), dst.dir, n)
    BY <2>4, <2>6, HitMoved
  <2>. QED
    BY <1>1, <2>2, <2>7
<1>2. CASE q # src
  <2>1. PICK n : n = Spell(ref, lead, way, q)
    OBVIOUS
  <2>2. SameName(n, ref)
    <3>1. CASE Nameless(ref)
      BY <2>1, <3>1, SpellName
    <3>2. CASE ~Nameless(ref)
      <4>1. SameName(n, q)
        BY <2>1, <3>2, SpellName
      <4>2. SameName(q, ref)
        BY <3>2, HitIs
      <4>. QED
        BY <4>1, <4>2 DEF SameName
    <3>. QED
      BY <3>1, <3>2
  <2>3. ASSUME ~Nameless(ref)
        PROVE  SameEnding(n, ref)
    <3>1. CASE ref.md = TRUE
      <4>1. q = Path(dir, ref.name, ref.md)
        BY <2>3, <3>1, HitEnding
      <4>2. q.md = TRUE
        BY <3>1, <4>1 DEF Path
      <4>. QED
        BY <2>1, <4>2, SpellEnding
    <3>2. CASE ref.md = FALSE
      BY <2>1, <3>2, SpellEnding
    <3>. QED
      BY <1>0, <3>1, <3>2
  <2>4. q \in Hits(AfterMove(files, src, dst), dir, ref)
    BY <1>0, <1>2, HitKept
  <2>5. Hits(AfterMove(files, src, dst), dir, n) = Hits(AfterMove(files, src, dst), dir, ref)
    BY <2>2, <2>3, HitSame
  <2>6. q.dir = dir
    BY HitIs
  <2>. QED
    BY <1>2, <2>1, <2>4, <2>5, <2>6
<1>. QED
  BY <1>1, <1>2

\* Rewriting keeps what a reference names.
LEMMA Rewrites ==
  ASSUME NEW files, NEW src, NEW dst, Moving(files, src, dst), Clear(files, dst),
         NEW p \in files, NEW ref, IsRef(ref), Resolve(files, p, ref).tag = "node"
  PROVE  LET at == IF p = src THEN dst ELSE p
             was == Resolve(files, p, ref).at
             is == Resolve(AfterMove(files, src, dst), at, RewriteReference(files, ref, p, at, src, dst))
         IN is.tag = "node" /\ is.at = IF was = src THEN dst ELSE was
<1>1. PICK at : at = IF p = src THEN dst ELSE p
  OBVIOUS
<1>2. PICK r : r = Resolve(files, p, ref)
  OBVIOUS
<1>3. PICK next : next = IF r.at = src THEN dst ELSE r.at
  OBVIOUS
<1>4. PICK after : after = AfterMove(files, src, dst)
  OBVIOUS
<1>5. PICK new : new = RewriteReference(files, ref, p, at, src, dst)
  OBVIOUS
<1>. SUFFICES Resolve(after, at, new).tag = "node" /\ Resolve(after, at, new).at = next
  BY <1>1, <1>2, <1>3, <1>4, <1>5
<1>6. new = CASE r.via = "rooted" -> IF r.at = src THEN Spell(ref, "/", next.dir, next) ELSE ref
              [] r.via = "root" -> RootSpelling(after, ref, at, next, r.at = src)
              [] OTHER -> IF r.at # src /\ at = p THEN ref ELSE FileSpelling(ref, at, next)
  <2>1. r.tag = "node" /\ "node" # "external"
    BY <1>2
  <2>2. new = Respell(files, ref, r, p, at, src, dst)
    BY <1>2, <1>5 DEF RewriteReference
  <2>. QED
    BY <1>3, <1>4, <2>1, <2>2 DEF Respell
<1>7. ref.md \in BOOLEAN /\ dst.md = TRUE
  BY DEF IsRef, Moving
<1>8. ASSUME NEW dir, r.at \in Hits(files, dir, ref)
      PROVE  /\ r.at \in files /\ r.at.dir = dir /\ next \in after
             /\ next.dir \in Inside /\ next.md \in BOOLEAN /\ dir \in Inside
             /\ Below(ref, dir) => \A lead, way : next \in Hits(after, next.dir, Spell(ref, lead, way, next))
             /\ r.at # src => next = r.at /\ next \in Hits(after, dir, ref)
  <2>1. r.at \in files /\ r.at.dir = dir
    <3>1. PICK q \in Hits(files, dir, ref) : q = r.at
      BY <1>8
    <3>2. q \in files /\ q.dir = dir
      BY HitIs
    <3>. QED
      BY <3>1, <3>2
  <2>2. next \in after /\ IsPath(next) /\ IsPath(r.at)
    BY <1>3, <1>4, <2>1 DEF Moving, AfterMove
  <2>3. next.dir \in Inside /\ next.md \in BOOLEAN /\ dir \in Inside
    BY <2>1, <2>2 DEF IsPath
  <2>4. ASSUME Below(ref, dir)
        PROVE  \A lead, way : next \in Hits(after, next.dir, Spell(ref, lead, way, next))
    BY <1>3, <1>4, <1>8, <2>4, Reaches
  <2>5. r.at # src => next = r.at /\ next \in Hits(after, dir, ref)
    BY <1>3, <1>4, <1>7, <1>8, HitKept
  <2>. QED
    BY <2>1, <2>2, <2>3, <2>4, <2>5
<1>9. ASSUME NEW s, s.lead = "/", s.dir \in Inside, next \in Hits(after, s.dir, s)
      PROVE  Resolve(after, at, s).tag = "node" /\ Resolve(after, at, s).at = next
  <2>1. ~Escapes(Normal(s.dir)) /\ Normal(s.dir) = s.dir
    BY <1>9, InsideIs
  <2>2. Resolve(after, at, s) = Node(next, "rooted")
    BY <1>9, <2>1, ResolvesRooted
  <2>. QED
    BY <2>2, NodeIs
<1>10. ASSUME NEW s, s.lead # "/", Normal(at.dir \o s.dir) \in Inside, next \in Hits(after, Normal(at.dir \o s.dir), s)
       PROVE  Resolve(after, at, s).tag = "node" /\ Resolve(after, at, s).at = next
  <2>1. ~Escapes(Normal(at.dir \o s.dir))
    BY <1>10, InsideIs
  <2>2. Resolve(after, at, s) = Node(next, "file")
    BY <1>10, <2>1, ResolvesBeside
  <2>. QED
    BY <2>2, NodeIs
<1>11. CASE r.via = "rooted" /\ ref.lead = "/" /\ r.at \in Hits(files, Normal(ref.dir), ref) /\ ~Escapes(Normal(ref.dir))
  <2>1. CASE r.at = src
    <3>0. PICK slash : slash = "/"
      OBVIOUS
    <3>1. PICK s : s = Spell(ref, slash, next.dir, next)
      OBVIOUS
    <3>2. s.lead = slash /\ s.dir = next.dir
      BY <3>1, SpellIs
    <3>3. new = s
      BY <1>6, <1>11, <2>1, <3>0, <3>1
    <3>4. Below(ref, Normal(ref.dir))
      BY <1>11, <2>1, MovedNamed DEF Below
    <3>. QED
      BY <1>8, <1>9, <1>11, <3>0, <3>1, <3>2, <3>3, <3>4
  <2>2. CASE r.at # src
    <3>1. new = ref
      BY <1>6, <1>11, <2>2
    <3>2. next \in Hits(after, Normal(ref.dir), ref)
      BY <1>8, <1>11, <2>2
    <3>3. Resolve(after, at, ref) = Node(next, "rooted")
      BY <1>11, <3>2, ResolvesRooted
    <3>. QED
      BY <3>1, <3>3, NodeIs
  <2>. QED
    BY <2>1, <2>2
<1>12. CASE r.via = "root" /\ ref.lead # "/" /\ r.at \in Hits(files, Normal(ref.dir), ref)
  <2>0. Below(ref, Normal(ref.dir))
    BY <1>12, HitBelow
  <2>1. PICK bare : bare = IF r.at = src THEN Spell(ref, "", next.dir, next) ELSE ref
    OBVIOUS
  <2>2. PICK s : s = [bare EXCEPT !.lead = "/"]
    OBVIOUS
  <2>3. new = IF Lands(after, at, bare, next) THEN bare ELSE s
    BY <1>6, <1>12, <2>1, <2>2 DEF RootSpelling, Unambiguous
  <2>4. CASE Lands(after, at, bare, next)
    <3>1. \E via : Resolve(after, at, bare) = Node(next, via)
      BY <2>4 DEF Lands
    <3>. QED
      BY <2>3, <2>4, <3>1, NodeIs
  <2>5. CASE ~Lands(after, at, bare, next)
    <3>1. CASE r.at = src
      <4>0. PICK slash : slash = "/"
        OBVIOUS
      <4>1. PICK t : t = Spell(ref, slash, next.dir, next)
        OBVIOUS
      <4>2. s = t
        BY <2>1, <2>2, <3>1, <4>0, <4>1 DEF Spell, IsRef
      <4>3. t.lead = slash /\ t.dir = next.dir
        BY <4>1, SpellIs
      <4>. QED
        BY <1>8, <1>9, <1>12, <2>0, <2>3, <2>5, <4>0, <4>1, <4>2, <4>3
    <3>2. CASE r.at # src
      <4>1. s.lead = "/" /\ s.dir = ref.dir /\ SameName(s, ref) /\ SameEnding(s, ref)
        BY <2>1, <2>2, <3>2, RootedIs
      <4>2. next \in Hits(after, Normal(ref.dir), ref)
        BY <1>8, <1>12, <3>2
      <4>3. next \in Hits(after, Normal(ref.dir), s)
        BY <2>0, <4>1, <4>2, HitSame
      <4>4. ~Escapes(Normal(ref.dir))
        BY <1>8, <1>12, InsideIs
      <4>5. Resolve(after, at, s) = Node(next, "rooted")
        BY <4>1, <4>3, <4>4, ResolvesRooted
      <4>. QED
        BY <2>3, <2>5, <4>5, NodeIs
    <3>. QED
      BY <3>1, <3>2
  <2>. QED
    BY <2>4, <2>5
<1>13. CASE r.via = "file" /\ ref.lead # "/" /\ r.at \in Hits(files, Normal(p.dir \o ref.dir), ref)
  <2>0. Below(ref, Normal(p.dir \o ref.dir))
    BY <1>13, HitBelow
  <2>1. CASE r.at # src /\ at = p
    <3>1. new = ref
      BY <1>6, <1>13, <2>1
    <3>. QED
      BY <1>8, <1>10, <1>13, <2>1, <3>1
  <2>2. CASE ~(r.at # src /\ at = p)
    <3>1. new = FileSpelling(ref, at, next)
      BY <1>6, <1>13, <2>2
    <3>2. PICK most \in Nat : most = IF ref.name = "" /\ Len(next.dir) > 0 THEN Len(next.dir) - 1 ELSE Len(next.dir)
      <4>1. next.dir \in Inside
        BY <1>8, <1>13
      <4>2. Len(next.dir) \in Nat
        BY <4>1 DEF Inside
      <4>3. PICK depth \in Nat : depth = Len(next.dir)
        BY <4>2
      <4>4. CASE Nameless(ref) /\ depth > 0
        <5>1. PICK less \in Nat : less = depth - 1
          BY <4>4
        <5>2. ref.name = "" /\ Len(next.dir) > 0
          BY <4>3, <4>4 DEF Nameless
        <5>3. less = IF ref.name = "" /\ Len(next.dir) > 0 THEN Len(next.dir) - 1 ELSE Len(next.dir)
          BY <4>3, <5>1, <5>2
        <5>. QED
          BY <5>3
      <4>5. CASE ~(Nameless(ref) /\ depth > 0)
        BY <4>3, <4>5 DEF Nameless
      <4>. QED
        BY <4>4, <4>5
    <3>3. PICK way : way = Relative(at.dir, next.dir, most)
      OBVIOUS
    <3>4. PICK lead : lead # "/" /\ new = Spell(ref, lead, way, next)
      <4>1. PICK lead : lead = IF ref.lead = "./" /\ ~Escapes(way) THEN "./" ELSE ""
        OBVIOUS
      <4>2. new = Spell(ref, lead, way, next)
        BY <3>1, <3>2, <3>3, <4>1 DEF FileSpelling
      <4>3. lead # "/"
        BY <4>1
      <4>. QED
        BY <4>2, <4>3
    <3>5. new.lead = lead /\ new.dir = way
      BY <3>4, SpellIs
    <3>6. new.lead # "/" /\ new.dir = way
      BY <3>4, <3>5
    <3>7. at.dir \in Inside
      BY <1>1 DEF Moving, IsPath
    <3>8. Normal(at.dir \o way) = next.dir
      BY <1>8, <1>13, <3>3, <3>7, WayLeadsThere
    <3>. QED
      BY <1>8, <1>10, <1>13, <2>0, <3>4, <3>6, <3>8
  <2>. QED
    BY <2>1, <2>2
<1>. QED
  BY <1>2, <1>11, <1>12, <1>13, ResolvedHow

----------------------------------------------------------------------------
(* Every reference names what it named. *)

\* The references of a plan's text are the rewritten ones, and the destination is a file's path.
LEMMA PlanLinks ==
  ASSUME PlanMove, disk \in Bundles, move \in Moves
  PROVE  /\ run'.pc \in Refusals
         \/ /\ run'.pc = "mkdir" /\ run'.left \subseteq DOMAIN disk /\ run'.left = DOMAIN run'.plan
            /\ move.src \in Loaded(disk) /\ run'.dst \notin DOMAIN disk /\ IsPath(run'.dst) /\ run'.dst.md
            /\ \A p \in Loaded(disk) :
                 (IF p \in DOMAIN run'.plan THEN run'.plan[p] ELSE disk[p]).refs =
                   [i \in DOMAIN disk[p].refs |->
                     Rewritten(disk, p, disk[p].refs[i], move, run'.dst, IF p = move.src THEN run'.dst ELSE p)]
<1>1. PICK to, texts, why, edits :
        /\ to = ResolveDestination(disk, move)
        /\ texts = NewTexts(disk, move, to) /\ why = Refusal(disk, move, to, texts) /\ edits = Edits(disk, move, texts)
        /\ run' = IF why # "" THEN [NotRun EXCEPT !.pc = why]
                  ELSE Phase("mkdir", Head(to), [p \in edits |-> texts[p]], edits, Drifts(disk, move, texts))
  BY DEF PlanMove
<1>2. why \in Refusals \cup {""} /\ (why = "" => move.src \in Loaded(disk) /\ to # <<>> /\ Head(to) \notin DOMAIN disk)
  BY <1>1, Refused
<1>3. CASE why # ""
  BY <1>1, <1>2, <1>3 DEF NotRun, Phase
<1>4. CASE why = ""
  <2>1. run' = Phase("mkdir", Head(to), [p \in edits |-> texts[p]], edits, Drifts(disk, move, texts))
    BY <1>1, <1>4
  <2>2. run'.pc = "mkdir" /\ run'.dst = Head(to) /\ run'.plan = [p \in edits |-> texts[p]] /\ run'.left = edits
    BY <2>1 DEF Phase
  <2>3. move.src \in Loaded(disk) /\ to # <<>> /\ Head(to) \notin DOMAIN disk
    BY <1>2, <1>4
  <2>4. edits \subseteq Loaded(disk) /\ Loaded(disk) \subseteq DOMAIN disk
    BY <1>1 DEF Edits, Loaded, Concepts
  <2>5. IsPath(Head(to)) /\ Head(to).md = TRUE
    <3>1. IsPath(move.src) /\ move.src \in DOMAIN disk
      BY <2>3, <2>4, MoveAssumption
    <3>2. IsCommand(move) /\ BundleName # ".."
      BY MoveAssumption DEF IsCommand
    <3>3. ResolveDestination(disk, move) # <<>>
      BY <1>1, <2>3
    <3>. QED
      BY <1>1, <3>1, <3>2, <3>3, DestinationIsPath
  <2>6. ASSUME NEW p \in Loaded(disk)
        PROVE  (IF p \in DOMAIN run'.plan THEN run'.plan[p] ELSE disk[p]).refs =
                 [i \in DOMAIN disk[p].refs |->
                   Rewritten(disk, p, disk[p].refs[i], move, run'.dst, IF p = move.src THEN run'.dst ELSE p)]
    <3>1. PICK t : t = texts[p]
      OBVIOUS
    <3>2. (IF p \in DOMAIN run'.plan THEN run'.plan[p] ELSE disk[p]) = t
      BY <1>1, <2>2, <3>1 DEF Edits
    <3>3. t = NewText(disk, move, Head(to), p)
      BY <1>1, <2>3, <3>1 DEF NewTexts
    <3>4. PICK refs : refs = [i \in DOMAIN disk[p].refs |->
                                Rewritten(disk, p, disk[p].refs[i], move, Head(to), IF p = move.src THEN Head(to) ELSE p)]
      OBVIOUS
    <3>5. PICK s : s = disk[p]
      OBVIOUS
    <3>6. IsText(s)
      BY <2>4, <3>5, MoveAssumption
    <3>7. t = [s EXCEPT !.refs = refs]
      BY <3>3, <3>4, <3>5 DEF NewText
    <3>8. t.refs = refs
      BY <3>6, <3>7, NewRefs
    <3>. QED
      BY <2>2, <3>2, <3>4, <3>8
  <2>. QED
    BY <2>2, <2>3, <2>4, <2>5, <2>6
<1>. QED
  BY <1>2, <1>3, <1>4

\* The invariant holds before the first run.
LEMMA LinkInit ==
  ASSUME Init
  PROVE  LinkInv
<1>1. run.pc = "idle" /\ disk = first /\ first \in Bundles /\ move \in Moves
  BY DEF Init, NotRun, Phase
<1>. QED
  BY <1>1 DEF LinkInv, Writing

\* Every step of the command keeps it.
LEMMA LinkStep ==
  ASSUME MoveInv, MoveInv', LinkInv, [Next]_vars
  PROVE  LinkInv'
<1>0. UNCHANGED <<first, move>> /\ first \in Bundles /\ move \in Moves
  BY DEF LinkInv, Next, PlanMove, MakeDirectory, Rename, Fail, Edit, Write, vars
<1>000. (touched => touched') /\ (partial => partial')
  <2>1. touched => touched'
    BY DEF Next, PlanMove, MakeDirectory, Rename, Fail, Edit, Write, vars
  <2>2. partial => partial'
    <3>1. CASE Fail
      BY <3>1, Zenon DEF Fail
    <3>2. CASE ~Fail
      <4>1. UNCHANGED partial
        BY <3>2 DEF Next, PlanMove, MakeDirectory, Rename, Edit, Write, vars
      <4>. QED
        BY ONLY <4>1, Zenon
    <3>. QED
      BY <3>1, <3>2
  <2>. QED
    BY <2>1, <2>2
<1>. SUFFICES ASSUME ~touched, ~touched', ~partial, ~partial' PROVE LinkInv'
  BY <1>0, <1>000 DEF LinkInv
<1>00. \A p \in Refusals : p \notin {"idle", "mkdir", "write", "done", "failed"}
  BY DEF Refusals
<1>. DEFINE Respelling == \A p \in Loaded(first) : Planned(p).refs = Respelled(p)
            Written == \A p \in DOMAIN first : disk[p] = IF p \in run.left THEN first[p] ELSE Planned(p)
<1>01. /\ ~Writing /\ run.pc # "done" => disk = first
       /\ Writing => Aimed /\ Respelling /\ Written
       /\ run.pc = "done" => /\ Aimed /\ DOMAIN disk = AfterMove(DOMAIN first, move.src, run.dst)
                             /\ \A p \in Loaded(first) : disk[Image(p)].refs = Respelled(p)
  BY DEF LinkInv
<1>02. ASSUME run'.dst = run.dst
       PROVE  (Aimed <=> Aimed') /\ \A p : Respelled(p)' = Respelled(p) /\ Image(p)' = Image(p)
  <2>1. Loaded(first)' = Loaded(first)
    BY <1>0 DEF Loaded, Concepts
  <2>2. Aimed <=> Aimed'
    BY <1>0, <1>02, <2>1 DEF Aimed
  <2>3. \A p : Respelled(p)' = Respelled(p) /\ Image(p)' = Image(p)
    BY <1>0, <1>02 DEF Respelled, Rewritten, Image, Loaded, Concepts
  <2>. QED
    BY <2>2, <2>3
<1>03. ASSUME run'.dst = run.dst, \A p : Planned(p)' = Planned(p), Respelling
       PROVE  Respelling'
  <2>1. \A p \in Loaded(first) : Planned(p)'.refs = Respelled(p)'
    BY <1>02, <1>03
  <2>. QED
    BY <1>0, <2>1 DEF Loaded, Concepts
<1>1. CASE PlanMove
  <2>1. run.pc \in {"idle", "failed"} /\ disk' = disk
    BY <1>1 DEF PlanMove
  <2>2. disk = first
    BY <1>01, <2>1 DEF Writing
  <2>3. CASE run'.pc \in Refusals
    BY <1>0, <1>00, <2>1, <2>2, <2>3 DEF LinkInv, Writing
  <2>4. CASE run'.pc \notin Refusals
    <3>1. /\ run'.pc = "mkdir" /\ run'.left \subseteq DOMAIN first /\ run'.left = DOMAIN run'.plan
          /\ move.src \in Loaded(first) /\ run'.dst \notin DOMAIN first /\ IsPath(run'.dst) /\ run'.dst.md
          /\ \A p \in Loaded(first) :
               (IF p \in DOMAIN run'.plan THEN run'.plan[p] ELSE first[p]).refs =
                 [i \in DOMAIN first[p].refs |->
                   Rewritten(first, p, first[p].refs[i], move, run'.dst, IF p = move.src THEN run'.dst ELSE p)]
      BY <1>0, <1>1, <2>2, <2>4, PlanLinks
    <3>2. Aimed'
      BY <1>0, <3>1 DEF Aimed, Loaded, Concepts
    <3>3. \A p : Planned(p)' = IF p \in DOMAIN run'.plan THEN run'.plan[p] ELSE first[p]
      BY <1>0 DEF Planned
    <3>4. \A p : Respelled(p)' = [i \in DOMAIN first[p].refs |->
                   Rewritten(first, p, first[p].refs[i], move, run'.dst, IF p = move.src THEN run'.dst ELSE p)]
      BY <1>0 DEF Respelled, Rewritten, Image, Loaded, Concepts
    <3>5. \A p \in Loaded(first) : Planned(p)'.refs = Respelled(p)'
      BY <3>1, <3>3, <3>4
    <3>6. Respelling'
      BY <1>0, <3>5 DEF Loaded, Concepts
    <3>7. Written'
      BY <1>0, <2>1, <2>2, <3>1 DEF Planned
    <3>. QED
      BY <1>0, <3>1, <3>2, <3>6, <3>7 DEF LinkInv, Writing
  <2>. QED
    BY <2>3, <2>4
<1>2. CASE MakeDirectory
  <2>1. run.pc = "mkdir" /\ run' = [run EXCEPT !.pc = "write"] /\ UNCHANGED <<disk, move, runs, first, touched, partial>>
    BY <1>2 DEF MakeDirectory
  <2>2. run'.pc = "write" /\ UNCHANGED <<run.dst, run.plan, run.left>>
    BY <2>1 DEF MoveInv
  <2>3. Aimed /\ Respelling /\ Written
    BY <1>01, <2>1 DEF Writing
  <2>4. \A p : Planned(p)' = Planned(p)
    BY <2>1, <2>2 DEF Planned
  <2>5. Aimed' /\ Respelling' /\ Written'
    BY <1>02, <1>03, <2>1, <2>2, <2>3, <2>4
  <2>. QED
    BY <1>0, <2>2, <2>5 DEF LinkInv, Writing
<1>3. ASSUME NEW p \in run.left, Write(p) PROVE LinkInv'
  <2>1. /\ run.pc = "write" /\ p \in run.left /\ disk' = [q \in DOMAIN disk \cup {p} |-> IF q = p THEN run.plan[p] ELSE disk[q]]
        /\ run' = [run EXCEPT !.left = run.left \ {p}] /\ UNCHANGED <<move, runs, first, touched, partial>>
    BY <1>3 DEF Write
  <2>2. run'.pc = "write" /\ run'.left = run.left \ {p} /\ UNCHANGED <<run.dst, run.plan>>
    BY <2>1
  <2>3. Aimed /\ Respelling /\ Written
    BY <1>01, <2>1 DEF Writing
  <2>4. \A q : Planned(q)' = Planned(q)
    BY <2>1, <2>2 DEF Planned
  <2>5. p \in DOMAIN run.plan /\ DOMAIN disk = DOMAIN first /\ p \in DOMAIN first
    BY <2>1 DEF MoveInv, Writing
  <2>6. Aimed' /\ Respelling'
    BY <1>02, <1>03, <2>2, <2>3, <2>4
  <2>7. Written'
    <3>. SUFFICES ASSUME NEW q \in DOMAIN first PROVE disk'[q] = IF q \in run'.left THEN first[q] ELSE Planned(q)'
      BY <2>1
    <3>1. CASE q = p
      BY <2>1, <2>2, <2>4, <2>5, <3>1 DEF Planned
    <3>2. CASE q # p
      BY <2>1, <2>2, <2>3, <2>4, <2>5, <3>2
    <3>. QED
      BY <3>1, <3>2
  <2>. QED
    BY <1>0, <2>2, <2>6, <2>7 DEF LinkInv, Writing
<1>4. CASE Rename
  <2>1. /\ run.pc = "write" /\ run.left = {} /\ move.src \in DOMAIN disk /\ run' = [run EXCEPT !.pc = "done"]
        /\ disk' = [q \in AfterMove(DOMAIN disk, move.src, run.dst) |-> IF q = run.dst THEN disk[move.src] ELSE disk[q]]
        /\ UNCHANGED <<move, runs, first, touched, partial>>
    BY <1>4 DEF Rename
  <2>2. run'.pc = "done" /\ run'.dst = run.dst
    BY <2>1
  <2>3. Aimed /\ Respelling /\ Written
    BY <1>01, <2>1 DEF Writing
  <2>4. DOMAIN disk = DOMAIN first /\ run.dst \notin DOMAIN first /\ \A p \in DOMAIN first : disk[p] = Planned(p)
    BY <2>1, <2>3 DEF MoveInv, Aimed, Writing
  <2>5. Aimed' /\ (DOMAIN disk = AfterMove(DOMAIN first, move.src, run.dst))'
    BY <2>1, <2>2, <2>3, <2>4 DEF Aimed, Loaded, Concepts
  <2>6. ASSUME NEW p \in Loaded(first)
        PROVE  disk'[Image(p)'] = Planned(p)
    <3>1. p \in DOMAIN first
      BY DEF Loaded, Concepts
    <3>. QED
      BY <2>1, <2>2, <2>4, <3>1 DEF Image, AfterMove
  <2>7. \A p : Respelled(p)' = Respelled(p)
    BY <1>02, <2>2
  <2>8. \A p \in Loaded(first) : disk'[Image(p)'].refs = Respelled(p)'
    BY <2>3, <2>6, <2>7
  <2>9. (\A p \in Loaded(first) : disk[Image(p)].refs = Respelled(p))'
    BY <2>1, <2>8 DEF Loaded, Concepts
  <2>. QED
    BY <1>0, <2>2, <2>5, <2>9 DEF LinkInv, Writing
<1>5. CASE Fail
  <2>1. run.pc \in {"mkdir", "write"} /\ run' = [NotRun EXCEPT !.pc = "failed"] /\ UNCHANGED <<disk, move, runs, first, touched>>
        /\ partial' = (partial \/ disk # first)
    BY <1>5 DEF Fail
  <2>2. run'.pc = "failed"
    BY <2>1 DEF NotRun, Phase
  <2>3. disk = first
    BY <2>1
  <2>. QED
    BY <1>0, <2>1, <2>2, <2>3 DEF LinkInv, Writing
<1>6. CASE UNCHANGED vars
  <2>1. UNCHANGED <<disk, move, run, first>> /\ run'.dst = run.dst
    BY <1>6 DEF vars
  <2>2. Aimed <=> Aimed'
    BY <1>02, <2>1
  <2>3. \A p : Planned(p)' = Planned(p)
    BY <2>1 DEF Planned
  <2>4. Respelling => Respelling'
    BY <1>03, <2>1, <2>3
  <2>5. Written => Written'
    BY <2>1, <2>3
  <2>6. run.pc = "done" => (\A p \in Loaded(first) : disk[Image(p)].refs = Respelled(p))'
    <3>1. run.pc = "done" => \A p \in Loaded(first) : disk'[Image(p)'].refs = Respelled(p)'
      BY <1>01, <1>02, <2>1
    <3>. QED
      BY <2>1, <3>1 DEF Loaded, Concepts
  <2>. QED
    BY <1>0, <1>01, <2>1, <2>2, <2>4, <2>5, <2>6 DEF LinkInv, Writing
<1>7. \A p : ~Edit(p)
  BY DEF Edit
<1>. QED
  BY <1>1, <1>2, <1>3, <1>4, <1>5, <1>6, <1>7 DEF Next

\* It keeps every link, reference by reference.
LEMMA LinksHold ==
  ASSUME LinkInv, Plain
  PROVE  ~partial => LinksSurvive
<1>. SUFFICES ASSUME run.pc = "done", ~touched, ~partial PROVE LinksSurvive
  BY DEF LinksSurvive
<1>1. /\ Aimed /\ DOMAIN disk = AfterMove(DOMAIN first, move.src, run.dst)
      /\ \A p \in Loaded(first) : disk[Image(p)].refs = Respelled(p)
      /\ first \in Bundles
  BY DEF LinkInv
<1>2. PICK files, src, dst : files = DOMAIN first /\ src = move.src /\ dst = run.dst
  OBVIOUS
<1>3. Moving(files, src, dst)
  <2>1. src \in files /\ dst \notin files /\ src.name # "index" /\ IsPath(dst) /\ dst.md = TRUE
    BY <1>1, <1>2 DEF Aimed, Loaded, Concepts, IsPath
  <2>2. \A p \in files : IsPath(p)
    BY <1>1, <1>2, MoveAssumption
  <2>. QED
    BY <2>1, <2>2 DEF Moving
<1>4. Clear(files, dst)
  BY <1>2 DEF Plain, Clear
<1>5. SUFFICES ASSUME NEW p \in Loaded(first), NEW i \in DOMAIN first[p].refs,
                      Resolve(DOMAIN first, p, first[p].refs[i]).tag = "node"
               PROVE  LET was == Resolve(DOMAIN first, p, first[p].refs[i])
                          is == Resolve(DOMAIN disk, Image(p), disk[Image(p)].refs[i])
                      IN is.tag = "node" /\ is.at = Image(was.at)
  BY DEF LinksSurvive
<1>6. p \in files
  BY <1>2 DEF Loaded, Concepts
<1>7. PICK ref : ref = first[p].refs[i]
  OBVIOUS
<1>8. IsRef(ref)
  BY <1>1, <1>2, <1>6, <1>7, MoveAssumption
<1>9. Loaded(first) \cup DOMAIN first = files
  BY <1>2 DEF Loaded, Concepts
<1>10. PICK at : at = IF p = src THEN dst ELSE p
  OBVIOUS
<1>11. disk[Image(p)].refs[i] = RewriteReference(files, ref, p, at, src, dst)
  <2>1. disk[Image(p)].refs[i] = Respelled(p)[i]
    BY <1>1
  <2>2. Respelled(p)[i] = Rewritten(first, p, ref, move, dst, at)
    BY <1>2, <1>7, <1>10 DEF Respelled, Image
  <2>3. Rewritten(first, p, ref, move, dst, at) = RewriteReference(files, ref, p, at, src, dst)
    BY <1>2, <1>9 DEF Rewritten
  <2>. QED
    BY <2>1, <2>2, <2>3
<1>12. PICK was, is : /\ was = Resolve(files, p, ref)
                      /\ is = Resolve(AfterMove(files, src, dst), at, RewriteReference(files, ref, p, at, src, dst))
  OBVIOUS
<1>13. Resolve(files, p, ref).tag = "node"
  BY <1>2, <1>5, <1>7
<1>14. is.tag = "node" /\ is.at = IF was.at = src THEN dst ELSE was.at
  BY <1>2, <1>3, <1>4, <1>6, <1>7, <1>8, <1>10, <1>12, <1>13, Rewrites
<1>15. Image(p) = at /\ Image(was.at) = IF was.at = src THEN dst ELSE was.at
  BY <1>2, <1>10 DEF Image
<1>. QED
  BY <1>1, <1>2, <1>7, <1>11, <1>12, <1>14, <1>15

\* A finished move whose destination a reference without .md reaches, and that follows no run that
\* had already written, leaves every reference that named a file naming that same file, wherever it
\* now is, from wherever it is now written.
THEOREM KeepsEveryLink == Spec => [](Plain /\ ~partial => LinksSurvive)
<1>1. Init => MoveInv /\ LinkInv
  BY MoveInit, LinkInit
<1>2. MoveInv /\ LinkInv /\ [Next]_vars => (MoveInv /\ LinkInv)'
  BY MoveStep, LinkStep
<1>3. LinkInv => (Plain /\ ~partial => LinksSurvive)
  BY LinksHold
<1>. QED
  BY <1>1, <1>2, <1>3, PTL DEF Spec
=============================================================================
