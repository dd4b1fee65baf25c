--------------------------------- MODULE Move ---------------------------------
(***************************************************************************)
(* `okfit mv` (engine/src/move/run.ts, cli/src/commands/mv.ts): a plan of  *)
(* one loaded bundle, then the referrers written one by one, the moved     *)
(* file's text over its old path, and the rename.  Nothing is transactional*)
(* and nothing is read again; a command that fails may be run once more.   *)
(***************************************************************************)
EXTENDS Links

CONSTANTS
  Bundles,      \* the bundles to start from: functions from paths to texts
  Moves,        \* the commands: [src, to, slash, cwd]
  MaxRuns,      \* how often the command is run
  BundleName    \* the name of the bundle's directory

(* A text: whose it is, its references, what an attestation of it covers, *)
(* and whether it decodes as a concept.                                   *)
Text(id, refs, attested, loads) == [id |-> id, refs |-> refs, attested |-> attested, loads |-> loads]

IsText(t) == t = Text(t.id, t.refs, t.attested, t.loads)

(* Directories are below the bundle's root; a name is never empty, but the *)
(* last one of a reference that ends in a slash.                           *)
Segments == STRING \ {""}
Inside == Seq(Segments \ {".."})
IsPath(p) == p = Path(p.dir, p.name, p.md) /\ p.dir \in Inside /\ p.name # "" /\ p.md \in BOOLEAN
IsRef(ref) ==
  /\ ref = [lead |-> ref.lead, dir |-> ref.dir, name |-> ref.name, md |-> ref.md, field |-> ref.field, odd |-> ref.odd]
  /\ ref.md \in BOOLEAN

ASSUME MoveAssumption ==
  /\ MaxRuns \in Nat /\ BundleName # ".."
  /\ \A b \in Bundles : \A p \in DOMAIN b :
       IsPath(p) /\ IsText(b[p]) /\ \A i \in DOMAIN b[p].refs : IsRef(b[p].refs[i])
  /\ \A m \in Moves : m.to \in Seq(Segments) /\ m.cwd \in Seq(Segments)

VARIABLES
  disk,       \* path -> text
  move,       \* the command
  run,        \* its phase, plan and the writes left
  runs,       \* how often it was run
  first,      \* the disk before the first run
  touched,    \* someone else wrote to the bundle
  partial     \* a run ended after it had written

vars == <<disk, move, run, runs, first, touched, partial>>

Concepts(d) == {p \in DOMAIN d : p.md /\ p.name # "index"}
Loaded(d) == {p \in Concepts(d) : d[p].loads}

----------------------------------------------------------------------------
(* The destination, read from the working directory or as a concept's id. *)
Directories(d) == UNION {{SubSeq(p.dir, 1, n) : n \in 0 .. Len(p.dir)} : p \in DOMAIN d}
Within(segments) ==
  CASE ~Escapes(segments) -> <<segments>>
    [] Escapes(segments) /\ Len(segments) > 1 /\ segments[2] = BundleName -> <<SubSeq(segments, 3, Len(segments))>>
    [] OTHER -> <<>>
File(segments) == Path(Front(segments), Last(segments), TRUE)
Into(dir, src) == Path(dir, src.name, TRUE)
ResolveDestination(d, m) ==
  LET readings == Within(Normal(m.cwd \o m.to)) \o Within(Normal(m.to))
      existing == {i \in DOMAIN readings : readings[i] \in Directories(d)}
      housed == {i \in DOMAIN readings : Front(readings[i]) \in Directories(d)}
      FirstOf(places) == readings[CHOOSE i \in places : \A j \in places : i <= j]
  IN CASE existing # {} -> <<Into(FirstOf(existing), m.src)>>
       [] existing = {} /\ readings = <<>> -> <<>>
       [] existing = {} /\ readings # <<>> /\ m.slash -> <<Into(Head(readings), m.src)>>
       [] OTHER -> <<File(IF housed # {} THEN FirstOf(housed) ELSE Head(readings))>>

(* The new text of every concept, the moved one's under its old path.    *)
Rewritten(d, p, ref, m, dst, at) == RewriteReference(Loaded(d) \cup (DOMAIN d), ref, p, at, m.src, dst)
NewText(d, m, dst, p) ==
  LET at == IF p = m.src THEN dst ELSE p
  IN [d[p] EXCEPT !.refs = [i \in DOMAIN d[p].refs |-> Rewritten(d, p, d[p].refs[i], m, dst, at)]]
NewTexts(d, m, to) == [p \in Loaded(d) |-> IF to = <<>> THEN d[p] ELSE NewText(d, m, Head(to), p)]
Edits(d, m, texts) == {p \in Loaded(d) : p = m.src \/ texts[p] # d[p]}
Current(t) == t.attested = t.refs
Drifts(d, m, texts) == {p \in Edits(d, m, texts) : texts[p] # d[p] /\ Current(d[p])}

(* The refusals, in the order of the code; "" is none of them. *)
Blocks(d, m, texts) ==
  \E p \in Loaded(d) : \E i \in DOMAIN d[p].refs :
    d[p].refs[i].odd /\ (p = m.src \/ texts[p].refs[i] # d[p].refs[i])
TakenNever(d, dst) == FALSE
Taken(d, dst) == dst \in DOMAIN d
Refusal(d, m, to, texts) ==
  CASE m.src \notin Loaded(d) -> "not-found"
    [] m.src \in Loaded(d) /\ m.src = Path(<<>>, "project", TRUE) -> "project-file"
    [] to = <<>> -> "outside-bundle"
    [] OTHER ->
         LET dst == Head(to) IN
         CASE dst.name = "index" -> "reserved"
           [] dst = m.src -> "same-path"
           [] dst # m.src /\ Taken(d, dst) -> "destination-exists"
           [] OTHER -> IF Concepts(d) # Loaded(d) THEN "unloaded-files"
                       ELSE IF Blocks(d, m, texts) THEN "unrewritable" ELSE ""

----------------------------------------------------------------------------
NoPlan == [p \in {} |-> Text("", <<>>, <<>>, TRUE)]
Phase(pc, dst, plan, left, drifts) == [pc |-> pc, dst |-> dst, plan |-> plan, left |-> left, drifts |-> drifts]
NotRun == Phase("idle", IndexOf(<<>>), NoPlan, {}, {})

PlanMove ==
  /\ run.pc \in {"idle", "failed"} /\ runs < MaxRuns
  /\ runs' = runs + 1
  /\ \E to \in {ResolveDestination(disk, move)} : \E texts \in {NewTexts(disk, move, to)} :
       \E why \in {Refusal(disk, move, to, texts)} : \E edits \in {Edits(disk, move, texts)} :
         run' = IF why # "" THEN [NotRun EXCEPT !.pc = why]
                ELSE Phase("mkdir", Head(to), [p \in edits |-> texts[p]], edits, Drifts(disk, move, texts))
  /\ UNCHANGED <<disk, move, first, touched, partial>>

MakeDirectory ==
  /\ run.pc = "mkdir"
  /\ run' = [run EXCEPT !.pc = "write"]
  /\ UNCHANGED <<disk, move, runs, first, touched, partial>>

(* The referrers in no order a property depends on, the moved file last. *)
Write(p) ==
  /\ run.pc = "write" /\ p \in run.left
  /\ p = move.src => run.left = {p}
  /\ disk' = [q \in DOMAIN disk \cup {p} |-> IF q = p THEN run.plan[p] ELSE disk[q]]
  /\ run' = [run EXCEPT !.left = @ \ {p}]
  /\ UNCHANGED <<move, runs, first, touched, partial>>

Rename ==
  /\ run.pc = "write" /\ run.left = {} /\ move.src \in DOMAIN disk
  /\ disk' = [q \in AfterMove(DOMAIN disk, move.src, run.dst) |->
                IF q = run.dst THEN disk[move.src] ELSE disk[q]]
  /\ run' = [run EXCEPT !.pc = "done"]
  /\ UNCHANGED <<move, runs, first, touched, partial>>

(* Any step may fail, or the process may be killed before it. *)
Fail ==
  /\ run.pc \in {"mkdir", "write"}
  /\ run' = [NotRun EXCEPT !.pc = "failed"]
  /\ partial' = (partial \/ disk # first)
  /\ UNCHANGED <<disk, move, runs, first, touched>>

(* External: a person saves, or deletes, another concept's file. *)
Edit(p) ==
  /\ ~touched /\ run.pc \notin {"idle", "done"}
  /\ p \in Loaded(disk) \ {move.src}
  /\ \/ disk' = [disk EXCEPT ![p].refs = <<>>]
     \/ disk' = [q \in DOMAIN disk \ {p} |-> disk[q]]
  /\ touched' = TRUE
  /\ UNCHANGED <<move, run, runs, first, partial>>

Init ==
  /\ disk \in Bundles /\ move \in Moves
  /\ run = NotRun /\ runs = 0 /\ first = disk /\ touched = FALSE /\ partial = FALSE

Next ==
  \/ PlanMove \/ MakeDirectory \/ Rename \/ Fail
  \/ \E p \in DOMAIN disk : Edit(p)
  \/ \E p \in run.left : Write(p)

Spec == Init /\ [][Next]_vars

----------------------------------------------------------------------------
Image(p) == IF p = move.src THEN run.dst ELSE p

(* A finished move leaves every reference that named a file naming that     *)
(* same file, wherever it now is, from wherever it is now written           *)
(* (references.ts:216).  After a run that had stopped among the referrers   *)
(* that is true of the other concepts' references, if no other file has the *)
(* new name: a reference already rewritten names nothing before the rename, *)
(* or such a file, and the moved file's own are read from its old place.    *)
Unused == \A q \in DOMAIN first \ {move.src} : q.name # run.dst.name
LinksSurvive ==
  run.pc = "done" /\ ~touched =>
    \A p \in Loaded(first) : ~partial \/ (Unused /\ p # move.src) =>
      \A i \in DOMAIN first[p].refs :
        LET was == Resolve(DOMAIN first, p, first[p].refs[i])
            is == Resolve(DOMAIN disk, Image(p), disk[Image(p)].refs[i])
        IN was.tag = "node" => is.tag = "node" /\ is.at = Image(was.at)

(* No concept's text is ever without a path, at any step, failure or refusal,*)
(* and a refused command has left every text as it was (run.ts:248).        *)
NothingLost ==
  ~touched =>
    /\ \A p \in DOMAIN first : \E q \in DOMAIN disk : disk[q].id = first[p].id
    /\ runs = 1 /\ run.pc \notin {"mkdir", "write", "done", "failed"} => disk = first

(* The concepts a move says will drift are those whose attestation held    *)
(* before and no longer does (run.ts:226).                                 *)
DriftsReported ==
  run.pc = "done" /\ ~touched /\ runs = 1 =>
    run.drifts = {p \in Loaded(first) : Current(first[p]) /\ ~Current(disk[Image(p)])}

----------------------------------------------------------------------------
(* Why the last two hold, while nobody else writes: until the rename every   *)
(* path has the text it had, some already rewritten, and a run that got past *)
(* its refusals moves it to a path that is free.                             *)
Refusals == {"not-found", "project-file", "outside-bundle", "reserved", "same-path", "destination-exists",
             "unloaded-files", "unrewritable"}
Writing == run.pc \in {"mkdir", "write"}
Planned(p) == IF p \in DOMAIN run.plan THEN run.plan[p] ELSE first[p]
MoveInv ==
  ~touched =>
    /\ run.pc \in {"idle", "mkdir", "write", "done", "failed"} \cup Refusals
    /\ runs \in Nat /\ (run.pc = "idle" <=> runs = 0)
    /\ \A p \in DOMAIN first : IsText(first[p])
    /\ run.pc \in {"idle"} \cup Refusals /\ runs < 2 => disk = first
    /\ IF run.pc = "done" THEN \A p \in DOMAIN first : Image(p) \in DOMAIN disk /\ disk[Image(p)].id = first[p].id
       ELSE /\ DOMAIN disk = DOMAIN first
            /\ \A p \in DOMAIN disk : IsText(disk[p]) /\ disk[p].id = first[p].id
    /\ Writing =>
         /\ run.left \subseteq DOMAIN run.plan /\ DOMAIN run.plan \subseteq DOMAIN first
         /\ \A p \in DOMAIN run.plan : IsText(run.plan[p]) /\ run.plan[p].id = first[p].id
         /\ run.dst \notin DOMAIN first
DriftInv ==
  ~touched /\ runs = 1 =>
    /\ Writing =>
         /\ run.drifts = {p \in Loaded(first) : Current(first[p]) /\ ~Current(Planned(p))}
         /\ \A p \in DOMAIN first : disk[p] = IF p \in run.left THEN first[p] ELSE Planned(p)
    /\ DriftsReported

(* Why the first one holds of a destination that a reference without .md    *)
(* reaches: every reference of the plan is rewritten as seen from the first  *)
(* disk, to a path that is free there, whichever of the texts are written.   *)
Plain == run.dst.name \notin Dotted /\ Path(run.dst.dir, run.dst.name, FALSE) \notin DOMAIN first
Respelled(p) == [i \in DOMAIN first[p].refs |-> Rewritten(first, p, first[p].refs[i], move, run.dst, Image(p))]
Aimed == move.src \in Loaded(first) /\ run.dst \notin DOMAIN first /\ IsPath(run.dst) /\ run.dst.md
LinkInv ==
  /\ first \in Bundles /\ move \in Moves
  /\ ~touched /\ ~partial =>
       /\ ~Writing /\ run.pc # "done" => disk = first
       /\ Writing =>
            /\ Aimed /\ \A p \in Loaded(first) : Planned(p).refs = Respelled(p)
            /\ \A p \in DOMAIN first : disk[p] = IF p \in run.left THEN first[p] ELSE Planned(p)
       /\ run.pc = "done" =>
            /\ Aimed /\ DOMAIN disk = AfterMove(DOMAIN first, move.src, run.dst)
            /\ \A p \in Loaded(first) : disk[Image(p)].refs = Respelled(p)
=============================================================================
