-------------------------------- MODULE Sync --------------------------------
(***************************************************************************)
(* okfit sync: the plan, the snapshot of what it will replace, the prompt, *)
(* the comparison and the writes, in an ordinary run and in a pre-commit   *)
(* hook (--staged), over a working tree that people edit and the history   *)
(* of a git repository (packages/engine/src/sync/*.ts,                     *)
(* packages/profiles/src/Derivation.ts,                                    *)
(* packages/cli/src/commands/sync-confirm.ts).                             *)
(*                                                                         *)
(* The modes generated and log. A body and the prose of the log are        *)
(* numbers, an instant is its calendar day, the titles of the concepts are *)
(* distinct and stay, and log.md exists and is tracked.                    *)
(***************************************************************************)
EXTENDS Integers, Sequences, FiniteSets

CONSTANTS
  Concepts,
  MaxBody,     \* Bound: bodies a concept may have.
  MaxDay,      \* Bound: days that pass.
  MaxCommits,  \* Bound: commits in the history.
  MaxActs      \* Bound: edits, additions to the index and days.

ASSUME SyncAssumption ==
  /\ {MaxBody, MaxCommits, MaxActs} \subseteq Nat
  /\ MaxDay \in Nat \ {0}

VARIABLES
  agent,   \* Whether the config names an agent, so that missing blocks are created.
  day,     \* Today.
  tree,    \* The working tree: [file, log].
  index,   \* The git index: the same.
  head,    \* The commits on HEAD, oldest first: [file, log, day].
  run,     \* The sync in progress.
  acts,    \* How often the outside has acted.
  dated,   \* History: <<c, body, day>> where that body was committed or staged that day.
  slipped  \* History: the concepts once loaded with a body and dated with another.

vars == <<agent, day, tree, index, head, run, acts, dated, slipped>>

-----------------------------------------------------------------------------
Body == 1 .. MaxBody
Day == 1 .. MaxDay
None == 0
Absent == [body |-> None, stamp |-> None, at |-> None]

\* A concept file: its body, the body integrity.generated records, generated.at.
Text == {t \in [body : Body, stamp : Body \union {None}, at : Day \union {None}] :
           t.stamp = None <=> t.at = None}

\* log.md: how often each line stands under each day, and what people wrote there. Torn
\* is a text cut at the wrong places: of its lines nothing is said.
Torn == 2
Entry == [day : Day, concept : Concepts, verb : {"Added", "Updated"}]
LogText == [lines : [Entry -> Nat], prose : 0 .. Torn]

Named(log) == {e \in Entry : log.lines[e] > 0}

Log == "log"

\* log.md is a reserved file, never a concept.
ASSUME LogAssumption == Log \notin Concepts

Stamped(t) == t.stamp = t.body

Empty == [file |-> [c \in Concepts |-> Absent], log |-> [lines |-> [e \in Entry |-> 0], prose |-> 0]]

NoPlan == [t \in {} |-> Absent]

Idle == [at |-> "idle", kind |-> "ordinary", now |-> None, loaded |-> Empty, calm |-> TRUE,
         logDirty |-> FALSE, prov |-> NoPlan, plan |-> NoPlan, raced |-> {}, before |-> NoPlan,
         left |-> {}]

-----------------------------------------------------------------------------
(***************************************************************************)
(* generatedAt: when the body in the working tree was committed.           *)
(***************************************************************************)
Uncommitted == [day |-> None, creating |-> FALSE]

Committed == IF head = <<>> THEN Empty ELSE head[Len(head)]

HeadFile(c) == Committed.file[c]

\* The commits up to HEAD that all have its body: the first of them introduced it.
SinceBody(c) == {i \in 1 .. Len(head) : \A j \in i .. Len(head) : head[j].file[c].body = tree.file[c].body}

\* Faulty: an edited body is dated with the last commit.
GeneratedAtHead(c) ==
  IF head = <<>> \/ HeadFile(c) = Absent THEN Uncommitted
  ELSE [day |-> head[Len(head)].day, creating |-> Len(head) = 1]

GeneratedAt(c) ==
  IF HeadFile(c).body # tree.file[c].body THEN Uncommitted
  ELSE LET i == CHOOSE k \in SinceBody(c) : \A j \in SinceBody(c) : k <= j
       IN [day |-> head[i].day, creating |-> \A j \in 1 .. i - 1 : head[j].file[c] = Absent]

-----------------------------------------------------------------------------
(***************************************************************************)
(* The two modes, given the bundle a run loaded.                           *)
(***************************************************************************)
Present(l) == {c \in Concepts : l.file[c] # Absent}

\* Faulty: an entry of the other verb is not seen.
WantsVerbatim(log, d, c) ==
  /\ \A e \in Named(log) : e.day <= d
  /\ [day |-> d, concept |-> c, verb |-> "Updated"] \notin Named(log)

\* wantsLogEntry: on or after the newest logged day, and not named on that day.
Wants(log, d, c) ==
  /\ \A e \in Named(log) : e.day <= d
  /\ \A e \in Named(log) : ~(e.day = d /\ e.concept = c)

\* The concepts whose history an ordinary run walks.
Walked(l) == {c \in Present(l) : Stamped(l.file[c]) => Wants(l.log, l.file[c].at, c)}

\* Faulty: the date is written without the digest.
StampDateOnly(l, c, p) == [tree.file[c] EXCEPT !.at = p.day]

\* The digest is the loaded body's; the text it is spliced into is read again.
Stamp(l, c, p) == [tree.file[c] EXCEPT !.stamp = l.file[c].body, !.at = p.day]

\* syncGenerated: a concept in scope whose body is not the recorded one, whose
\* provenance is known, and whose block exists or may be created.
Restamped(l, prov) ==
  {c \in DOMAIN prov : /\ ~Stamped(l.file[c])
                       /\ prov[c] # Uncommitted
                       /\ l.file[c].at = None => agent
                       /\ Stamp(l, c, prov[c]) # tree.file[c]}

Verb(p) == IF p.creating THEN "Added" ELSE "Updated"

Additions(l, prov) ==
  {[day |-> prov[c].day, concept |-> c, verb |-> Verb(prov[c])] :
     c \in {c \in DOMAIN prov : prov[c] # Uncommitted /\ Wants(l.log, prov[c].day, c)}}

\* mergeLog cuts the text on disk at the offsets of the loaded one.
Merged(l, new) ==
  [lines |-> [e \in Entry |-> l.log.lines[e] + IF e \in new THEN 1 ELSE 0],
   prose |-> IF tree.log = l.log THEN tree.log.prose ELSE Torn]

\* What planSync would write, by target.
Plan(l, prov, logDirty) ==
  LET stamps == [c \in Restamped(l, prov) |-> Stamp(l, c, prov[c])]
      log == Merged(l, Additions(l, prov))
      targets == DOMAIN stamps \union IF logDirty \/ log = tree.log THEN {} ELSE {Log}
  IN [t \in targets |-> IF t = Log THEN log ELSE stamps[t]]

On(t) == IF t = Log THEN tree.log ELSE tree.file[t]

-----------------------------------------------------------------------------
(***************************************************************************)
(* A run.                                                                  *)
(***************************************************************************)
Begin(kind) ==
  /\ run.at = "idle"
  /\ run' = [Idle EXCEPT !.at = "loaded", !.kind = kind, !.now = day, !.loaded = tree]
  /\ UNCHANGED <<agent, day, tree, index, head, acts, dated, slipped>>

\* An ordinary run walks the history of the concepts that need a date, each by the body
\* it then has.
Walk ==
  /\ run.at = "loaded"
  /\ run.kind = "ordinary"
  /\ run' = [run EXCEPT !.at = "dated",
                         !.prov = [c \in Walked(run.loaded) |-> GeneratedAt(c)]]
  /\ slipped' = slipped \union {c \in Walked(run.loaded) :
                                   tree.file[c].body # run.loaded.file[c].body}
  /\ UNCHANGED <<agent, day, tree, index, head, acts, dated>>

StagedConcepts == {c \in Present(run.loaded) : index.file[c] # HeadFile(c)}

\* A hook dates what is staged with now, and leaves a log with unstaged edits alone.
DateStaged ==
  /\ run.at = "loaded"
  /\ run.kind = "staged"
  /\ run' = [run EXCEPT !.at = "dated", !.logDirty = index.log # tree.log,
                         !.prov = [c \in StagedConcepts |->
                                     [day |-> run.now, creating |-> HeadFile(c) = Absent]]]
  /\ dated' = dated \union {<<c, run.loaded.file[c].body, run.now>> : c \in StagedConcepts}
  /\ UNCHANGED <<agent, day, tree, index, head, acts, slipped>>

MakePlan ==
  /\ run.at = "dated"
  /\ run' = [run EXCEPT !.at = "planned",
                         !.plan = Plan(run.loaded, run.prov, run.logDirty)]
  /\ UNCHANGED <<agent, day, tree, index, head, acts, dated, slipped>>

\* The texts the plan is to replace are read once it is complete. An ordinary run then
\* may ask; a hook never does.
Snapshot ==
  /\ run.at = "planned"
  /\ run' = [run EXCEPT !.at = IF run.kind = "staged" \/ DOMAIN run.plan = {} THEN "confirmed"
                                ELSE "asking",
                         !.before = [t \in DOMAIN run.plan |-> On(t)]]
  /\ UNCHANGED <<agent, day, tree, index, head, acts, dated, slipped>>

Confirm ==
  /\ run.at = "asking"
  /\ run' = [run EXCEPT !.at = "confirmed"]
  /\ UNCHANGED <<agent, day, tree, index, head, acts, dated, slipped>>

\* Declined, a dry run, a plan found stale, a write or a git add that failed.
Stop ==
  /\ run' = Idle
  /\ UNCHANGED <<agent, day, tree, index, head, acts, dated, slipped>>

Decline == run.at = "asking" /\ Stop

\* Faulty: nothing is compared.
StaleNever == FALSE

Stale == \E t \in DOMAIN run.plan : On(t) # run.before[t]

Refuse == run.at = "confirmed" /\ Stale /\ Stop

Accept ==
  /\ run.at = "confirmed"
  /\ ~Stale
  /\ run' = [run EXCEPT !.at = "writing", !.left = DOMAIN run.plan]
  /\ UNCHANGED <<agent, day, tree, index, head, acts, dated, slipped>>

\* Concepts are written first, then the log.
Write(t) ==
  /\ run.at = "writing"
  /\ t \in run.left
  /\ t = Log => run.left = {Log}
  /\ tree' = IF t = Log THEN [tree EXCEPT !.log = run.plan[t]]
             ELSE [tree EXCEPT !.file[t] = run.plan[t]]
  /\ run' = [run EXCEPT !.left = @ \ {t}]
  /\ UNCHANGED <<agent, day, index, head, acts, dated, slipped>>

\* A write that fails, or the git add after a hook's last write.
WriteFails ==
  /\ run.at = "writing"
  /\ run.left # {} \/ run.kind = "staged"
  /\ Stop

Finish ==
  /\ run.at = "writing"
  /\ run.left = {}
  /\ run.kind = "ordinary"
  /\ Stop

\* git add of what was written.
Restaged ==
  [file |-> [c \in Concepts |-> IF c \in DOMAIN run.plan THEN tree.file[c] ELSE index.file[c]],
   log |-> IF Log \in DOMAIN run.plan THEN tree.log ELSE index.log]

Restage ==
  /\ run.at = "writing"
  /\ run.left = {}
  /\ run.kind = "staged"
  /\ index' = Restaged
  /\ run' = [run EXCEPT !.at = "hooked"]
  /\ UNCHANGED <<agent, day, tree, head, acts, dated, slipped>>

-----------------------------------------------------------------------------
(***************************************************************************)
(* What people and git do.                                                 *)
(***************************************************************************)
\* Between these a run reads what it plans from, and writes: what changes then it misses.
Window == {"loaded", "dated", "planned", "writing"}

\* Anybody, at any time; touched are the targets whose text changes.
Acts(touched) ==
  /\ acts < MaxActs
  /\ acts' = acts + 1
  /\ run' = IF run.at = "idle" THEN run
            ELSE [run EXCEPT !.calm = FALSE,
                             !.raced = IF run.at \in Window THEN @ \union touched ELSE @]

Edit(c, b) ==
  /\ Acts({c})
  /\ b # tree.file[c].body
  /\ tree' = [tree EXCEPT !.file[c].body = b]
  /\ UNCHANGED <<agent, day, index, head, dated, slipped>>

EditLog ==
  /\ Acts({Log})
  /\ tree.log.prose # Torn
  /\ tree' = [tree EXCEPT !.log.prose = 1 - @]
  /\ UNCHANGED <<agent, day, index, head, dated, slipped>>

NextDay ==
  /\ Acts({})
  /\ day < MaxDay
  /\ day' = day + 1
  /\ UNCHANGED <<agent, tree, index, head, dated, slipped>>

\* git add, never while git itself runs the hook.
Add(c) ==
  /\ run.kind # "staged"
  /\ Acts({})
  /\ index.file[c] # tree.file[c]
  /\ index' = [index EXCEPT !.file[c] = tree.file[c]]
  /\ UNCHANGED <<agent, day, tree, head, dated, slipped>>

AddLog ==
  /\ run.kind # "staged"
  /\ Acts({})
  /\ index.log # tree.log
  /\ index' = [index EXCEPT !.log = tree.log]
  /\ UNCHANGED <<agent, day, tree, head, dated, slipped>>

Introduced(commits, d) ==
  LET n == Len(commits)
      before(c) == IF n = 1 THEN None ELSE commits[n - 1].file[c].body
  IN {<<c, commits[n].file[c].body, d>> :
        c \in {c \in Concepts : commits[n].file[c].body \notin {None, before(c)}}}

\* A commit ends the hook it ran; git runs none when it is told not to, as it may be at
\* any time of an ordinary run.
MakeCommit(commits, d) ==
  /\ run.at = "hooked" \/ run.kind = "ordinary"
  /\ head' = Append(commits, [file |-> index.file, log |-> index.log, day |-> d])
  /\ dated' = dated \union Introduced(head', d)
  /\ run' = IF run.at \in {"idle", "hooked"} THEN Idle ELSE [run EXCEPT !.calm = FALSE]
  /\ UNCHANGED <<agent, day, tree, index, acts, slipped>>

Commit ==
  /\ Len(head) < MaxCommits
  /\ index.file # Committed.file \/ index.log # Committed.log
  /\ MakeCommit(head, day)

\* An amended commit keeps its author date.
Amend ==
  /\ head # <<>>
  /\ run.at = "hooked"
  /\ MakeCommit(SubSeq(head, 1, Len(head) - 1), head[Len(head)].day)

\* A commit given up after its hook.
Abandon == run.at = "hooked" /\ Stop

-----------------------------------------------------------------------------
Init ==
  /\ agent \in BOOLEAN
  /\ day = 1
  /\ tree = Empty
  /\ index = Empty
  /\ head = <<>>
  /\ run = Idle
  /\ acts = 0
  /\ dated = {}
  /\ slipped = {}

Sync == \/ \E kind \in {"ordinary", "staged"} : Begin(kind)
        \/ Walk
        \/ DateStaged
        \/ MakePlan
        \/ Snapshot
        \/ Confirm
        \/ Decline
        \/ Refuse
        \/ Accept
        \/ \E t \in Concepts \union {Log} : Write(t)
        \/ WriteFails
        \/ Finish
        \/ Restage

Outside == \/ \E c \in Concepts, b \in Body : Edit(c, b)
           \/ EditLog
           \/ NextDay
           \/ \E c \in Concepts : Add(c)
           \/ AddLog
           \/ Commit
           \/ Amend
           \/ Abandon

Next == Sync \/ Outside

Spec == Init /\ [][Next]_vars

-----------------------------------------------------------------------------
Files == [Concepts -> Text \union {Absent}]
Tree == [file : Files, log : LogText]
Target == Concepts \union {Log}
Replaced == Text \union {Absent} \union LogText

Provenance == [day : Day, creating : BOOLEAN] \union {Uncommitted}

\* The run, whose functions are typed apart: their domains vary.
Run == [at : {"idle", "loaded", "dated", "planned", "asking", "confirmed", "writing", "hooked"},
        kind : {"ordinary", "staged"}, now : Day \union {None}, loaded : Tree, calm : BOOLEAN,
        logDirty : BOOLEAN, prov : {run.prov}, plan : {run.plan}, raced : SUBSET Target,
        before : {run.before}, left : SUBSET DOMAIN run.plan]

TypeOK ==
  /\ agent \in BOOLEAN
  /\ day \in Day
  /\ tree \in Tree
  /\ index \in Tree
  /\ head \in Seq([file : Files, log : LogText, day : Day])
  /\ run \in Run
  /\ DOMAIN run.prov \subseteq Concepts /\ run.prov \in [DOMAIN run.prov -> Provenance]
  /\ DOMAIN run.plan \subseteq Target /\ run.plan \in [DOMAIN run.plan -> Replaced]
  /\ DOMAIN run.before \subseteq Target
  /\ acts \in 0 .. MaxActs
  /\ dated \subseteq Concepts \X Body \X Day
  /\ slipped \subseteq Concepts

\* A body that counts as recorded, which no later run looks at again, is dated with a
\* day on which it was committed or, by a hook, staged (okf/decisions/
\* sync-staged-stamps.md 40-55): a date is never paired with another body. Only a concept
\* whose body changed between a run's load and its walk may be misdated.
StampTrue ==
  \A c \in Concepts \ slipped : LET t == tree.file[c] IN
    (t.at # None /\ Stamped(t)) => <<c, t.body, t.at>> \in dated

\* No line twice, and no concept under both verbs of a day.
OnceEach(log) ==
  /\ \A e \in Entry : log.lines[e] <= 1
  /\ \A e, f \in Named(log) : (e.day = f.day /\ e.concept = f.concept) => e = f

\* The log names a concept once a day, by one line of one verb, however often hooks are
\* re-run, commits amended or abandoned, and whether or not the concept was there before
\* (sync-staged-stamps.md 66-67, log.ts wantsLogEntry). A torn log may say anything.
NamedOnce == tree.log.prose # Torn => OnceEach(tree.log)

Loaded(t) == IF t = Log THEN run.loaded.log ELSE run.loaded.file[t]

Written(t) == run.at = "writing" /\ run'.at = "writing" /\ t \in run.left \ run'.left

\* What a write replaces is the text its run loaded, planned from and showed, whatever
\* people did during the prompt and whatever else the plan has written by then. Only a
\* target edited before the snapshot or after the comparison may be overwritten.
Fresh == \A t \in Target \ run.raced : Written(t) => On(t) = Loaded(t)

PlanIsFresh == [][Fresh]_vars

\* What a comment promises: a run writes nothing if a target differs from what planSync
\* saw (sync/run.ts 282-284). The snapshot is a later read than the one planned from.
PlanHolds ==
  [][(run.at = "confirmed" /\ run'.at = "writing") => \A t \in DOMAIN run.plan : On(t) = Loaded(t)]_vars

\* No run changes what people wrote under the days of the log, unless they change it while
\* the run plans or writes (log.ts mergeLog: the text of an existing group passes through
\* verbatim).
Verbatim == (Log \notin run.raced /\ Written(Log)) => tree'.log.prose = tree.log.prose

LogVerbatim == [][Verbatim]_vars

\* An ordinary run has nothing to do: each mode, run on what is there, writes nothing.
NothingToDo == DOMAIN Plan(tree, [c \in Walked(tree) |-> GeneratedAt(c)], FALSE) = {}

\* Every committed body is recorded, if there is or may be a block for it, and named in
\* the log, unless the log has gone past the day it was committed or is recorded with, or
\* an earlier run misdated it.
UpToDate ==
  \A c \in Concepts : LET t == tree.file[c] IN
    (t # Absent /\ t.body = HeadFile(c).body) =>
      /\ agent \/ t.at # None => Stamped(t)
      /\ c \notin slipped =>
           \E e \in Named(tree.log) :
             \/ e.day > GeneratedAt(c).day
             \/ Stamped(t) /\ e.day > t.at
             \/ e.concept = c /\ <<c, t.body, e.day>> \in dated

\* After a run that wrote everything and was not disturbed nothing is missing, and the
\* next finds nothing to do, whatever earlier runs left half-written or overwrote.
Settled ==
  (/\ run.at = "writing" /\ run'.at = "idle" /\ run.left = {}
   /\ run.calm /\ run.kind = "ordinary" /\ tree.log.prose # Torn) =>
    NothingToDo' /\ UpToDate'

SyncSettles == [][Settled]_vars

\* What an undisturbed hook stamped is committed as it stands in the working tree, and
\* no later run stamps or, of a log that is not torn, names it again
\* (sync-staged-stamps.md 52-54, 65).
Kept ==
  (run.at = "hooked" /\ run.calm /\ head' # head) =>
    \A c \in DOMAIN run.plan \ {Log} : LET t == HeadFile(c)' IN
      /\ Stamped(t)
      /\ t = tree.file[c]
      /\ run.logDirty \/ tree.log.prose = Torn \/ ~Wants(Committed.log', t.at, c)

HookIsKept == [][Kept]_vars

-----------------------------------------------------------------------------
(***************************************************************************)
(* Why these hold, for any concepts and any number of acts. Each commit    *)
(* that brings a body leaves its day in the history; the provenance, the   *)
(* plan and the tree carry such days only, unless a walk slipped; and      *)
(* what is planned from, compared with and written over is one text,       *)
(* unless its target was raced.                                            *)
(***************************************************************************)
Dates(c, t) == t.at # None => <<c, t.stamp, t.at>> \in dated

\* Commit i brought the body commit n has, which no commit between them changed.
Brought(c, i, n) ==
  /\ \A j \in i .. n : head[j].file[c].body = head[n].file[c].body
  /\ i > 1 => head[i - 1].file[c].body # head[n].file[c].body
  /\ <<c, head[n].file[c].body, head[i].day>> \in dated

HistoryInv ==
  \A c \in Concepts : \A n \in 1 .. Len(head) :
    head[n].file[c].body # None => \E i \in 1 .. n : Brought(c, i, n)

\* What a run read, and would write, belongs to concepts that are there.
PresentInv ==
  /\ \A c \in Concepts : run.loaded.file[c] # Absent => tree.file[c] # Absent
  /\ DOMAIN run.prov \subseteq Present(run.loaded)
  /\ \A t \in DOMAIN run.plan : IF t = Log THEN run.plan[t] \in LogText ELSE run.plan[t] \in Text
  /\ IF run.at = "idle" THEN run = Idle ELSE run.now \in Day
  /\ run.at # "writing" => run.left = {}

NamedInv == /\ OnceEach(tree.log)
            /\ OnceEach(run.loaded.log)
            /\ Log \in DOMAIN run.plan => OnceEach(run.plan[Log])

DatesInv ==
  /\ \A c \in Concepts \ slipped : Dates(c, tree.file[c])
  /\ \A c \in DOMAIN run.prov \ slipped :
       run.prov[c] # Uncommitted => <<c, run.loaded.file[c].body, run.prov[c].day>> \in dated
  /\ \A c \in DOMAIN run.plan \ ({Log} \union slipped) : Dates(c, run.plan[c])

RaceInv ==
  /\ run.at \in {"loaded", "dated", "planned"} => \A t \in Target \ run.raced : On(t) = Loaded(t)
  /\ run.at \in {"asking", "confirmed"} =>
       /\ DOMAIN run.before = DOMAIN run.plan
       /\ \A t \in DOMAIN run.plan \ run.raced : run.before[t] = Loaded(t)
  /\ run.at = "writing" => \A t \in run.left \ run.raced : On(t) = Loaded(t)
  /\ Log \in DOMAIN run.plan \ run.raced => run.plan[Log].prose = run.loaded.log.prose

\* The concepts a run stamps, and a plan that leaves nothing out.
Due(l, prov) ==
  {c \in DOMAIN prov : ~Stamped(l.file[c]) /\ prov[c] # Uncommitted /\ (l.file[c].at = None => agent)}

Complete(l, prov, plan, logDirty) ==
  /\ DOMAIN plan \ {Log} = Due(l, prov)
  /\ \A c \in DOMAIN plan \ {Log} :
       plan[c].body = l.file[c].body /\ Stamped(plan[c]) /\ plan[c].at = prov[c].day
  /\ IF Log \in DOMAIN plan THEN Named(plan[Log]) = Named(l.log) \union Additions(l, prov)
     ELSE logDirty \/ Additions(l, prov) \subseteq Named(l.log)

\* What a run that nobody has disturbed finds in a target.
Left(t) == IF t \in DOMAIN run.plan \ run.left THEN run.plan[t]
           ELSE Loaded(t)

\* Such a run plans from what is there, its plan leaves nothing out, only its own writes
\* change the tree, and a hook stages each of them.
CourseInv ==
  (run.calm /\ run.at # "idle") =>
    /\ run.at \notin {"writing", "hooked"} => tree = run.loaded
    /\ run.at \in {"writing", "hooked"} => \A t \in Target : On(t) = Left(t)
    /\ run.kind = "ordinary" => ~run.logDirty
    /\ (run.at # "loaded" /\ run.kind = "ordinary") =>
         /\ DOMAIN run.prov = Walked(run.loaded)
         /\ \A c \in Walked(run.loaded) : run.prov[c] = GeneratedAt(c)
    /\ run.at \notin {"loaded", "dated"} => Complete(run.loaded, run.prov, run.plan, run.logDirty)
    /\ (run.at \notin {"loaded", "hooked"} /\ run.kind = "staged") => run.logDirty \/ index.log = run.loaded.log
    /\ run.at = "hooked" =>
         /\ \A c \in DOMAIN run.plan \ {Log} : index.file[c] = tree.file[c]
         /\ run.logDirty \/ index.log = tree.log

SyncInv == TypeOK /\ PresentInv /\ HistoryInv /\ NamedInv /\ DatesInv /\ RaceInv /\ CourseInv
=============================================================================
