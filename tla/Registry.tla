------------------------------ MODULE Registry ------------------------------
(***************************************************************************)
(* The session registry of the language server                             *)
(* (packages/lsp/src/session/registry.ts): workspace folders in, one       *)
(* session per bundle root out, reference-counted by the folders that      *)
(* resolve to it.                                                          *)
(*                                                                         *)
(* All of the program's state is one Ref and every transition of it is one *)
(* synchronous modify, so each is one action; reading a folder's config,   *)
(* closing a scope and calling onDispose happen between two transitions    *)
(* and are actions of their own. A process is one fiber inside the         *)
(* registry, with the local variables of its call as its job.              *)
(***************************************************************************)
EXTENDS Naturals, FiniteSets

CONSTANTS
  Folders,      \* Workspace folders.
  Roots,        \* Bundle roots a folder's config may resolve to.
  Handles,      \* Identities of sessions. Bounds the sessions referred to at once.
  Procs,        \* Fibers calling the registry.
  Requesters,   \* The fibers that serve requests: they look sessions up, no more.
  NoRoot, NoHandle, NoProc,
  Broken,       \* What a config that does not load resolves to.
  Configs,      \* The configurations of all the folders that may be on disk.
  MaxEdits,     \* Bound: changes to the configs on disk.
  Interruptible \* The fibers that may be interrupted in a lookup.

ASSUME RegistryAssumption ==
  /\ Folders # {}
  /\ Requesters \subseteq Procs
  /\ NoRoot \notin Roots /\ Broken \notin Roots /\ Broken # NoRoot
  /\ NoHandle \notin Handles
  /\ NoProc \notin Procs
  /\ Configs \subseteq [Folders -> Roots \union {Broken}]
  /\ MaxEdits \in Nat
  /\ Interruptible \subseteq Procs

VARIABLES
  slot,     \* State.folders: what each workspace folder stands at.
  entry,    \* State.roots: each root's session and the folders mapped to it.
  session,  \* Whether each session's scope is open.
  job,      \* What each fiber is doing.
  disk,     \* The config of each folder, as it would resolve now.
  edits,    \* Changes to the disk so far.
  dirty     \* Folders changed on disk and not yet reported to the registry.

vars == <<slot, entry, session, job, disk, edits, dirty>>

-----------------------------------------------------------------------------
Tag == {"absent", "unbuilt", "building", "failed", "live"}

Slot(tag) == [tag |-> tag, by |-> NoProc, root |-> NoRoot]

\* The placeholder of one build, whose Deferred is named by the fiber running it.
Building(p) == [tag |-> "building", by |-> p, root |-> NoRoot]

Live(r) == [tag |-> "live", by |-> NoProc, root |-> r]

Tagged(tag) == {f \in Folders : slot[f].tag = tag}

NoEntry == [handle |-> NoHandle, folders |-> {}]

HasEntry(r) == entry[r] # NoEntry

LiveRoots == {r \in Roots : HasEntry(r)}

NothingResolved == [f \in Folders |-> NoRoot]

NothingFresh == [r \in Roots |-> NoHandle]

Done == [pc |-> "done", folder |-> CHOOSE f \in Folders : TRUE, retry |-> FALSE, on |-> NoProc,
         root |-> NoRoot, prior |-> NoHandle, conf |-> NothingResolved, fresh |-> NothingFresh,
         left |-> {}, roots |-> {}, failed |-> {}, doomed |-> {}, telling |-> NoHandle,
         adding |-> {}]

Fresh(p) == {job[p].fresh[r] : r \in Roots} \ {NoHandle}

At(p, pc) == job[p].pc = pc

\* A session nobody refers to any more: its identity may stand for a new one.
Unused(h) == /\ ~session[h]
             /\ \A p \in Procs : h \notin {job[p].prior, job[p].telling}

Goto(p, pc) == job' = [job EXCEPT ![p].pc = pc]

-----------------------------------------------------------------------------
(***************************************************************************)
(* handleFor and runBuild: one session looked up.                          *)
(***************************************************************************)
Lookup(p, f, retry) ==
  /\ At(p, "done")
  /\ p \in Requesters => ~retry
  /\ job' = [job EXCEPT ![p] = [Done EXCEPT !.pc = "step", !.folder = f, !.retry = retry]]
  /\ UNCHANGED <<slot, entry, session, disk, edits, dirty>>

MayBuild(f, retry) == \/ slot[f].tag = "unbuilt"
                      \/ slot[f].tag = "failed" /\ retry

\* Answering: on to the next folder of a retryFailed, or back to the caller.
Answer(p) ==
  /\ At(p, "step")
  /\ slot[job[p].folder].tag # "building"
  /\ ~MayBuild(job[p].folder, job[p].retry)
  /\ job' = [job EXCEPT ![p] = [Done EXCEPT !.pc = IF job[p].left = {} THEN "done" ELSE "picking",
                                            !.left = job[p].left]]
  /\ UNCHANGED <<slot, entry, session, disk, edits, dirty>>

Await(p) ==
  /\ At(p, "step")
  /\ slot[job[p].folder].tag = "building"
  /\ job' = [job EXCEPT ![p] = [job[p] EXCEPT !.pc = "waiting", !.on = slot[job[p].folder].by]]
  /\ UNCHANGED <<slot, entry, session, disk, edits, dirty>>

Begin(p) ==
  /\ At(p, "step")
  /\ MayBuild(job[p].folder, job[p].retry)
  /\ slot' = [slot EXCEPT ![job[p].folder] = Building(p)]
  /\ Goto(p, "resolving")
  /\ UNCHANGED <<entry, session, disk, edits, dirty>>

Resolve(p) ==
  /\ At(p, "resolving")
  /\ job' = [job EXCEPT ![p] = [job[p] EXCEPT !.pc = "resolved",
                                         !.conf[job[p].folder] = disk[job[p].folder]]]
  /\ UNCHANGED <<slot, entry, session, disk, edits, dirty>>

Resolved(p) == job[p].conf[job[p].folder]

\* A session is made only for a config that loads and a root that is not live.
Make(p) ==
  /\ At(p, "resolved")
  /\ IF Resolved(p) \in Roots \ LiveRoots
     THEN \E h \in Handles :
            /\ Unused(h)
            /\ session' = [session EXCEPT ![h] = TRUE]
            /\ job' = [job EXCEPT ![p] = [job[p] EXCEPT !.pc = "made", !.fresh[Resolved(p)] = h]]
     ELSE /\ Goto(p, "made")
          /\ UNCHANGED session
  /\ UNCHANGED <<slot, entry, disk, edits, dirty>>

\* Faulty: the folder's placeholder is not checked.
StillBuildingUnchecked(p) == TRUE

StillBuilding(p) == slot[job[p].folder] = Building(p)

InstallFailure(f) ==
  /\ slot' = [slot EXCEPT ![f] = Slot("failed")]
  /\ UNCHANGED entry

Attach(f, r) ==
  /\ HasEntry(r)
  /\ entry' = [entry EXCEPT ![r].folders = @ \union {f}]
  /\ slot' = [slot EXCEPT ![f] = Live(r)]

\* Faulty: an entry that appeared since Make looked is overwritten.
InstallOver(f, r, h) ==
  /\ h # NoHandle
  /\ entry' = [entry EXCEPT ![r] = [handle |-> h, folders |-> {f}]]
  /\ slot' = [slot EXCEPT ![f] = Live(r)]

InstallNew(f, r, h) ==
  /\ ~HasEntry(r)
  /\ h # NoHandle
  /\ entry' = [entry EXCEPT ![r] = [handle |-> h, folders |-> {f}]]
  /\ slot' = [slot EXCEPT ![f] = Live(r)]

\* The root it meant to attach to was disposed meanwhile.
StartOver(f, r, h) ==
  /\ ~HasEntry(r)
  /\ h = NoHandle
  /\ slot' = [slot EXCEPT ![f] = Slot("unbuilt")]
  /\ UNCHANGED entry

\* The outcome is installed unless the folder was removed or re-slotted meanwhile;
\* a session that was not needed stays in the job, to be discarded.
Install(p) ==
  /\ At(p, "made")
  /\ LET f == job[p].folder
         r == Resolved(p)
         h == IF r \in Roots THEN job[p].fresh[r] ELSE NoHandle
     IN  /\ IF ~StillBuilding(p) THEN UNCHANGED <<slot, entry>>
            ELSE \/ r = Broken /\ InstallFailure(f)
                 \/ r \in Roots /\ (Attach(f, r) \/ InstallNew(f, r, h) \/ StartOver(f, r, h))
         /\ job' = [job EXCEPT ![p] = [job[p] EXCEPT
                      !.pc = "installed",
                      !.fresh = IF r \in Roots /\ entry'[r].handle = h THEN NothingFresh ELSE job[p].fresh]]
  /\ UNCHANGED <<session, disk, edits, dirty>>

\* The jobs after p's build is over for whatever reason: those awaiting it go on.
Released(p, after) ==
  [q \in Procs |-> IF q = p THEN after
                   ELSE IF At(q, "waiting") /\ job[q].on = p
                        THEN [job[q] EXCEPT !.pc = "step", !.on = NoProc, !.retry = FALSE]
                        ELSE job[q]]

\* Faulty: awaiting callers are released without the placeholder being reverted.
RevertedNot(p) == slot

\* An unfinished placeholder goes back to unbuilt.
Reverted(p) == [f \in Folders |-> IF slot[f] = Building(p) THEN Slot("unbuilt") ELSE slot[f]]

\* The loser is discarded, the placeholder's Deferred resolved, the folder looked at again.
Release(p) ==
  /\ At(p, "installed")
  /\ session' = [h \in Handles |-> session[h] /\ h \notin Fresh(p)]
  /\ slot' = Reverted(p)
  /\ job' = Released(p, [Done EXCEPT !.pc = "step", !.folder = job[p].folder,
                                     !.left = job[p].left])
  /\ UNCHANGED <<entry, disk, edits, dirty>>

\* The fiber of a lookup is interrupted. A session it may have made has no fiber of its
\* own and is garbage.
Interrupt(p) ==
  /\ p \in Interruptible
  /\ job[p].pc \in {"step", "waiting", "resolving", "resolved", "made", "installed"}
  /\ session' = [h \in Handles |-> session[h] /\ h \notin Fresh(p)]
  /\ slot' = Reverted(p)
  /\ job' = Released(p, Done)
  /\ UNCHANGED <<entry, disk, edits, dirty>>

-----------------------------------------------------------------------------
(***************************************************************************)
(* rebuild and retryFailed: what a change of watched files calls, root by  *)
(* root and then folder by folder. rebuild(r) alone is Watch(p, {r}, {}),  *)
(* retryFailed(paths) alone is Watch(p, {}, fs).                           *)
(***************************************************************************)
Watch(p, rs, fs) ==
  /\ At(p, "done")
  /\ p \notin Requesters
  /\ job' = [job EXCEPT ![p] = [Done EXCEPT !.pc = "rebuilding", !.roots = rs, !.failed = fs]]
  /\ UNCHANGED <<slot, entry, session, disk, edits>>

\* rebuild reads the root's entry; a root without one is passed over.
ReadEntry(p) ==
  /\ At(p, "rebuilding")
  /\ \E r \in job[p].roots :
       job' = [job EXCEPT ![p] =
                 IF HasEntry(r)
                 THEN [job[p] EXCEPT !.pc = "reading", !.root = r, !.prior = entry[r].handle,
                                     !.left = entry[r].folders, !.roots = job[p].roots \ {r}]
                 ELSE [job[p] EXCEPT !.roots = job[p].roots \ {r}]]
  /\ UNCHANGED <<slot, entry, session, disk, edits, dirty>>

ReResolve(p) ==
  /\ At(p, "reading")
  /\ \E f \in job[p].left :
       job' = [job EXCEPT ![p] = [job[p] EXCEPT !.conf[f] = disk[f], !.left = job[p].left \ {f}]]
  /\ UNCHANGED <<slot, entry, session, disk, edits, dirty>>

ResolvedRoots(p) == {job[p].conf[f] : f \in Folders} \intersect Roots

\* One fresh session per distinct root the folders resolved to.
MakeFresh(p) ==
  /\ At(p, "reading")
  /\ job[p].left = {}
  /\ \E fresh \in [Roots -> {h \in Handles : Unused(h)} \union {NoHandle}] :
       /\ \A r \in Roots : fresh[r] # NoHandle <=> r \in ResolvedRoots(p)
       /\ \A q, r \in ResolvedRoots(p) : fresh[q] = fresh[r] => q = r
       /\ session' = [h \in Handles |-> session[h] \/ \E r \in Roots : fresh[r] = h]
       /\ job' = [job EXCEPT ![p] = [job[p] EXCEPT !.pc = "swapping", !.fresh = fresh]]
  /\ UNCHANGED <<slot, entry, disk, edits, dirty>>

\* Disposed, or rebuilt by someone else, since the entry was read.
Stale(p) == entry[job[p].root].handle # job[p].prior

\* Where a folder of the replaced entry goes: one that joined after the entry was
\* read resolves again on its next use.
Reslotted(c) == IF c = NoRoot THEN Slot("unbuilt")
                ELSE IF c = Broken THEN Slot("failed") ELSE Live(c)

\* The folders still mapped to the root being replaced, and those now resolving to r.
Moving(p) == {f \in entry[job[p].root].folders : slot[f] = Live(job[p].root)}
Joining(p, r) == {f \in Moving(p) : job[p].conf[f] = r}

\* Root r's entry after the swap: joined by those folders, made for them, or as it
\* was. The rebuilt root's old entry is gone.
Joined(p, r) ==
  LET others == IF r = job[p].root THEN NoEntry ELSE entry[r]
  IN  IF Joining(p, r) = {} THEN others
      ELSE [handle |-> IF others = NoEntry THEN job[p].fresh[r] ELSE others.handle,
            folders |-> others.folders \union Joining(p, r)]

Swap(p) ==
  /\ At(p, "swapping")
  /\ IF Stale(p)
     THEN /\ UNCHANGED <<slot, entry>>
          /\ Goto(p, "disposing")
     ELSE /\ slot' = [f \in Folders |-> IF f \in Moving(p) THEN Reslotted(job[p].conf[f])
                                        ELSE slot[f]]
          /\ entry' = [r \in Roots |-> Joined(p, r)]
          /\ job' = [job EXCEPT ![p] = [job[p] EXCEPT
                       !.pc = "disposing",
                       !.doomed = {entry[job[p].root].handle},
                       !.fresh = [r \in Roots |-> IF job[p].fresh[r] = entry'[r].handle THEN NoHandle
                                                 ELSE job[p].fresh[r]]]]
  /\ UNCHANGED <<session, disk, edits, dirty>>

\* Faulty: a failed folder is never retried.
ToRetryNone(p) == {}

ToRetry(p) == Tagged("failed") \intersect job[p].failed

\* retryFailed reads which folders stand failed, then looks each one up.
ReadFailed(p) ==
  /\ At(p, "rebuilding")
  /\ job[p].roots = {}
  /\ job' = [job EXCEPT ![p] = [Done EXCEPT !.pc = "picking", !.left = ToRetry(p)]]
  /\ UNCHANGED <<slot, entry, session, disk, edits, dirty>>

Pick(p) ==
  /\ At(p, "picking")
  /\ IF job[p].left = {} THEN job' = [job EXCEPT ![p] = Done]
     ELSE \E f \in job[p].left :
            job' = [job EXCEPT ![p] = [Done EXCEPT !.pc = "step", !.folder = f, !.retry = TRUE,
                                                   !.left = job[p].left \ {f}]]
  /\ UNCHANGED <<slot, entry, session, disk, edits, dirty>>

-----------------------------------------------------------------------------
(***************************************************************************)
(* dropFolders and addFolders: setFolders and a change of the workspace    *)
(* folders drop some and then add others.                                  *)
(***************************************************************************)
\* Faulty: the entry goes with the first of its folders.
WithoutShared(r, removed) ==
  IF \E f \in removed : slot[f] = Live(r) THEN NoEntry ELSE entry[r]

\* Root r's entry once the folders are gone; with the last of its folders it goes too.
Without(r, removed) ==
  LET gone == {f \in removed : slot[f] = Live(r)}
  IN  IF gone # {} /\ entry[r].folders \subseteq gone THEN NoEntry
      ELSE [entry[r] EXCEPT !.folders = @ \ gone]

ChangeFolders(p, removed, added) ==
  /\ At(p, "done")
  /\ p \notin Requesters
  /\ slot' = [f \in Folders |-> IF f \in removed THEN Slot("absent") ELSE slot[f]]
  /\ entry' = [r \in Roots |-> Without(r, removed)]
  /\ job' = [job EXCEPT ![p] = [Done EXCEPT
               !.pc = "disposing",
               !.doomed = {entry[r].handle : r \in {q \in LiveRoots : entry'[q] = NoEntry}},
               !.adding = added]]
  /\ UNCHANGED <<session, disk, edits, dirty>>

\* disposeEntry: the scope is closed, which waits for a publish in flight ...
CloseScope(p) ==
  /\ At(p, "disposing")
  /\ job[p].telling = NoHandle
  /\ \E h \in job[p].doomed :
       /\ session' = [session EXCEPT ![h] = FALSE]
       /\ job' = [job EXCEPT ![p] = [job[p] EXCEPT !.doomed = job[p].doomed \ {h}, !.telling = h]]
  /\ UNCHANGED <<slot, entry, disk, edits, dirty>>

\* ... and then onDispose takes back what the session published.
OnDispose(p) ==
  /\ At(p, "disposing")
  /\ job[p].telling # NoHandle
  /\ job' = [job EXCEPT ![p].telling = NoHandle]
  /\ UNCHANGED <<slot, entry, session, disk, edits, dirty>>

\* With everything disposed, the losers are discarded and the added folders appear.
Disposed(p) ==
  /\ At(p, "disposing")
  /\ job[p].doomed = {}
  /\ job[p].telling = NoHandle
  /\ session' = [h \in Handles |-> session[h] /\ h \notin Fresh(p)]
  /\ slot' = [f \in Folders |-> IF f \in job[p].adding /\ slot[f].tag = "absent"
                                THEN Slot("unbuilt") ELSE slot[f]]
  /\ job' = [job EXCEPT ![p] = [Done EXCEPT !.pc = IF job[p].root # NoRoot THEN "rebuilding" ELSE "done",
                                            !.roots = job[p].roots, !.failed = job[p].failed]]
  /\ UNCHANGED <<entry, disk, edits, dirty>>

-----------------------------------------------------------------------------
\* Somebody edits a config. The editor reports the change to the registry's owner.
EditConfig(conf) ==
  /\ edits < MaxEdits
  /\ conf # disk
  /\ disk' = conf
  /\ edits' = edits + 1
  /\ dirty' = dirty \union {f \in Folders : conf[f] # disk[f]}
  /\ UNCHANGED <<slot, entry, session, job>>

\* A report is handled: every live root is rebuilt, then the failed folders retried.
Report(p) ==
  /\ dirty # {}
  /\ Watch(p, LiveRoots, dirty)
  /\ dirty' = {}

Init ==
  /\ slot = [f \in Folders |-> Slot("unbuilt")]
  /\ entry = [r \in Roots |-> NoEntry]
  /\ session = [h \in Handles |-> FALSE]
  /\ job = [p \in Procs |-> Done]
  /\ disk \in Configs
  /\ edits = 0
  /\ dirty = {}

LookupStep(p) == \/ Answer(p)
                 \/ Await(p)
                 \/ Begin(p)
                 \/ Resolve(p)
                 \/ Make(p)
                 \/ Install(p)
                 \/ Release(p)

RebuildStep(p) == \/ ReadEntry(p)
                  \/ ReResolve(p)
                  \/ MakeFresh(p)
                  \/ Swap(p)
                  \/ ReadFailed(p)
                  \/ Pick(p)

DisposeStep(p) == \/ CloseScope(p)
                  \/ OnDispose(p)
                  \/ Disposed(p)

Step(p) == LookupStep(p) \/ RebuildStep(p) \/ DisposeStep(p)

Start(p) == \/ \E f \in Folders, retry \in BOOLEAN : Lookup(p, f, retry)
            \/ \E r \in Roots : Watch(p, {r}, {}) /\ UNCHANGED dirty
            \/ \E fs \in SUBSET Folders : Watch(p, {}, fs) /\ UNCHANGED dirty
            \/ \E removed, added \in SUBSET Folders : ChangeFolders(p, removed, added)
            \/ Report(p)

Next == \/ \E p \in Procs : Step(p) \/ Start(p) \/ Interrupt(p)
        \/ \E conf \in Configs : EditConfig(conf)

\* The runtime runs every ready fiber; reading a config and closing a scope end.
\* A report waits in a first-in first-out queue.
Fairness == /\ \A p \in Procs : WF_vars(Step(p))
            /\ SF_vars(\E p \in Procs : Report(p))

Spec == Init /\ [][Next]_vars /\ Fairness

-----------------------------------------------------------------------------
PC == {"done", "step", "waiting", "resolving", "resolved", "made", "installed",
       "rebuilding", "reading", "swapping", "picking", "disposing"}

RootOption == Roots \union {NoRoot}
HandleOption == Handles \union {NoHandle}

SlotType == [tag : Tag, by : Procs \union {NoProc}, root : RootOption]

EntryType == [handle : HandleOption, folders : SUBSET Folders]

Job == [pc : PC, folder : Folders, retry : BOOLEAN, on : Procs \union {NoProc},
        root : RootOption, prior : HandleOption,
        conf : [Folders -> RootOption \union {Broken}], fresh : [Roots -> HandleOption],
        left : SUBSET Folders, roots : SUBSET Roots, failed : SUBSET Folders,
        doomed : SUBSET Handles, telling : HandleOption, adding : SUBSET Folders]

\* The types of the state.
TypeOK ==
  /\ slot \in [Folders -> SlotType]
  /\ entry \in [Roots -> EntryType]
  /\ session \in [Handles -> BOOLEAN]
  /\ job \in [Procs -> Job]
  /\ disk \in Configs
  /\ edits \in 0 .. MaxEdits
  /\ dirty \subseteq Folders

\* The reference count is exact: a root's entry lists the folders that stand live at
\* it and no others, and exists only while there is one. A folder counted twice or
\* not at all would keep a session for ever, or dispose one in use.
RefCount ==
  \A r \in Roots : /\ entry[r].folders = {f \in Folders : slot[f] = Live(r)}
                   /\ HasEntry(r) <=> entry[r].folders # {}

\* Why the count stays exact: an entry always holds a session, and a rebuild that is
\* about to swap has a root, a prior session and a fresh one for each root resolved.
EntryKnown == \A r \in Roots : HasEntry(r) => entry[r].handle \in Handles
RebuildKnown ==
  \A p \in Procs :
    /\ job[p].pc \in {"reading", "swapping"} => job[p].root \in Roots /\ job[p].prior \in Handles
    /\ At(p, "swapping") => \A r \in ResolvedRoots(p) : job[p].fresh[r] \in Handles
CountInv == TypeOK /\ RefCount /\ EntryKnown /\ RebuildKnown

Installed == {entry[r].handle : r \in LiveRoots}

\* Sessions in the hands of a fiber: made and not installed, or detached and not closed.
InHand(p) == Fresh(p) \union job[p].doomed

\* Every open session has exactly one owner, the registry or one fiber, and every
\* session the registry answers with is open: none leaks, none is disposed twice, and
\* onDispose runs for a session that is closed and out of reach.
OneOwner ==
  /\ {h \in Handles : session[h]} = Installed \union UNION {InHand(p) : p \in Procs}
  /\ \A q, r \in LiveRoots : entry[q].handle = entry[r].handle => q = r
  /\ \A p \in Procs : /\ InHand(p) \intersect Installed = {}
                      /\ Fresh(p) \intersect job[p].doomed = {}
                      /\ job[p].telling # NoHandle => ~session[job[p].telling]
  /\ \A p, q \in Procs : p # q => InHand(p) \intersect InHand(q) = {}

\* Why a session has one owner: a fiber holds made sessions only from making them to
\* discarding them, one per root and in a lookup one at most; and only a fiber that
\* disposes has sessions to close.
HandKnown(p) ==
  /\ job[p].pc \notin {"made", "installed", "swapping", "disposing"} => job[p].fresh = NothingFresh
  /\ job[p].pc \in {"made", "installed"} =>
       \A r \in Roots : job[p].fresh[r] # NoHandle => r = Resolved(p)
  /\ \A q, r \in Roots : job[p].fresh[q] = job[p].fresh[r] /\ job[p].fresh[q] # NoHandle => q = r
  /\ ~At(p, "disposing") => job[p].doomed = {} /\ job[p].telling = NoHandle
OwnerKnown == \A p \in Procs : HandKnown(p)
OwnerInv == OneOwner /\ OwnerKnown

\* A folder removed while its build or its root's rebuild is under way does not come
\* back with the outcome: until it is added again nothing re-slots it.
RemovedStays ==
  [][\A f \in Folders : slot[f].tag = "absent" => slot'[f].tag \in {"absent", "unbuilt"}]_vars

AtBuild(p) == job[p].pc \in {"resolving", "resolved", "made"}

\* A placeholder always has its builder at work, and whoever awaits a build awaits one
\* that will still resolve its Deferred: no folder is left building by nobody.
BuilderAtWork ==
  /\ \A f \in Tagged("building") :
       LET p == slot[f].by IN AtBuild(p) /\ job[p].folder = f
  /\ \A p \in Procs : At(p, "waiting") =>
       AtBuild(job[p].on) \/ At(job[p].on, "installed")

\* Why: a placeholder is the one its builder made, and who waits, waits for a fiber.
PlaceholderKnown ==
  /\ \A f \in Tagged("building") : slot[f].by \in Procs /\ slot[f] = Building(slot[f].by)
  /\ \A p \in Procs : At(p, "waiting") => job[p].on \in Procs
BuildInv == PlaceholderKnown /\ BuilderAtWork

\* Once no new call arrives, every call in the registry returns: no two of them wait
\* for one another, and a lookup that finds its root gone does not start over for ever.
CallsReturn ==
  <>[][~ \E p \in Procs : Start(p)]_vars =>
    \A p \in Procs : ~At(p, "done") ~> At(p, "done")

\* What a folder stands at is not what its config says.
Outdated(f) == \/ slot[f].tag = "failed" /\ disk[f] # Broken
               \/ slot[f].tag = "live" /\ slot[f].root # disk[f]

\* A folder stands at what its config says, or nothing of it is installed or being built.
Stands(f) == IF disk[f] = Broken THEN slot[f].tag = "failed" ELSE slot[f] = Live(disk[f])
Looking(p, f) == job[p].folder = f /\ job[p].pc \in {"step", "waiting", "resolving", "resolved", "made", "installed"}
AtRest(f) == slot[f].tag = "unbuilt" /\ ~ \E p \in Procs : Looking(p, f)

\* A reported change is followed: a folder that stands outdated while its change waits to
\* be handled ends up live at the root its config names, or failed if that does not load,
\* whatever requests look up meanwhile (unless lookups are interrupted for ever); or it
\* is removed; or it joined a root that is being rebuilt, and is built on its next use.
ReportFollowed ==
  <>[][\A p \in Procs : ~Interrupt(p)]_vars =>
    \A f \in Folders : Outdated(f) /\ f \in dirty ~> Stands(f) \/ slot[f].tag = "absent" \/ AtRest(f)

\* The documentation of the registry: fixing the config recovers the folder.
FixRecovers ==
  \A f \in Folders : slot[f].tag = "failed" /\ disk[f] # Broken ~>
                     slot[f].tag # "failed" \/ disk[f] = Broken
=============================================================================
