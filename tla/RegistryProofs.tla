--------------------------- MODULE RegistryProofs ---------------------------
(***************************************************************************)
(* Theorems about Registry, for any folders, roots, fibers and configs.    *)
(***************************************************************************)
EXTENDS Registry, TLAPS

-----------------------------------------------------------------------------
(***************************************************************************)
(* The types of the records the actions build. A job is changed one field  *)
(* at a time, and each such change keeps its type.                         *)
(***************************************************************************)
LEMMA SlotTypes ==
  /\ \A t \in Tag : Slot(t) \in SlotType
  /\ \A p \in Procs : Building(p) \in SlotType
  /\ \A r \in Roots : Live(r) \in SlotType
BY RegistryAssumption DEF RegistryAssumption, Slot, Building, Live, SlotType, Tag, RootOption

LEMMA EntryTypes ==
  /\ NoEntry \in EntryType
  /\ \A h \in HandleOption, fs \in SUBSET Folders : [handle |-> h, folders |-> fs] \in EntryType
BY DEF NoEntry, EntryType, HandleOption

LEMMA JobFields ==
  /\ \A j \in Job, x \in PC : [j EXCEPT !.pc = x] \in Job
  /\ \A j \in Job, x \in Folders : [j EXCEPT !.folder = x] \in Job
  /\ \A j \in Job, x \in BOOLEAN : [j EXCEPT !.retry = x] \in Job
  /\ \A j \in Job, x \in Procs \union {NoProc} : [j EXCEPT !.on = x] \in Job
  /\ \A j \in Job, x \in RootOption : [j EXCEPT !.root = x] \in Job
  /\ \A j \in Job, x \in HandleOption : [j EXCEPT !.prior = x] \in Job
  /\ \A j \in Job, x \in [Folders -> RootOption \union {Broken}] : [j EXCEPT !.conf = x] \in Job
  /\ \A j \in Job, x \in [Roots -> HandleOption] : [j EXCEPT !.fresh = x] \in Job
  /\ \A j \in Job, x \in SUBSET Folders : [j EXCEPT !.left = x] \in Job
  /\ \A j \in Job, x \in SUBSET Roots : [j EXCEPT !.roots = x] \in Job
  /\ \A j \in Job, x \in SUBSET Folders : [j EXCEPT !.failed = x] \in Job
  /\ \A j \in Job, x \in SUBSET Handles : [j EXCEPT !.doomed = x] \in Job
  /\ \A j \in Job, x \in HandleOption : [j EXCEPT !.telling = x] \in Job
  /\ \A j \in Job, x \in SUBSET Folders : [j EXCEPT !.adding = x] \in Job
<1>1. \A j \in Job, x \in PC : [j EXCEPT !.pc = x] \in Job
  BY DEF Job
<1>2. \A j \in Job, x \in Folders : [j EXCEPT !.folder = x] \in Job
  BY DEF Job
<1>3. \A j \in Job, x \in BOOLEAN : [j EXCEPT !.retry = x] \in Job
  BY DEF Job
<1>4. \A j \in Job, x \in Procs \union {NoProc} : [j EXCEPT !.on = x] \in Job
  BY DEF Job
<1>5. \A j \in Job, x \in RootOption : [j EXCEPT !.root = x] \in Job
  BY DEF Job
<1>6. \A j \in Job, x \in HandleOption : [j EXCEPT !.prior = x] \in Job
  BY DEF Job
<1>7. \A j \in Job, x \in [Folders -> RootOption \union {Broken}] : [j EXCEPT !.conf = x] \in Job
  BY DEF Job
<1>8. \A j \in Job, x \in [Roots -> HandleOption] : [j EXCEPT !.fresh = x] \in Job
  BY DEF Job
<1>9. \A j \in Job, x \in SUBSET Folders : [j EXCEPT !.left = x] \in Job
  BY DEF Job
<1>10. \A j \in Job, x \in SUBSET Roots : [j EXCEPT !.roots = x] \in Job
  BY DEF Job
<1>11. \A j \in Job, x \in SUBSET Folders : [j EXCEPT !.failed = x] \in Job
  BY DEF Job
<1>12. \A j \in Job, x \in SUBSET Handles : [j EXCEPT !.doomed = x] \in Job
  BY DEF Job
<1>13. \A j \in Job, x \in HandleOption : [j EXCEPT !.telling = x] \in Job
  BY DEF Job
<1>14. \A j \in Job, x \in SUBSET Folders : [j EXCEPT !.adding = x] \in Job
  BY DEF Job
<1>. QED
  BY <1>1, <1>2, <1>3, <1>4, <1>5, <1>6, <1>7, <1>8, <1>9, <1>10, <1>11, <1>12, <1>13, <1>14

\* Moving a job on leaves its data alone.
LEMMA PcFrame ==
  ASSUME NEW j \in Job, NEW x
  PROVE  LET k == [j EXCEPT !.pc = x]
         IN  /\ k.conf = j.conf /\ k.fresh = j.fresh /\ k.root = j.root /\ k.prior = j.prior
             /\ k.folder = j.folder /\ k.pc = x
BY DEF Job

LEMMA DoneType == Done \in Job
<1>1. (CHOOSE f \in Folders : TRUE) \in Folders
  BY RegistryAssumption DEF RegistryAssumption
<1>2. NothingResolved \in [Folders -> RootOption \union {Broken}]
  BY DEF NothingResolved, RootOption
<1>3. NothingFresh \in [Roots -> HandleOption]
  BY DEF NothingFresh, HandleOption
<1>. QED
  BY <1>1, <1>2, <1>3 DEF Done, Job, PC, RootOption, HandleOption

\* What a job's fields hold.
LEMMA JobTypes ==
  ASSUME TypeOK, NEW p \in Procs
  PROVE  /\ job[p] \in Job
         /\ job[p].pc \in PC /\ job[p].folder \in Folders /\ job[p].on \in Procs \union {NoProc}
         /\ job[p].root \in RootOption /\ job[p].prior \in HandleOption
         /\ job[p].conf \in [Folders -> RootOption \union {Broken}]
         /\ job[p].fresh \in [Roots -> HandleOption]
         /\ job[p].left \in SUBSET Folders /\ job[p].roots \in SUBSET Roots
         /\ job[p].failed \in SUBSET Folders /\ job[p].doomed \in SUBSET Handles
         /\ job[p].telling \in HandleOption /\ job[p].adding \in SUBSET Folders
<1>1. job[p] \in Job
  BY DEF TypeOK
<1>. QED
  BY <1>1 DEF Job

\* Changing one fiber's job for a job keeps the type.
LEMMA JobStep ==
  ASSUME TypeOK, NEW p \in Procs, NEW j \in Job
  PROVE  [job EXCEPT ![p] = j] \in [Procs -> Job]
BY DEF TypeOK

LEMMA GotoType ==
  ASSUME TypeOK, NEW p \in Procs, NEW pc \in PC, Goto(p, pc)
  PROVE  job' \in [Procs -> Job]
<1>1. [job[p] EXCEPT !.pc = pc] \in Job
  BY JobTypes, JobFields
<1>. QED
  BY <1>1, JobStep DEF Goto, TypeOK

\* Releasing the fibers that wait for a build keeps the type.
LEMMA ReleasedType ==
  ASSUME TypeOK, NEW p \in Procs, NEW j \in Job
  PROVE  Released(p, j) \in [Procs -> Job]
<1>1. ASSUME NEW q \in Procs
      PROVE  [job[q] EXCEPT !.pc = "step", !.on = NoProc, !.retry = FALSE] \in Job
  <2>1. [job[q] EXCEPT !.pc = "step"] \in Job
    BY JobTypes, JobFields DEF PC
  <2>2. [job[q] EXCEPT !.pc = "step", !.on = NoProc] \in Job
    BY <2>1, JobFields
  <2>. QED
    BY <2>2, JobFields
<1>2. \A q \in Procs : job[q] \in Job
  BY JobTypes
<1>. QED
  BY <1>1, <1>2 DEF Released

LEMMA RevertedType ==
  ASSUME TypeOK, NEW p \in Procs
  PROVE  Reverted(p) \in [Folders -> SlotType]
<1>1. Slot("unbuilt") \in SlotType
  BY SlotTypes DEF Tag
<1>. QED
  BY <1>1 DEF Reverted, TypeOK

-----------------------------------------------------------------------------
(***************************************************************************)
(* Type correctness, with what it needs of entries and rebuilds.           *)
(***************************************************************************)
Known == TypeOK /\ EntryKnown /\ RebuildKnown

LEMMA LookupType ==
  ASSUME TypeOK, NEW p \in Procs, NEW f \in Folders, NEW retry \in BOOLEAN, Lookup(p, f, retry)
  PROVE  TypeOK'
<1>1. [Done EXCEPT !.pc = "step"] \in Job
  BY DoneType, JobFields DEF PC
<1>2. [Done EXCEPT !.pc = "step", !.folder = f] \in Job
  BY <1>1, JobFields
<1>3. [Done EXCEPT !.pc = "step", !.folder = f, !.retry = retry] \in Job
  BY <1>2, JobFields
<1>. QED
  BY <1>3, JobStep DEF Lookup, TypeOK

LEMMA AnswerType ==
  ASSUME TypeOK, NEW p \in Procs, Answer(p)
  PROVE  TypeOK'
<1>. DEFINE pc == IF job[p].left = {} THEN "done" ELSE "picking"
<1>1. [Done EXCEPT !.pc = pc] \in Job
  BY DoneType, JobFields DEF PC
<1>2. [Done EXCEPT !.pc = pc, !.left = job[p].left] \in Job
  BY <1>1, JobTypes, JobFields
<1>. QED
  BY <1>2, JobStep DEF Answer, TypeOK

LEMMA AwaitType ==
  ASSUME TypeOK, NEW p \in Procs, Await(p)
  PROVE  TypeOK'
<1>1. slot[job[p].folder].by \in Procs \union {NoProc}
  BY JobTypes DEF TypeOK, SlotType
<1>2. [job[p] EXCEPT !.pc = "waiting"] \in Job
  BY JobTypes, JobFields DEF PC
<1>3. [job[p] EXCEPT !.pc = "waiting", !.on = slot[job[p].folder].by] \in Job
  BY <1>1, <1>2, JobFields
<1>. QED
  BY <1>3, JobStep DEF Await, TypeOK

LEMMA BeginType ==
  ASSUME TypeOK, NEW p \in Procs, Begin(p)
  PROVE  TypeOK'
<1>1. job' \in [Procs -> Job]
  BY GotoType DEF Begin, PC
<1>2. slot' \in [Folders -> SlotType]
  BY SlotTypes DEF Begin, TypeOK
<1>. QED
  BY <1>1, <1>2 DEF Begin, TypeOK

LEMMA ResolveType ==
  ASSUME TypeOK, NEW p \in Procs, Resolve(p)
  PROVE  TypeOK'
<1>. DEFINE f == job[p].folder
            j == [job[p] EXCEPT !.pc = "resolved"]
<1>1. j \in Job /\ j.conf = job[p].conf
  <2>1. j \in Job
    BY JobTypes, JobFields DEF PC
  <2>. QED
    BY <2>1, JobTypes, PcFrame
<1>2. disk[f] \in Roots \union {Broken}
  BY JobTypes, RegistryAssumption DEF RegistryAssumption, TypeOK
<1>3. [job[p].conf EXCEPT ![f] = disk[f]] \in [Folders -> RootOption \union {Broken}]
  BY <1>2, JobTypes DEF RootOption
<1>4. [j EXCEPT !.conf = [job[p].conf EXCEPT ![f] = disk[f]]] \in Job
  BY <1>1, <1>3, JobFields
<1>5. [job[p] EXCEPT !.pc = "resolved", !.conf[f] = disk[f]]
        = [j EXCEPT !.conf = [job[p].conf EXCEPT ![f] = disk[f]]]
  BY JobTypes DEF Job
<1>. QED
  BY <1>4, <1>5, JobStep DEF Resolve, TypeOK

LEMMA MakeType ==
  ASSUME TypeOK, NEW p \in Procs, Make(p)
  PROVE  TypeOK'
<1>1. CASE Resolved(p) \in Roots \ LiveRoots
  <2>1. PICK h \in Handles :
          /\ session' = [session EXCEPT ![h] = TRUE]
          /\ job' = [job EXCEPT ![p] = [job[p] EXCEPT !.pc = "made", !.fresh[Resolved(p)] = h]]
    BY <1>1 DEF Make
  <2>. DEFINE r == Resolved(p)
              j == [job[p] EXCEPT !.pc = "made"]
  <2>2. j \in Job /\ j.fresh = job[p].fresh
    <3>1. j \in Job
      BY JobTypes, JobFields DEF PC
    <3>. QED
      BY <3>1, JobTypes, PcFrame
  <2>3. [job[p].fresh EXCEPT ![r] = h] \in [Roots -> HandleOption]
    BY <1>1, JobTypes DEF HandleOption
  <2>4. [j EXCEPT !.fresh = [job[p].fresh EXCEPT ![r] = h]] \in Job
    BY <2>2, <2>3, JobFields
  <2>5. [job[p] EXCEPT !.pc = "made", !.fresh[r] = h]
          = [j EXCEPT !.fresh = [job[p].fresh EXCEPT ![r] = h]]
    BY JobTypes DEF Job
  <2>6. job' \in [Procs -> Job]
    BY <2>1, <2>4, <2>5, JobStep
  <2>7. session' \in [Handles -> BOOLEAN]
    BY <2>1 DEF TypeOK
  <2>. QED
    BY <2>6, <2>7 DEF Make, TypeOK
<1>2. CASE Resolved(p) \notin Roots \ LiveRoots
  <2>1. job' \in [Procs -> Job]
    BY <1>2, GotoType DEF Make, PC
  <2>. QED
    BY <1>2, <2>1 DEF Make, TypeOK
<1>. QED
  BY <1>1, <1>2

\* Installing an outcome.
LEMMA InstallSlots ==
  ASSUME TypeOK, NEW p \in Procs, Install(p)
  PROVE  /\ slot' \in [Folders -> SlotType]
         /\ entry' \in [Roots -> EntryType]
<1>. DEFINE f == job[p].folder
            r == Resolved(p)
            h == IF r \in Roots THEN job[p].fresh[r] ELSE NoHandle
<1>1. f \in Folders /\ h \in HandleOption
  BY JobTypes DEF HandleOption
<1>2. CASE UNCHANGED <<slot, entry>>
  BY <1>2 DEF TypeOK
<1>3. CASE InstallFailure(f)
  <2>1. Slot("failed") \in SlotType
    BY SlotTypes DEF Tag
  <2>. QED
    BY <1>1, <1>3, <2>1 DEF InstallFailure, TypeOK
<1>4. CASE r \in Roots /\ Attach(f, r)
  <2>1. [entry[r] EXCEPT !.folders = @ \union {f}] \in EntryType
    BY <1>1, <1>4 DEF TypeOK, EntryType
  <2>2. Live(r) \in SlotType
    BY <1>4, SlotTypes
  <2>. QED
    BY <1>1, <1>4, <2>1, <2>2 DEF Attach, TypeOK
<1>5. CASE r \in Roots /\ InstallNew(f, r, h)
  <2>1. [handle |-> h, folders |-> {f}] \in EntryType
    BY <1>1, EntryTypes
  <2>2. Live(r) \in SlotType
    BY <1>5, SlotTypes
  <2>. QED
    BY <1>1, <1>5, <2>1, <2>2 DEF InstallNew, TypeOK
<1>6. CASE StartOver(f, r, h)
  <2>1. Slot("unbuilt") \in SlotType
    BY SlotTypes DEF Tag
  <2>. QED
    BY <1>1, <1>6, <2>1 DEF StartOver, TypeOK
<1>. QED
  BY <1>2, <1>3, <1>4, <1>5, <1>6 DEF Install

LEMMA InstallType ==
  ASSUME TypeOK, NEW p \in Procs, Install(p)
  PROVE  TypeOK'
<1>. DEFINE r == Resolved(p)
            h == IF r \in Roots THEN job[p].fresh[r] ELSE NoHandle
            j == [job[p] EXCEPT !.pc = "installed"]
            fresh == IF r \in Roots /\ entry'[r].handle = h THEN NothingFresh ELSE job[p].fresh
<1>1. j \in Job
  BY JobTypes, JobFields DEF PC
<1>2. fresh \in [Roots -> HandleOption]
  BY JobTypes DEF NothingFresh, HandleOption
<1>3. [j EXCEPT !.fresh = fresh] \in Job
  BY <1>1, <1>2, JobFields
<1>4. job' = [job EXCEPT ![p] = [j EXCEPT !.fresh = fresh]]
  <2>1. j.fresh = job[p].fresh
    BY JobTypes, PcFrame
  <2>. QED
    BY <2>1 DEF Install
<1>5. job' \in [Procs -> Job]
  BY <1>3, <1>4, JobStep
<1>. QED
  BY <1>5, InstallSlots DEF Install, TypeOK

LEMMA ReleaseType ==
  ASSUME TypeOK, NEW p \in Procs, Release(p)
  PROVE  TypeOK'
<1>1. [Done EXCEPT !.pc = "step"] \in Job
  BY DoneType, JobFields DEF PC
<1>2. [Done EXCEPT !.pc = "step", !.folder = job[p].folder] \in Job
  BY <1>1, JobTypes, JobFields
<1>3. [Done EXCEPT !.pc = "step", !.folder = job[p].folder, !.left = job[p].left] \in Job
  BY <1>2, JobTypes, JobFields
<1>4. job' \in [Procs -> Job]
  BY <1>3, ReleasedType DEF Release
<1>5. session' \in [Handles -> BOOLEAN]
  BY DEF Release, TypeOK
<1>. QED
  BY <1>4, <1>5, RevertedType DEF Release, TypeOK

LEMMA InterruptType ==
  ASSUME TypeOK, NEW p \in Procs, Interrupt(p)
  PROVE  TypeOK'
<1>1. job' \in [Procs -> Job]
  BY DoneType, ReleasedType DEF Interrupt
<1>2. session' \in [Handles -> BOOLEAN]
  BY DEF Interrupt, TypeOK
<1>. QED
  BY <1>1, <1>2, RevertedType DEF Interrupt, TypeOK

LEMMA WatchType ==
  ASSUME TypeOK, NEW p \in Procs, NEW rs \in SUBSET Roots, NEW fs \in SUBSET Folders,
         Watch(p, rs, fs), dirty' \subseteq Folders
  PROVE  TypeOK'
<1>1. [Done EXCEPT !.pc = "rebuilding"] \in Job
  BY DoneType, JobFields DEF PC
<1>2. [Done EXCEPT !.pc = "rebuilding", !.roots = rs] \in Job
  BY <1>1, JobFields
<1>3. [Done EXCEPT !.pc = "rebuilding", !.roots = rs, !.failed = fs] \in Job
  BY <1>2, JobFields
<1>. QED
  BY <1>3, JobStep DEF Watch, TypeOK

LEMMA ReadEntryType ==
  ASSUME TypeOK, NEW p \in Procs, ReadEntry(p)
  PROVE  TypeOK'
<1>1. PICK r \in job[p].roots :
        job' = [job EXCEPT ![p] =
                  IF HasEntry(r)
                  THEN [job[p] EXCEPT !.pc = "reading", !.root = r, !.prior = entry[r].handle,
                                      !.left = entry[r].folders, !.roots = job[p].roots \ {r}]
                  ELSE [job[p] EXCEPT !.roots = job[p].roots \ {r}]]
  BY DEF ReadEntry
<1>2. r \in Roots /\ entry[r].handle \in HandleOption /\ entry[r].folders \in SUBSET Folders
  BY JobTypes DEF TypeOK, EntryType
<1>3. job[p].roots \ {r} \in SUBSET Roots
  BY JobTypes
<1>4. [job[p] EXCEPT !.pc = "reading"] \in Job
  BY JobTypes, JobFields DEF PC
<1>5. [job[p] EXCEPT !.pc = "reading", !.root = r] \in Job
  BY <1>2, <1>4, JobFields DEF RootOption
<1>6. [job[p] EXCEPT !.pc = "reading", !.root = r, !.prior = entry[r].handle] \in Job
  BY <1>2, <1>5, JobFields
<1>7. [job[p] EXCEPT !.pc = "reading", !.root = r, !.prior = entry[r].handle,
                     !.left = entry[r].folders] \in Job
  BY <1>2, <1>6, JobFields
<1>8. [job[p] EXCEPT !.pc = "reading", !.root = r, !.prior = entry[r].handle,
                     !.left = entry[r].folders, !.roots = job[p].roots \ {r}] \in Job
  BY <1>3, <1>7, JobFields
<1>9. [job[p] EXCEPT !.roots = job[p].roots \ {r}] \in Job
  BY <1>3, JobTypes, JobFields
<1>10. job' \in [Procs -> Job]
  BY <1>1, <1>8, <1>9, JobStep
<1>. QED
  BY <1>10 DEF ReadEntry, TypeOK

LEMMA ReResolveType ==
  ASSUME TypeOK, NEW p \in Procs, ReResolve(p)
  PROVE  TypeOK'
<1>1. PICK f \in job[p].left :
        job' = [job EXCEPT ![p] = [job[p] EXCEPT !.conf[f] = disk[f], !.left = job[p].left \ {f}]]
  BY DEF ReResolve
<1>2. f \in Folders /\ disk[f] \in Roots \union {Broken}
  BY JobTypes, RegistryAssumption DEF RegistryAssumption, TypeOK
<1>. DEFINE conf == [job[p].conf EXCEPT ![f] = disk[f]]
<1>3. conf \in [Folders -> RootOption \union {Broken}]
  BY <1>2, JobTypes DEF RootOption
<1>4. [job[p] EXCEPT !.conf = conf] \in Job
  BY <1>3, JobTypes, JobFields
<1>5. job[p].left \ {f} \in SUBSET Folders
  BY JobTypes
<1>6. [[job[p] EXCEPT !.conf = conf] EXCEPT !.left = job[p].left \ {f}] \in Job
  BY <1>4, <1>5, JobFields
<1>7. job' = [job EXCEPT ![p] = [[job[p] EXCEPT !.conf = conf] EXCEPT !.left = job[p].left \ {f}]]
  BY <1>1, JobTypes DEF Job
<1>8. job' \in [Procs -> Job]
  BY <1>6, <1>7, JobStep
<1>. QED
  BY <1>8 DEF ReResolve, TypeOK

LEMMA MakeFreshType ==
  ASSUME TypeOK, NEW p \in Procs, MakeFresh(p)
  PROVE  TypeOK'
<1>1. PICK fresh \in [Roots -> HandleOption] :
        /\ session' = [h \in Handles |-> session[h] \/ \E r \in Roots : fresh[r] = h]
        /\ job' = [job EXCEPT ![p] = [job[p] EXCEPT !.pc = "swapping", !.fresh = fresh]]
  BY DEF MakeFresh, HandleOption
<1>2. [job[p] EXCEPT !.pc = "swapping"] \in Job
  BY JobTypes, JobFields DEF PC
<1>3. [job[p] EXCEPT !.pc = "swapping", !.fresh = fresh] \in Job
  BY <1>2, JobFields
<1>4. job' \in [Procs -> Job]
  BY <1>1, <1>3, JobStep
<1>5. session' \in [Handles -> BOOLEAN]
  BY <1>1 DEF TypeOK
<1>. QED
  BY <1>4, <1>5 DEF MakeFresh, TypeOK

\* A rebuild that found its entry replaced goes on to dispose nothing; one that did not
\* holds the root and the session of the entry it replaces.
LEMMA SwapCases ==
  ASSUME Known, NEW p \in Procs, Swap(p)
  PROVE  /\ job[p].root \in Roots /\ job[p].prior \in Handles
         /\ ~Stale(p) => entry[job[p].root].handle \in Handles
         /\ \A r \in ResolvedRoots(p) : job[p].fresh[r] \in Handles
BY DEF Known, RebuildKnown, Swap, At, Stale

\* The entries and slots after a swap have their types.
LEMMA SwapSlots ==
  ASSUME Known, NEW p \in Procs, Swap(p)
  PROVE  /\ slot' \in [Folders -> SlotType]
         /\ entry' \in [Roots -> EntryType]
<1>1. CASE Stale(p)
  BY <1>1 DEF Swap, Known, TypeOK
<1>2. CASE ~Stale(p)
  <2>1. ASSUME NEW f \in Moving(p)
        PROVE  Reslotted(job[p].conf[f]) \in SlotType
    <3>1. f \in Folders
      BY SwapCases DEF Moving, Known, TypeOK, EntryType
    <3>2. job[p].conf[f] \in Roots \union {NoRoot, Broken}
      BY <3>1, JobTypes DEF Known, RootOption
    <3>. QED
      BY <3>2, SlotTypes DEF Reslotted, Tag
  <2>2. ASSUME NEW r \in Roots
        PROVE  Joined(p, r) \in EntryType
    <3>. DEFINE others == IF r = job[p].root THEN NoEntry ELSE entry[r]
    <3>1. others \in EntryType
      BY EntryTypes DEF Known, TypeOK
    <3>2. Joining(p, r) \in SUBSET Folders
      BY SwapCases DEF Joining, Moving, Known, TypeOK, EntryType
    <3>3. (IF others = NoEntry THEN job[p].fresh[r] ELSE others.handle) \in HandleOption
      BY <3>1, JobTypes DEF Known, EntryType
    <3>4. others.folders \union Joining(p, r) \in SUBSET Folders
      BY <3>1, <3>2 DEF EntryType
    <3>. HIDE DEF others
    <3>5. [handle |-> IF others = NoEntry THEN job[p].fresh[r] ELSE others.handle,
           folders |-> others.folders \union Joining(p, r)] \in EntryType
      BY <3>3, <3>4, EntryTypes
    <3>. QED
      BY <3>1, <3>5 DEF Joined, others
  <2>. QED
    BY <1>2, <2>1, <2>2 DEF Swap, Known, TypeOK
<1>. QED
  BY <1>1, <1>2

LEMMA SwapType ==
  ASSUME Known, NEW p \in Procs, Swap(p)
  PROVE  TypeOK'
<1>1. CASE Stale(p)
  <2>1. job' \in [Procs -> Job]
    BY <1>1, GotoType DEF Swap, Known, PC
  <2>. QED
    BY <2>1, SwapSlots DEF Swap, Known, TypeOK
<1>2. CASE ~Stale(p)
  <2>. DEFINE doomed == {entry[job[p].root].handle}
              fresh == [r \in Roots |-> IF job[p].fresh[r] = entry'[r].handle THEN NoHandle
                                        ELSE job[p].fresh[r]]
  <2>1. doomed \in SUBSET Handles
    BY <1>2, SwapCases
  <2>2. fresh \in [Roots -> HandleOption]
    BY JobTypes DEF Known, HandleOption
  <2>3. job' = [job EXCEPT ![p] = [job[p] EXCEPT !.pc = "disposing", !.doomed = doomed,
                                                 !.fresh = fresh]]
    BY <1>2 DEF Swap
  <2>. HIDE DEF doomed, fresh
  <2>4. [job[p] EXCEPT !.pc = "disposing"] \in Job
    BY JobTypes, JobFields DEF Known, PC
  <2>5. [job[p] EXCEPT !.pc = "disposing", !.doomed = doomed] \in Job
    BY <2>1, <2>4, JobFields
  <2>6. [job[p] EXCEPT !.pc = "disposing", !.doomed = doomed, !.fresh = fresh] \in Job
    BY <2>2, <2>5, JobFields
  <2>7. job' \in [Procs -> Job]
    BY <2>3, <2>6, JobStep DEF Known
  <2>. QED
    BY <2>7, SwapSlots DEF Swap, Known, TypeOK
<1>. QED
  BY <1>1, <1>2

LEMMA ReadFailedType ==
  ASSUME TypeOK, NEW p \in Procs, ReadFailed(p)
  PROVE  TypeOK'
<1>1. ToRetry(p) \in SUBSET Folders
  BY DEF ToRetry, Tagged
<1>2. [Done EXCEPT !.pc = "picking"] \in Job
  BY DoneType, JobFields DEF PC
<1>3. [Done EXCEPT !.pc = "picking", !.left = ToRetry(p)] \in Job
  BY <1>1, <1>2, JobFields
<1>. QED
  BY <1>3, JobStep DEF ReadFailed, TypeOK

LEMMA PickType ==
  ASSUME TypeOK, NEW p \in Procs, Pick(p)
  PROVE  TypeOK'
<1>1. CASE job[p].left = {}
  <2>1. job' \in [Procs -> Job]
    BY <1>1, DoneType, JobStep DEF Pick
  <2>. QED
    BY <2>1 DEF Pick, TypeOK
<1>2. CASE job[p].left # {}
  <2>1. PICK f \in job[p].left :
          job' = [job EXCEPT ![p] = [Done EXCEPT !.pc = "step", !.folder = f, !.retry = TRUE,
                                                 !.left = job[p].left \ {f}]]
    BY <1>2 DEF Pick
  <2>2. f \in Folders /\ job[p].left \ {f} \in SUBSET Folders
    BY JobTypes
  <2>3. [Done EXCEPT !.pc = "step"] \in Job
    BY DoneType, JobFields DEF PC
  <2>4. [Done EXCEPT !.pc = "step", !.folder = f] \in Job
    BY <2>2, <2>3, JobFields
  <2>5. [Done EXCEPT !.pc = "step", !.folder = f, !.retry = TRUE] \in Job
    BY <2>4, JobFields
  <2>6. [Done EXCEPT !.pc = "step", !.folder = f, !.retry = TRUE,
                     !.left = job[p].left \ {f}] \in Job
    BY <2>2, <2>5, JobFields
  <2>7. job' \in [Procs -> Job]
    BY <2>1, <2>6, JobStep
  <2>. QED
    BY <2>7 DEF Pick, TypeOK
<1>. QED
  BY <1>1, <1>2

LEMMA ChangeFoldersType ==
  ASSUME Known, NEW p \in Procs, NEW removed \in SUBSET Folders, NEW added \in SUBSET Folders,
         ChangeFolders(p, removed, added)
  PROVE  TypeOK'
<1>. DEFINE doomed == {entry[r].handle : r \in {q \in LiveRoots : entry'[q] = NoEntry}}
<1>1. doomed \in SUBSET Handles
  BY DEF Known, EntryKnown, LiveRoots
<1>2. job' = [job EXCEPT ![p] = [Done EXCEPT !.pc = "disposing", !.doomed = doomed,
                                             !.adding = added]]
  BY DEF ChangeFolders
<1>. HIDE DEF doomed
<1>3. [Done EXCEPT !.pc = "disposing"] \in Job
  BY DoneType, JobFields DEF PC
<1>4. [Done EXCEPT !.pc = "disposing", !.doomed = doomed] \in Job
  BY <1>1, <1>3, JobFields
<1>5. [Done EXCEPT !.pc = "disposing", !.doomed = doomed, !.adding = added] \in Job
  BY <1>4, JobFields
<1>6. job' \in [Procs -> Job]
  BY <1>2, <1>5, JobStep DEF Known
<1>7. slot' \in [Folders -> SlotType]
  BY SlotTypes DEF ChangeFolders, Known, TypeOK, Tag
<1>8. ASSUME NEW r \in Roots
      PROVE  Without(r, removed) \in EntryType
  <2>1. entry[r] \in EntryType
    BY DEF Known, TypeOK
  <2>2. [entry[r] EXCEPT !.folders = @ \ {f \in removed : slot[f] = Live(r)}] \in EntryType
    BY <2>1 DEF EntryType
  <2>. QED
    BY <2>2, EntryTypes DEF Without
<1>9. entry' \in [Roots -> EntryType]
  BY <1>8 DEF ChangeFolders
<1>. QED
  BY <1>6, <1>7, <1>9 DEF ChangeFolders, Known, TypeOK

LEMMA CloseScopeType ==
  ASSUME TypeOK, NEW p \in Procs, CloseScope(p)
  PROVE  TypeOK'
<1>1. PICK h \in job[p].doomed :
        /\ session' = [session EXCEPT ![h] = FALSE]
        /\ job' = [job EXCEPT ![p] = [job[p] EXCEPT !.doomed = job[p].doomed \ {h}, !.telling = h]]
  BY DEF CloseScope
<1>2. h \in HandleOption /\ job[p].doomed \ {h} \in SUBSET Handles
  BY JobTypes DEF HandleOption
<1>3. [job[p] EXCEPT !.doomed = job[p].doomed \ {h}] \in Job
  BY <1>2, JobTypes, JobFields
<1>4. [job[p] EXCEPT !.doomed = job[p].doomed \ {h}, !.telling = h] \in Job
  BY <1>2, <1>3, JobFields
<1>5. job' \in [Procs -> Job]
  BY <1>1, <1>4, JobStep
<1>6. session' \in [Handles -> BOOLEAN]
  BY <1>1 DEF TypeOK
<1>. QED
  BY <1>5, <1>6 DEF CloseScope, TypeOK

LEMMA OnDisposeType ==
  ASSUME TypeOK, NEW p \in Procs, OnDispose(p)
  PROVE  TypeOK'
<1>1. [job[p] EXCEPT !.telling = NoHandle] \in Job
  BY JobTypes, JobFields DEF HandleOption
<1>2. job' = [job EXCEPT ![p] = [job[p] EXCEPT !.telling = NoHandle]]
  BY DEF OnDispose, TypeOK
<1>3. job' \in [Procs -> Job]
  BY <1>1, <1>2, JobStep
<1>. QED
  BY <1>3 DEF OnDispose, TypeOK

LEMMA DisposedType ==
  ASSUME TypeOK, NEW p \in Procs, Disposed(p)
  PROVE  TypeOK'
<1>. DEFINE pc == IF job[p].root # NoRoot THEN "rebuilding" ELSE "done"
<1>1. [Done EXCEPT !.pc = pc] \in Job
  BY DoneType, JobFields DEF PC
<1>2. job' = [job EXCEPT ![p] = [Done EXCEPT !.pc = pc, !.roots = job[p].roots,
                                             !.failed = job[p].failed]]
  BY DEF Disposed
<1>. HIDE DEF pc
<1>3. [Done EXCEPT !.pc = pc, !.roots = job[p].roots] \in Job
  BY <1>1, JobTypes, JobFields
<1>4. [Done EXCEPT !.pc = pc, !.roots = job[p].roots, !.failed = job[p].failed] \in Job
  BY <1>3, JobTypes, JobFields
<1>5. job' \in [Procs -> Job]
  BY <1>2, <1>4, JobStep
<1>6. slot' \in [Folders -> SlotType]
  BY SlotTypes DEF Disposed, TypeOK, Tag
<1>7. session' \in [Handles -> BOOLEAN]
  BY DEF Disposed, TypeOK
<1>. QED
  BY <1>5, <1>6, <1>7 DEF Disposed, TypeOK

-----------------------------------------------------------------------------
(***************************************************************************)
(* What each step does to the jobs: one fiber moves on, the others stay.   *)
(***************************************************************************)
Moves(p, pcs) == /\ job'[p].pc \in pcs
                 /\ \A q \in Procs \ {p} : job'[q] = job[q]

LEMMA StartMoves ==
  ASSUME TypeOK, NEW p \in Procs
  PROVE  /\ \A f \in Folders, retry \in BOOLEAN : Lookup(p, f, retry) => Moves(p, {"step"})
         /\ \A rs \in SUBSET Roots, fs \in SUBSET Folders :
              Watch(p, rs, fs) => Moves(p, {"rebuilding"})
         /\ \A removed, added \in SUBSET Folders :
              ChangeFolders(p, removed, added) => Moves(p, {"disposing"})
<1>1. ASSUME NEW f \in Folders, NEW retry \in BOOLEAN, Lookup(p, f, retry)
      PROVE  Moves(p, {"step"})
  BY <1>1 DEF Lookup, Moves, TypeOK, Done
<1>2. ASSUME NEW rs \in SUBSET Roots, NEW fs \in SUBSET Folders, Watch(p, rs, fs)
      PROVE  Moves(p, {"rebuilding"})
  BY <1>2 DEF Watch, Moves, TypeOK, Done
<1>3. ASSUME NEW removed \in SUBSET Folders, NEW added \in SUBSET Folders,
             ChangeFolders(p, removed, added)
      PROVE  Moves(p, {"disposing"})
  BY <1>3 DEF ChangeFolders, Moves, TypeOK, Done
<1>. QED
  BY <1>1, <1>2, <1>3

LEMMA LookupMoves ==
  ASSUME TypeOK, NEW p \in Procs
  PROVE  /\ Answer(p) => Moves(p, {"done", "picking"})
         /\ Await(p) => /\ Moves(p, {"waiting"})
                        /\ job'[p].on = slot[job[p].folder].by
         /\ Begin(p) => Moves(p, {"resolving"}) /\ job'[p].folder = job[p].folder
         /\ Resolve(p) => Moves(p, {"resolved"}) /\ job'[p].folder = job[p].folder
         /\ Make(p) => Moves(p, {"made"}) /\ job'[p].folder = job[p].folder
         /\ Install(p) => Moves(p, {"installed"})
<1>. /\ job \in [Procs -> Job]
     /\ job[p] \in Job
  BY JobTypes DEF TypeOK
<1>1. Answer(p) => Moves(p, {"done", "picking"})
  BY DEF Answer, Moves, Done
<1>2. Await(p) => Moves(p, {"waiting"}) /\ job'[p].on = slot[job[p].folder].by
  BY DEF Await, Moves, Job
<1>3. Begin(p) => Moves(p, {"resolving"}) /\ job'[p].folder = job[p].folder
  BY DEF Begin, Goto, Moves, Job
<1>4. Resolve(p) => Moves(p, {"resolved"}) /\ job'[p].folder = job[p].folder
  BY DEF Resolve, Moves, Job
<1>5. ASSUME Make(p)
      PROVE  Moves(p, {"made"}) /\ job'[p].folder = job[p].folder
  <2>1. PICK j : job' = [job EXCEPT ![p] = j] /\ j.pc = "made" /\ j.folder = job[p].folder
    <3>1. CASE Resolved(p) \in Roots \ LiveRoots
      <4>1. PICK h \in Handles :
              job' = [job EXCEPT ![p] = [job[p] EXCEPT !.pc = "made", !.fresh[Resolved(p)] = h]]
        BY <1>5, <3>1 DEF Make
      <4>2. LET j == [job[p] EXCEPT !.pc = "made", !.fresh[Resolved(p)] = h]
            IN  j.pc = "made" /\ j.folder = job[p].folder
        BY DEF Job
      <4>. QED
        BY <4>1, <4>2
    <3>2. CASE Resolved(p) \notin Roots \ LiveRoots
      BY <1>5, <3>2 DEF Make, Goto, Job
    <3>. QED
      BY <3>1, <3>2
  <2>. QED
    BY <2>1 DEF Moves
<1>6. Install(p) => Moves(p, {"installed"})
  BY DEF Install, Moves, Job
<1>. QED
  BY <1>1, <1>2, <1>3, <1>4, <1>5, <1>6

LEMMA RebuildMoves ==
  ASSUME TypeOK, NEW p \in Procs
  PROVE  /\ ReadEntry(p) => Moves(p, {"reading", "rebuilding"})
         /\ ReResolve(p) => Moves(p, {"reading"})
         /\ MakeFresh(p) => Moves(p, {"swapping"})
         /\ Swap(p) => Moves(p, {"disposing"})
         /\ ReadFailed(p) => Moves(p, {"picking"})
         /\ Pick(p) => Moves(p, {"done", "step"})
<1>. /\ job \in [Procs -> Job]
     /\ job[p] \in Job
  BY JobTypes DEF TypeOK
<1>1. ReadEntry(p) => Moves(p, {"reading", "rebuilding"})
  BY DEF ReadEntry, Moves, Job, At
<1>2. ReResolve(p) => Moves(p, {"reading"})
  BY DEF ReResolve, Moves, Job, At
<1>3. MakeFresh(p) => Moves(p, {"swapping"})
  BY DEF MakeFresh, Moves, Job
<1>4. ASSUME Swap(p)
      PROVE  Moves(p, {"disposing"})
  <2>1. CASE Stale(p)
    BY <1>4, <2>1 DEF Swap, Goto, Moves, Job
  <2>2. CASE ~Stale(p)
    <3>. DEFINE doomed == {entry[job[p].root].handle}
                fresh == [r \in Roots |-> IF job[p].fresh[r] = entry'[r].handle THEN NoHandle
                                          ELSE job[p].fresh[r]]
    <3>1. job' = [job EXCEPT ![p] = [job[p] EXCEPT !.pc = "disposing", !.doomed = doomed,
                                                   !.fresh = fresh]]
      BY <1>4, <2>2 DEF Swap
    <3>. HIDE DEF doomed, fresh
    <3>. QED
      BY <3>1 DEF Moves, Job
  <2>. QED
    BY <2>1, <2>2
<1>5. ReadFailed(p) => Moves(p, {"picking"})
  BY DEF ReadFailed, Moves, Done
<1>6. ASSUME Pick(p)
      PROVE  Moves(p, {"done", "step"})
  <2>1. CASE job[p].left = {}
    BY <1>6, <2>1 DEF Pick, Moves, Done
  <2>2. CASE job[p].left # {}
    <3>1. PICK f \in job[p].left :
            job' = [job EXCEPT ![p] = [Done EXCEPT !.pc = "step", !.folder = f, !.retry = TRUE,
                                                   !.left = job[p].left \ {f}]]
      BY <1>6, <2>2 DEF Pick
    <3>. QED
      BY <3>1 DEF Moves, Done
  <2>. QED
    BY <2>1, <2>2
<1>. QED
  BY <1>1, <1>2, <1>3, <1>4, <1>5, <1>6

LEMMA DisposeMoves ==
  ASSUME TypeOK, NEW p \in Procs
  PROVE  /\ CloseScope(p) => Moves(p, {"disposing"})
         /\ OnDispose(p) => Moves(p, {"disposing"})
         /\ Disposed(p) => Moves(p, {"rebuilding", "done"})
<1>. /\ job \in [Procs -> Job]
     /\ job[p] \in Job
  BY JobTypes DEF TypeOK
<1>1. CloseScope(p) => Moves(p, {"disposing"})
  BY DEF CloseScope, Moves, Job, At
<1>2. OnDispose(p) => Moves(p, {"disposing"})
  BY DEF OnDispose, Moves, Job, At
<1>3. Disposed(p) => Moves(p, {"rebuilding", "done"})
  BY DEF Disposed, Moves, Done
<1>. QED
  BY <1>1, <1>2, <1>3

\* A build that is over moves its fiber to where it is told and its waiters to "step".
LEMMA ReleasedMoves ==
  ASSUME TypeOK, NEW p \in Procs, NEW after \in Job, job' = Released(p, after)
  PROVE  /\ job'[p] = after
         /\ \A q \in Procs \ {p} : ~(At(q, "waiting") /\ job[q].on = p) => job'[q] = job[q]
         /\ \A q \in Procs \ {p} : At(q, "waiting") /\ job[q].on = p => job'[q].pc = "step"
<1>1. ASSUME NEW q \in Procs
      PROVE  [job[q] EXCEPT !.pc = "step", !.on = NoProc, !.retry = FALSE].pc = "step"
  BY JobTypes DEF Job
<1>. QED
  BY <1>1 DEF Released

-----------------------------------------------------------------------------
(***************************************************************************)
(* What a rebuild knows of the root it is rebuilding.                      *)
(***************************************************************************)
\* A fiber that moves to anything but a rebuild, or does not move, keeps what is known.
LEMMA RebuildFrame ==
  ASSUME RebuildKnown,
         \A q \in Procs : job'[q] = job[q] \/ job'[q].pc \notin {"reading", "swapping"}
  PROVE  RebuildKnown'
BY DEF RebuildKnown, At, ResolvedRoots

LEMMA ReadEntryKnown ==
  ASSUME Known, NEW p \in Procs, ReadEntry(p)
  PROVE  RebuildKnown'
<1>1. PICK r \in job[p].roots :
        job' = [job EXCEPT ![p] =
                  IF HasEntry(r)
                  THEN [job[p] EXCEPT !.pc = "reading", !.root = r, !.prior = entry[r].handle,
                                      !.left = entry[r].folders, !.roots = job[p].roots \ {r}]
                  ELSE [job[p] EXCEPT !.roots = job[p].roots \ {r}]]
  BY DEF ReadEntry
<1>2. r \in Roots /\ job[p] \in Job /\ job \in [Procs -> Job]
  BY JobTypes DEF Known, TypeOK
<1>3. CASE HasEntry(r)
  <2>1. entry[r].handle \in Handles
    BY <1>2, <1>3 DEF Known, EntryKnown
  <2>2. job'[p].pc = "reading" /\ job'[p].root = r /\ job'[p].prior = entry[r].handle
    BY <1>1, <1>2, <1>3 DEF Job
  <2>3. \A q \in Procs \ {p} : job'[q] = job[q]
    BY RebuildMoves DEF Known, Moves
  <2>. QED
    BY <1>2, <2>1, <2>2, <2>3 DEF Known, RebuildKnown, At, ResolvedRoots
<1>4. CASE ~HasEntry(r)
  <2>1. job'[p].pc = "rebuilding"
    BY <1>1, <1>2, <1>4 DEF ReadEntry, At, Job
  <2>. QED
    BY <2>1, RebuildMoves, RebuildFrame DEF Known, Moves
<1>. QED
  BY <1>3, <1>4

LEMMA ReResolveKnown ==
  ASSUME Known, NEW p \in Procs, ReResolve(p)
  PROVE  RebuildKnown'
<1>1. job[p] \in Job /\ job \in [Procs -> Job]
  BY JobTypes DEF Known, TypeOK
<1>2. job'[p].pc = "reading" /\ job'[p].root = job[p].root /\ job'[p].prior = job[p].prior
  BY <1>1 DEF ReResolve, At, Job
<1>3. \A q \in Procs \ {p} : job'[q] = job[q]
  BY RebuildMoves DEF Known, Moves
<1>. QED
  BY <1>2, <1>3 DEF Known, RebuildKnown, At, ResolvedRoots, ReResolve

LEMMA MakeFreshKnown ==
  ASSUME Known, NEW p \in Procs, MakeFresh(p)
  PROVE  RebuildKnown'
<1>1. PICK fresh \in [Roots -> HandleOption] :
        /\ \A r \in Roots : fresh[r] # NoHandle <=> r \in ResolvedRoots(p)
        /\ job' = [job EXCEPT ![p] = [job[p] EXCEPT !.pc = "swapping", !.fresh = fresh]]
  BY DEF MakeFresh, HandleOption
<1>2. job[p] \in Job /\ job \in [Procs -> Job]
  BY JobTypes DEF Known, TypeOK
<1>3. /\ job'[p].pc = "swapping" /\ job'[p].root = job[p].root /\ job'[p].prior = job[p].prior
      /\ job'[p].fresh = fresh /\ job'[p].conf = job[p].conf
  BY <1>1, <1>2 DEF Job
<1>4. \A q \in Procs \ {p} : job'[q] = job[q]
  BY RebuildMoves DEF Known, Moves
<1>5. \A r \in ResolvedRoots(p) : fresh[r] \in Handles
  BY <1>1 DEF ResolvedRoots, HandleOption
<1>6. \A r \in ResolvedRoots(p)' : job'[p].fresh[r] \in Handles
  BY <1>3, <1>5 DEF ResolvedRoots
<1>7. job[p].root \in Roots /\ job[p].prior \in Handles
  BY DEF MakeFresh, At, Known, RebuildKnown
<1>8. \A q \in Procs \ {p} : ResolvedRoots(q)' = ResolvedRoots(q)
  BY <1>4 DEF ResolvedRoots
<1>. QED
  BY <1>3, <1>4, <1>6, <1>7, <1>8 DEF Known, RebuildKnown, At

-----------------------------------------------------------------------------
(***************************************************************************)
(* The count: how each change of the slots keeps it.                       *)
(***************************************************************************)
Counted == EntryKnown /\ RefCount

LEMMA SlotsDiffer ==
  /\ \A r \in Roots, t \in {"absent", "unbuilt", "failed"} : Slot(t) # Live(r)
  /\ \A r \in Roots, p \in Procs : Building(p) # Live(r)
  /\ \A q, r \in Roots : Live(q) = Live(r) => q = r
BY DEF Slot, Live, Building

\* Changes between slots that are not live count for nothing.
LEMMA LiveKept ==
  ASSUME Counted, entry' = entry,
         \A f \in Folders, r \in Roots : slot'[f] = Live(r) <=> slot[f] = Live(r)
  PROVE  Counted'
BY DEF Counted, EntryKnown, RefCount, HasEntry

LEMMA BeginCounted ==
  ASSUME Known, Counted, NEW p \in Procs, Begin(p)
  PROVE  Counted'
<1>1. \A r \in Roots : slot[job[p].folder] # Live(r)
  BY DEF Begin, MayBuild, Live
<1>2. slot' = [slot EXCEPT ![job[p].folder] = Building(p)] /\ slot \in [Folders -> SlotType]
  BY DEF Begin, Known, TypeOK
<1>3. \A f \in Folders, r \in Roots : slot'[f] = Live(r) <=> slot[f] = Live(r)
  BY <1>1, <1>2, SlotsDiffer
<1>. QED
  BY <1>3, LiveKept DEF Begin

LEMMA RevertedCounted ==
  ASSUME Counted, NEW p \in Procs, slot' = Reverted(p), entry' = entry
  PROVE  Counted'
<1>1. \A f \in Folders, r \in Roots : slot'[f] = Live(r) <=> slot[f] = Live(r)
  BY SlotsDiffer DEF Reverted
<1>. QED
  BY <1>1, LiveKept

LEMMA DisposedCounted ==
  ASSUME Counted, NEW p \in Procs, Disposed(p)
  PROVE  Counted'
<1>1. \A f \in Folders, r \in Roots : slot'[f] = Live(r) <=> slot[f] = Live(r)
  BY SlotsDiffer DEF Disposed, Live
<1>. QED
  BY <1>1, LiveKept DEF Disposed

\* A folder whose placeholder still stands is counted once its outcome is installed.
LEMMA InstallCounted ==
  ASSUME Known, Counted, NEW p \in Procs, Install(p)
  PROVE  Counted'
<1>. DEFINE f == job[p].folder
            r == Resolved(p)
            h == IF r \in Roots THEN job[p].fresh[r] ELSE NoHandle
<1>1. /\ f \in Folders /\ h \in HandleOption
      /\ slot \in [Folders -> SlotType] /\ entry \in [Roots -> EntryType]
  BY JobTypes DEF HandleOption, Known, TypeOK
<1>. HIDE DEF f, h, r
<1>2. CASE UNCHANGED <<slot, entry>>
  BY <1>2, LiveKept
<1>3. CASE StillBuilding(p)
  <2>1. slot[f] = Building(p)
    BY <1>3 DEF StillBuilding, f
  <2>2. \A q \in Roots : slot[f] # Live(q) /\ f \notin entry[q].folders
    BY <2>1, SlotsDiffer DEF Counted, RefCount
  <2>3. CASE InstallFailure(f) \/ StartOver(f, r, h)
    <3>1. \A g \in Folders, q \in Roots : slot'[g] = Live(q) <=> slot[g] = Live(q)
      BY <1>1, <2>2, <2>3, SlotsDiffer DEF InstallFailure, StartOver
    <3>. QED
      BY <2>3, <3>1, LiveKept DEF InstallFailure, StartOver
  <2>4. CASE r \in Roots /\ (Attach(f, r) \/ InstallNew(f, r, h))
    <3>1. /\ slot' = [slot EXCEPT ![f] = Live(r)]
          /\ entry'[r].folders = entry[r].folders \union {f}
          /\ entry'[r].handle \in Handles
          /\ \A q \in Roots \ {r} : entry'[q] = entry[q]
      <4>1. CASE Attach(f, r)
        BY <1>1, <2>4, <4>1 DEF Attach, Counted, EntryKnown, EntryType
      <4>2. CASE InstallNew(f, r, h)
        BY <1>1, <2>4, <4>2 DEF InstallNew, HasEntry, NoEntry, HandleOption
      <4>. QED
        BY <2>4, <4>1, <4>2
    <3>2. \A q \in Roots : {g \in Folders : slot'[g] = Live(q)}
            = IF q = r THEN {g \in Folders : slot[g] = Live(q)} \union {f}
              ELSE {g \in Folders : slot[g] = Live(q)}
      BY <1>1, <2>2, <2>4, <3>1, SlotsDiffer
    <3>3. \A q \in Roots : entry'[q].folders = {g \in Folders : slot'[g] = Live(q)}
      BY <2>4, <3>1, <3>2 DEF Counted, RefCount
    <3>4. entry'[r] # NoEntry /\ entry'[r].folders # {}
      BY <3>1 DEF NoEntry
    <3>. QED
      BY <2>4, <3>1, <3>3, <3>4 DEF Counted, RefCount, EntryKnown, HasEntry
  <2>. QED
    BY <1>3, <2>3, <2>4 DEF Install, f, r, h
<1>. QED
  BY <1>2, <1>3 DEF Install

\* A swap moves the folders of the replaced entry, which are those live at its root,
\* each to the root it resolved to, and the entries follow them.
LEMMA SwapCounted ==
  ASSUME Known, Counted, NEW p \in Procs, Swap(p)
  PROVE  Counted'
<1>1. CASE Stale(p)
  BY <1>1, LiveKept DEF Swap
<1>2. CASE ~Stale(p)
  <2>. DEFINE old == job[p].root
              others(r) == IF r = old THEN NoEntry ELSE entry[r]
  <2>1. old \in Roots /\ HasEntry(old)
    BY <1>2, SwapCases, RegistryAssumption DEF RegistryAssumption, HasEntry, NoEntry
  <2>2. Moving(p) = {f \in Folders : slot[f] = Live(old)}
    BY <2>1 DEF Moving, Counted, RefCount
  <2>3. /\ slot' = [f \in Folders |-> IF f \in Moving(p) THEN Reslotted(job[p].conf[f]) ELSE slot[f]]
        /\ entry' = [r \in Roots |-> Joined(p, r)]
    BY <1>2 DEF Swap
  <2>4. ASSUME NEW r \in Roots
        PROVE  {f \in Folders : slot'[f] = Live(r)} = others(r).folders \union Joining(p, r)
    <3>1. ASSUME NEW f \in Moving(p)
          PROVE  slot'[f] = Live(r) <=> f \in Joining(p, r)
      <4>1. f \in Folders
        BY <2>2
      <4>2. job[p].conf[f] \in Roots \union {NoRoot, Broken}
        BY <4>1, JobTypes DEF Known, RootOption
      <4>3. Reslotted(job[p].conf[f]) = Live(r) <=> job[p].conf[f] = r
        BY <4>2, SlotsDiffer, RegistryAssumption DEF RegistryAssumption, Reslotted
      <4>. QED
        BY <2>3, <4>1, <4>3 DEF Joining
    <3>2. ASSUME NEW f \in Folders \ Moving(p)
          PROVE  slot'[f] = Live(r) <=> f \in others(r).folders
      <4>1. slot'[f] = slot[f]
        BY <2>3
      <4>2. slot[f] = Live(r) => r # old
        BY <2>2
      <4>3. slot[f] = Live(r) <=> f \in entry[r].folders
        BY DEF Counted, RefCount
      <4>. QED
        BY <4>1, <4>2, <4>3 DEF NoEntry
    <3>3. others(r).folders \subseteq Folders \ Moving(p)
      <4>1. entry[r].folders = {f \in Folders : slot[f] = Live(r)}
        BY DEF Counted, RefCount
      <4>. QED
        BY <2>1, <2>2, <4>1, SlotsDiffer DEF NoEntry
    <3>4. Joining(p, r) \subseteq Moving(p) /\ Moving(p) \subseteq Folders
      BY <2>2 DEF Joining
    <3>. QED
      BY <3>1, <3>2, <3>3, <3>4
  <2>5. ASSUME NEW r \in Roots
        PROVE  others(r) # NoEntry <=> others(r).folders # {}
    BY DEF Counted, RefCount, HasEntry, NoEntry
  <2>6. ASSUME NEW r \in Roots
        PROVE  others(r) # NoEntry => others(r).handle \in Handles
    BY DEF Counted, EntryKnown, HasEntry
  <2>7. ASSUME NEW r \in Roots, Joining(p, r) # {}
        PROVE  job[p].fresh[r] \in Handles
    <3>1. r \in ResolvedRoots(p)
      BY <2>2, <2>7 DEF ResolvedRoots, Joining
    <3>. QED
      BY <3>1, SwapCases
  <2>8. ASSUME NEW r \in Roots
        PROVE  entry'[r] = IF Joining(p, r) = {} THEN others(r)
                           ELSE [handle |-> IF others(r) = NoEntry THEN job[p].fresh[r]
                                            ELSE others(r).handle,
                                 folders |-> others(r).folders \union Joining(p, r)]
    BY <2>3 DEF Joined
  <2>. HIDE DEF others
  <2>9. ASSUME NEW r \in Roots
        PROVE  /\ entry'[r].folders = others(r).folders \union Joining(p, r)
               /\ entry'[r] # NoEntry <=> entry'[r].folders # {}
               /\ entry'[r] # NoEntry => entry'[r].handle \in Handles
    <3>1. CASE Joining(p, r) = {}
      BY <2>5, <2>6, <2>8, <3>1
    <3>2. CASE Joining(p, r) # {}
      <4>1. /\ entry'[r].folders = others(r).folders \union Joining(p, r)
            /\ entry'[r].handle = IF others(r) = NoEntry THEN job[p].fresh[r] ELSE others(r).handle
        <5>. DEFINE h == IF others(r) = NoEntry THEN job[p].fresh[r] ELSE others(r).handle
                    fs == others(r).folders \union Joining(p, r)
        <5>1. entry'[r] = [handle |-> h, folders |-> fs]
          BY <2>8, <3>2
        <5>. HIDE DEF h, fs
        <5>2. entry'[r].folders = fs /\ entry'[r].handle = h
          BY <5>1
        <5>. QED
          BY <5>2 DEF h, fs
      <4>2. entry'[r].handle \in Handles
        BY <2>6, <2>7, <3>2, <4>1
      <4>3. entry'[r].folders # {}
        BY <3>2, <4>1
      <4>4. entry'[r] # NoEntry
        BY <4>3 DEF NoEntry
      <4>. QED
        BY <4>1, <4>2, <4>3, <4>4
    <3>. QED
      BY <3>1, <3>2
  <2>. QED
    BY <2>4, <2>9 DEF Counted, RefCount, EntryKnown, HasEntry
<1>. QED
  BY <1>1, <1>2

\* Folders that are removed leave the entry of the root they were live at.
LEMMA ChangeFoldersCounted ==
  ASSUME Known, Counted, NEW p \in Procs, NEW removed \in SUBSET Folders,
         NEW added \in SUBSET Folders, ChangeFolders(p, removed, added)
  PROVE  Counted'
<1>1. /\ slot' = [f \in Folders |-> IF f \in removed THEN Slot("absent") ELSE slot[f]]
      /\ entry' = [r \in Roots |-> Without(r, removed)]
  BY DEF ChangeFolders
<1>2. ASSUME NEW r \in Roots
      PROVE  /\ entry'[r].folders = {f \in Folders : slot'[f] = Live(r)}
             /\ entry'[r] # NoEntry <=> entry'[r].folders # {}
             /\ entry'[r] # NoEntry => entry'[r].handle \in Handles
  <2>. DEFINE gone == {f \in removed : slot[f] = Live(r)}
  <2>1. {f \in Folders : slot'[f] = Live(r)} = {f \in Folders : slot[f] = Live(r)} \ gone
    BY <1>1, SlotsDiffer
  <2>2. entry[r].folders = {f \in Folders : slot[f] = Live(r)} /\ entry[r] \in EntryType
    BY DEF Known, TypeOK, Counted, RefCount
  <2>3. entry[r] # NoEntry <=> entry[r].folders # {}
    BY DEF Counted, RefCount, HasEntry
  <2>4. entry[r] # NoEntry => entry[r].handle \in Handles
    BY DEF Counted, EntryKnown, HasEntry
  <2>5. entry'[r] = IF gone # {} /\ entry[r].folders \subseteq gone THEN NoEntry
                    ELSE [entry[r] EXCEPT !.folders = entry[r].folders \ gone]
    BY <1>1 DEF Without
  <2>. HIDE DEF gone
  <2>6. CASE gone # {} /\ entry[r].folders \subseteq gone
    BY <2>1, <2>2, <2>5, <2>6 DEF NoEntry
  <2>7. CASE gone = {}
    <3>1. [entry[r] EXCEPT !.folders = entry[r].folders \ gone] = entry[r]
      BY <2>2, <2>7 DEF EntryType
    <3>. QED
      BY <2>1, <2>2, <2>3, <2>4, <2>5, <2>7, <3>1
  <2>8. CASE ~(entry[r].folders \subseteq gone)
    <3>1. /\ entry'[r].folders = entry[r].folders \ gone
          /\ entry'[r].handle = entry[r].handle
      BY <2>2, <2>5, <2>8 DEF EntryType
    <3>2. entry[r] # NoEntry
      BY <2>8 DEF NoEntry
    <3>. QED
      BY <2>1, <2>2, <2>4, <2>8, <3>1, <3>2 DEF NoEntry
  <2>. QED
    BY <2>6, <2>7, <2>8
<1>. QED
  BY <1>2 DEF Counted, RefCount, EntryKnown, HasEntry

-----------------------------------------------------------------------------
(***************************************************************************)
(* The types and the count are inductive together.                         *)
(***************************************************************************)
LEMMA CountInit == Init => CountInv
<1>. SUFFICES ASSUME Init
              PROVE  CountInv
  OBVIOUS
<1>1. Slot("unbuilt") \in SlotType
  BY SlotTypes DEF Tag
<1>2. TypeOK
  BY <1>1, EntryTypes, DoneType, RegistryAssumption DEF RegistryAssumption, Init, TypeOK
<1>3. RefCount /\ EntryKnown
  BY SlotsDiffer DEF Init, RefCount, EntryKnown, HasEntry, NoEntry
<1>4. RebuildKnown
  BY DEF Init, RebuildKnown, At, Done
<1>. QED
  BY <1>2, <1>3, <1>4 DEF CountInv

LEMMA StartCount ==
  ASSUME CountInv, NEW p \in Procs, Start(p)
  PROVE  CountInv'
<1>. /\ Known /\ Counted /\ TypeOK /\ RebuildKnown
  BY DEF CountInv, Known, Counted
<1>1. CASE \E f \in Folders, retry \in BOOLEAN : Lookup(p, f, retry)
  <2>1. PICK f \in Folders, retry \in BOOLEAN : Lookup(p, f, retry)
    BY <1>1
  <2>2. TypeOK' /\ RebuildKnown'
    BY <2>1, LookupType, StartMoves, RebuildFrame DEF Moves
  <2>3. Counted'
    BY <2>1, LiveKept DEF Lookup
  <2>. QED
    BY <2>2, <2>3 DEF CountInv, Counted
<1>2. ASSUME NEW rs \in SUBSET Roots, NEW fs \in SUBSET Folders,
             Watch(p, rs, fs), dirty' \subseteq Folders
      PROVE  CountInv'
  <2>1. TypeOK' /\ RebuildKnown'
    BY <1>2, WatchType, StartMoves, RebuildFrame DEF Moves
  <2>2. Counted'
    BY <1>2, LiveKept DEF Watch
  <2>. QED
    BY <2>1, <2>2 DEF CountInv, Counted
<1>3. CASE \E removed, added \in SUBSET Folders : ChangeFolders(p, removed, added)
  <2>1. PICK removed \in SUBSET Folders, added \in SUBSET Folders :
          ChangeFolders(p, removed, added)
    BY <1>3
  <2>2. TypeOK' /\ RebuildKnown'
    BY <2>1, ChangeFoldersType, StartMoves, RebuildFrame DEF Moves
  <2>3. Counted'
    BY <2>1, ChangeFoldersCounted
  <2>. QED
    BY <2>2, <2>3 DEF CountInv, Counted
<1>4. dirty \in SUBSET Folders /\ LiveRoots \in SUBSET Roots
  BY DEF TypeOK, LiveRoots
<1>5. CASE \E r \in Roots : Watch(p, {r}, {}) /\ UNCHANGED dirty
  <2>1. PICK r \in Roots : Watch(p, {r}, {}) /\ UNCHANGED dirty
    BY <1>5
  <2>2. {r} \in SUBSET Roots /\ {} \in SUBSET Folders /\ dirty' \subseteq Folders
    BY <1>4, <2>1
  <2>. QED
    BY <1>2, <2>1, <2>2
<1>6. CASE \E fs \in SUBSET Folders : Watch(p, {}, fs) /\ UNCHANGED dirty
  <2>1. PICK fs \in SUBSET Folders : Watch(p, {}, fs) /\ UNCHANGED dirty
    BY <1>6
  <2>2. {} \in SUBSET Roots /\ dirty' \subseteq Folders
    BY <1>4, <2>1
  <2>. QED
    BY <1>2, <2>1, <2>2
<1>7. CASE Report(p)
  <2>1. Watch(p, LiveRoots, dirty) /\ dirty' \subseteq Folders
    BY <1>7 DEF Report
  <2>. QED
    BY <1>2, <1>4, <2>1
<1>. QED
  BY <1>1, <1>3, <1>5, <1>6, <1>7 DEF Start

LEMMA LookupCount ==
  ASSUME CountInv, NEW p \in Procs, LookupStep(p)
  PROVE  CountInv'
<1>. /\ Known /\ Counted /\ TypeOK /\ RebuildKnown
  BY DEF CountInv, Known, Counted
<1>1. CASE Answer(p)
  BY <1>1, AnswerType, LookupMoves, RebuildFrame, LiveKept DEF Moves, Answer, CountInv, Counted
<1>2. CASE Await(p)
  BY <1>2, AwaitType, LookupMoves, RebuildFrame, LiveKept DEF Moves, Await, CountInv, Counted
<1>3. CASE Begin(p)
  BY <1>3, BeginType, LookupMoves, RebuildFrame, BeginCounted DEF Moves, CountInv, Counted
<1>4. CASE Resolve(p)
  BY <1>4, ResolveType, LookupMoves, RebuildFrame, LiveKept DEF Moves, Resolve, CountInv, Counted
<1>5. CASE Make(p)
  BY <1>5, MakeType, LookupMoves, RebuildFrame, LiveKept DEF Moves, Make, CountInv, Counted
<1>6. CASE Install(p)
  BY <1>6, InstallType, LookupMoves, RebuildFrame, InstallCounted DEF Moves, CountInv, Counted
<1>7. CASE Release(p)
  <2>1. \A q \in Procs : job'[q] = job[q] \/ job'[q].pc = "step"
    BY <1>7 DEF Release, Released, Done, TypeOK, Job
  <2>2. RebuildKnown'
    BY <2>1, RebuildFrame
  <2>. QED
    BY <1>7, <2>2, ReleaseType, RevertedCounted DEF Release, CountInv, Counted
<1>. QED
  BY <1>1, <1>2, <1>3, <1>4, <1>5, <1>6, <1>7 DEF LookupStep

LEMMA InterruptCount ==
  ASSUME CountInv, NEW p \in Procs, Interrupt(p)
  PROVE  CountInv'
<1>. /\ Known /\ Counted /\ TypeOK /\ RebuildKnown
  BY DEF CountInv, Known, Counted
<1>1. \A q \in Procs : job'[q] = job[q] \/ job'[q].pc \in {"step", "done"}
  BY DEF Interrupt, Released, Done, TypeOK, Job
<1>2. RebuildKnown'
  BY <1>1, RebuildFrame
<1>. QED
  BY <1>2, InterruptType, RevertedCounted DEF Interrupt, CountInv, Counted

LEMMA RebuildCount ==
  ASSUME CountInv, NEW p \in Procs, RebuildStep(p)
  PROVE  CountInv'
<1>. /\ Known /\ Counted /\ TypeOK /\ RebuildKnown
  BY DEF CountInv, Known, Counted
<1>1. CASE ReadEntry(p)
  BY <1>1, ReadEntryType, ReadEntryKnown, LiveKept DEF ReadEntry, CountInv, Counted
<1>2. CASE ReResolve(p)
  BY <1>2, ReResolveType, ReResolveKnown, LiveKept DEF ReResolve, CountInv, Counted
<1>3. CASE MakeFresh(p)
  BY <1>3, MakeFreshType, MakeFreshKnown, LiveKept DEF MakeFresh, CountInv, Counted
<1>4. CASE Swap(p)
  BY <1>4, SwapType, RebuildMoves, RebuildFrame, SwapCounted DEF Moves, CountInv, Counted
<1>5. CASE ReadFailed(p)
  BY <1>5, ReadFailedType, RebuildMoves, RebuildFrame, LiveKept
     DEF Moves, ReadFailed, CountInv, Counted
<1>6. CASE Pick(p)
  BY <1>6, PickType, RebuildMoves, RebuildFrame, LiveKept DEF Moves, Pick, CountInv, Counted
<1>. QED
  BY <1>1, <1>2, <1>3, <1>4, <1>5, <1>6 DEF RebuildStep

LEMMA DisposeCount ==
  ASSUME CountInv, NEW p \in Procs, DisposeStep(p)
  PROVE  CountInv'
<1>. /\ Known /\ Counted /\ TypeOK /\ RebuildKnown
  BY DEF CountInv, Known, Counted
<1>1. CASE CloseScope(p)
  BY <1>1, CloseScopeType, DisposeMoves, RebuildFrame, LiveKept
     DEF Moves, CloseScope, CountInv, Counted
<1>2. CASE OnDispose(p)
  BY <1>2, OnDisposeType, DisposeMoves, RebuildFrame, LiveKept
     DEF Moves, OnDispose, CountInv, Counted
<1>3. CASE Disposed(p)
  BY <1>3, DisposedType, DisposeMoves, RebuildFrame, DisposedCounted
     DEF Moves, CountInv, Counted
<1>. QED
  BY <1>1, <1>2, <1>3 DEF DisposeStep

LEMMA EditCount ==
  ASSUME CountInv, NEW conf \in Configs, EditConfig(conf)
  PROVE  CountInv'
<1>1. TypeOK'
  BY RegistryAssumption DEF RegistryAssumption, CountInv, TypeOK, EditConfig
<1>2. RefCount' /\ EntryKnown'
  BY LiveKept DEF EditConfig, CountInv, Counted
<1>3. RebuildKnown'
  BY RebuildFrame DEF EditConfig, CountInv
<1>. QED
  BY <1>1, <1>2, <1>3 DEF CountInv

LEMMA CountStep == CountInv /\ [Next]_vars => CountInv'
<1>. SUFFICES ASSUME CountInv, [Next]_vars
              PROVE  CountInv'
  OBVIOUS
<1>1. CASE UNCHANGED vars
  BY <1>1 DEF vars, CountInv, TypeOK, RefCount, EntryKnown, RebuildKnown, HasEntry, At,
              ResolvedRoots
<1>2. CASE Next
  BY <1>2, StartCount, LookupCount, InterruptCount, RebuildCount, DisposeCount, EditCount
     DEF Next, Step
<1>. QED
  BY <1>1, <1>2

\* The registry's state keeps its types.
THEOREM TypeCorrect == Spec => []TypeOK
<1>1. CountInv => TypeOK
  BY DEF CountInv
<1>. QED
  BY <1>1, CountInit, CountStep, PTL DEF Spec

\* The reference count of dropFolders, rebuild and runBuild is exact.
THEOREM CountExact == Spec => []RefCount
<1>1. CountInv => RefCount
  BY DEF CountInv
<1>. QED
  BY <1>1, CountInit, CountStep, PTL DEF Spec

-----------------------------------------------------------------------------
(***************************************************************************)
(* A removed folder stays removed.                                         *)
(***************************************************************************)
LEMMA RemovedStep ==
  ASSUME TypeOK, [Next]_vars
  PROVE  \A f \in Folders : slot[f].tag = "absent" => slot'[f].tag \in {"absent", "unbuilt"}
<1>. SUFFICES ASSUME NEW f \in Folders, slot[f].tag = "absent"
              PROVE  slot'[f].tag \in {"absent", "unbuilt"}
  OBVIOUS
<1>. slot \in [Folders -> SlotType]
  BY DEF TypeOK
<1>1. CASE UNCHANGED slot
  BY <1>1
<1>2. ASSUME NEW p \in Procs, LookupStep(p) \/ Interrupt(p)
      PROVE  slot'[f].tag \in {"absent", "unbuilt"}
  <2>1. CASE Begin(p)
    BY <2>1 DEF Begin, MayBuild
  <2>2. CASE Install(p)
    <3>1. StillBuilding(p) => f # job[p].folder
      BY DEF StillBuilding, Building
    <3>2. slot' = slot \/ slot'[f] = slot[f]
      BY <2>2, <3>1 DEF Install, InstallFailure, Attach, InstallNew, StartOver
    <3>. QED
      BY <3>2
  <2>3. CASE Release(p) \/ Interrupt(p)
    BY <2>3 DEF Release, Interrupt, Reverted, Building
  <2>. QED
    BY <1>1, <1>2, <2>1, <2>2, <2>3 DEF LookupStep, Answer, Await, Resolve, Make
<1>3. ASSUME NEW p \in Procs, RebuildStep(p) \/ DisposeStep(p)
      PROVE  slot'[f].tag \in {"absent", "unbuilt"}
  <2>1. CASE Swap(p)
    BY <1>1, <2>1 DEF Swap, Moving, Live
  <2>2. CASE Disposed(p)
    BY <2>2 DEF Disposed, Slot
  <2>. QED
    BY <1>1, <1>3, <2>1, <2>2 DEF RebuildStep, DisposeStep, ReadEntry, ReResolve, MakeFresh,
                                  ReadFailed, Pick, CloseScope, OnDispose
<1>4. ASSUME NEW p \in Procs, Start(p)
      PROVE  slot'[f].tag \in {"absent", "unbuilt"}
  <2>1. CASE \E removed, added \in SUBSET Folders : ChangeFolders(p, removed, added)
    <3>1. PICK removed \in SUBSET Folders :
            slot' = [g \in Folders |-> IF g \in removed THEN Slot("absent") ELSE slot[g]]
      BY <2>1 DEF ChangeFolders
    <3>. QED
      BY <3>1 DEF Slot
  <2>2. CASE ~ \E removed, added \in SUBSET Folders : ChangeFolders(p, removed, added)
    <3>1. slot' = slot
      BY <1>4, <2>2 DEF Start, Lookup, Watch, Report
    <3>. QED
      BY <1>1, <3>1
  <2>. QED
    BY <2>1, <2>2
<1>. QED
  BY <1>1, <1>2, <1>3, <1>4 DEF Next, Step, vars, EditConfig

\* Nothing but adding a folder re-slots one that was removed: neither the build nor the
\* rebuild that was under way when it went.
THEOREM RemovedNeverReturns == Spec => RemovedStays
<1>1. CountInv /\ [Next]_vars =>
        [\A f \in Folders : slot[f].tag = "absent" => slot'[f].tag \in {"absent", "unbuilt"}]_vars
  BY RemovedStep DEF CountInv
<1>. QED
  BY <1>1, CountInit, CountStep, PTL DEF Spec, RemovedStays

-----------------------------------------------------------------------------
(***************************************************************************)
(* Every placeholder has its builder at work.                              *)
(***************************************************************************)
Builds == {"resolving", "resolved", "made"}

\* What the invariant says of one folder and of one waiting fiber.
LEMMA AttendedMeans ==
  BuildInv <=>
    /\ \A f \in Folders : slot[f].tag = "building" =>
         /\ slot[f].by \in Procs /\ slot[f] = Building(slot[f].by)
         /\ job[slot[f].by].pc \in Builds /\ job[slot[f].by].folder = f
    /\ \A q \in Procs : job[q].pc = "waiting" =>
         job[q].on \in Procs /\ job[job[q].on].pc \in Builds \union {"installed"}
BY DEF BuildInv, PlaceholderKnown, BuilderAtWork, Tagged, AtBuild, At, Builds

LEMMA AttendedNext ==
  ASSUME \A f \in Folders : slot'[f].tag = "building" =>
           /\ slot'[f].by \in Procs /\ slot'[f] = Building(slot'[f].by)
           /\ job'[slot'[f].by].pc \in Builds /\ job'[slot'[f].by].folder = f,
         \A q \in Procs : job'[q].pc = "waiting" =>
           job'[q].on \in Procs /\ job'[job'[q].on].pc \in Builds \union {"installed"}
  PROVE  BuildInv'
BY DEF BuildInv, PlaceholderKnown, BuilderAtWork, Tagged, AtBuild, At, Builds, Building

\* A fiber that is not building, and does not come to wait, disturbs nobody: no slot
\* becomes a placeholder and those there are keep their builders.
LEMMA BuildFrame ==
  ASSUME BuildInv, NEW p \in Procs, NEW pcs, Moves(p, pcs), "waiting" \notin pcs,
         job[p].pc \notin Builds \union {"installed"},
         \A f \in Folders : slot'[f].tag = "building" => slot'[f] = slot[f]
  PROVE  BuildInv'
<1>1. ASSUME NEW f \in Folders, slot'[f].tag = "building"
      PROVE  /\ slot'[f].by \in Procs /\ slot'[f] = Building(slot'[f].by)
             /\ job'[slot'[f].by].pc \in Builds /\ job'[slot'[f].by].folder = f
  <2>1. slot'[f] = slot[f]
    BY <1>1
  <2>2. /\ slot[f].by \in Procs /\ slot[f] = Building(slot[f].by)
        /\ job[slot[f].by].pc \in Builds /\ job[slot[f].by].folder = f
    BY <1>1, <2>1, AttendedMeans
  <2>3. job'[slot[f].by] = job[slot[f].by]
    BY <2>2 DEF Moves
  <2>. QED
    BY <2>1, <2>2, <2>3
<1>2. ASSUME NEW q \in Procs, job'[q].pc = "waiting"
      PROVE  /\ job'[q].on \in Procs
             /\ job'[job'[q].on].pc \in Builds \union {"installed"}
  <2>1. q # p
    BY <1>2 DEF Moves
  <2>2. job'[q] = job[q]
    BY <2>1 DEF Moves
  <2>3. /\ job[q].on \in Procs
        /\ job[job[q].on].pc \in Builds \union {"installed"}
    BY <1>2, <2>2, AttendedMeans
  <2>4. job'[job[q].on] = job[job[q].on]
    BY <2>3 DEF Moves
  <2>. QED
    BY <2>2, <2>3, <2>4
<1>. QED
  BY <1>1, <1>2, AttendedNext

\* A lookup that begins a build puts up its own placeholder.
LEMMA BeginAttended ==
  ASSUME TypeOK, BuildInv, NEW p \in Procs, Begin(p)
  PROVE  BuildInv'
<1>. DEFINE g == job[p].folder
<1>1. /\ g \in Folders /\ slot' = [slot EXCEPT ![g] = Building(p)]
      /\ slot \in [Folders -> SlotType]
      /\ job[p].pc = "step"
  BY JobTypes DEF Begin, At, TypeOK
<1>2. /\ job'[p].pc = "resolving" /\ job'[p].folder = g
      /\ \A q \in Procs \ {p} : job'[q] = job[q]
  BY LookupMoves DEF Moves
<1>. HIDE DEF g
<1>3. ASSUME NEW f \in Folders, slot'[f].tag = "building"
      PROVE  /\ slot'[f].by \in Procs /\ slot'[f] = Building(slot'[f].by)
             /\ job'[slot'[f].by].pc \in Builds /\ job'[slot'[f].by].folder = f
  <2>1. CASE f = g
    BY <1>1, <1>2, <2>1 DEF Building, Builds
  <2>2. CASE f # g
    <3>1. slot'[f] = slot[f]
      BY <1>1, <2>2
    <3>2. /\ slot[f].by \in Procs /\ slot[f] = Building(slot[f].by)
          /\ job[slot[f].by].pc \in Builds /\ job[slot[f].by].folder = f
      BY <1>3, <3>1, AttendedMeans
    <3>3. slot[f].by # p
      BY <1>1, <3>2 DEF Builds
    <3>. QED
      BY <1>2, <3>1, <3>2, <3>3
  <2>. QED
    BY <2>1, <2>2
<1>4. ASSUME NEW q \in Procs, job'[q].pc = "waiting"
      PROVE  /\ job'[q].on \in Procs
             /\ job'[job'[q].on].pc \in Builds \union {"installed"}
  <2>1. job'[q] = job[q]
    BY <1>2, <1>4
  <2>2. /\ job[q].on \in Procs
        /\ job[job[q].on].pc \in Builds \union {"installed"}
    BY <1>4, <2>1, AttendedMeans
  <2>3. job[q].on # p
    BY <1>1, <2>2 DEF Builds
  <2>. QED
    BY <1>2, <2>1, <2>2, <2>3
<1>. QED
  BY <1>3, <1>4, AttendedNext

\* A lookup that comes to wait finds its builder at work.
LEMMA AwaitAttended ==
  ASSUME TypeOK, BuildInv, NEW p \in Procs, Await(p)
  PROVE  BuildInv'
<1>1. /\ job[p].folder \in Folders /\ slot[job[p].folder].tag = "building"
      /\ slot' = slot /\ job[p].pc = "step"
  BY JobTypes DEF Await, At
<1>2. /\ job'[p].pc = "waiting" /\ job'[p].on = slot[job[p].folder].by
      /\ \A q \in Procs \ {p} : job'[q] = job[q]
  BY LookupMoves DEF Moves
<1>3. /\ slot[job[p].folder].by \in Procs
      /\ job[slot[job[p].folder].by].pc \in Builds
  BY <1>1, AttendedMeans
<1>4. ASSUME NEW f \in Folders, slot'[f].tag = "building"
      PROVE  /\ slot'[f].by \in Procs /\ slot'[f] = Building(slot'[f].by)
             /\ job'[slot'[f].by].pc \in Builds /\ job'[slot'[f].by].folder = f
  <2>1. /\ slot[f].by \in Procs /\ slot[f] = Building(slot[f].by)
        /\ job[slot[f].by].pc \in Builds /\ job[slot[f].by].folder = f
    BY <1>1, <1>4, AttendedMeans
  <2>2. job'[slot[f].by] = job[slot[f].by]
    BY <1>1, <1>2, <2>1 DEF Builds
  <2>. QED
    BY <1>1, <2>1, <2>2
<1>5. ASSUME NEW q \in Procs, job'[q].pc = "waiting"
      PROVE  /\ job'[q].on \in Procs
             /\ job'[job'[q].on].pc \in Builds \union {"installed"}
  <2>1. job'[q].on \in Procs /\ job[job'[q].on].pc \in Builds \union {"installed"}
    <3>1. CASE q = p
      BY <1>2, <1>3, <3>1
    <3>2. CASE q # p
      <4>1. job'[q] = job[q]
        BY <1>2, <3>2
      <4>. QED
        BY <1>5, <4>1, AttendedMeans
    <3>. QED
      BY <3>1, <3>2
  <2>2. job'[q].on # p
    BY <1>1, <2>1 DEF Builds
  <2>. QED
    BY <1>2, <2>1, <2>2
<1>. QED
  BY <1>4, <1>5, AttendedNext

\* A build that goes on keeps its placeholder; one that installs its outcome has none.
LEMMA BuilderAttended ==
  ASSUME TypeOK, BuildInv, NEW p \in Procs, NEW pc,
         Moves(p, {pc}), job[p].pc \in Builds,
         \/ pc \in Builds /\ job'[p].folder = job[p].folder
         \/ pc = "installed" /\ \A f \in Folders : slot'[f].tag = "building" => slot'[f].by # p,
         \A f \in Folders : slot'[f].tag = "building" => slot'[f] = slot[f]
  PROVE  BuildInv'
<1>1. /\ job'[p].pc = pc /\ pc \in Builds \union {"installed"} /\ pc # "waiting"
      /\ \A q \in Procs \ {p} : job'[q] = job[q]
  BY DEF Moves, Builds
<1>2. ASSUME NEW f \in Folders, slot'[f].tag = "building"
      PROVE  /\ slot'[f].by \in Procs /\ slot'[f] = Building(slot'[f].by)
             /\ job'[slot'[f].by].pc \in Builds /\ job'[slot'[f].by].folder = f
  <2>1. slot'[f] = slot[f]
    BY <1>2
  <2>2. /\ slot[f].by \in Procs /\ slot[f] = Building(slot[f].by)
        /\ job[slot[f].by].pc \in Builds /\ job[slot[f].by].folder = f
    BY <1>2, <2>1, AttendedMeans
  <2>3. slot[f].by = p => pc \in Builds /\ job'[p].folder = job[p].folder
    BY <1>2, <2>1
  <2>. QED
    BY <1>1, <2>1, <2>2, <2>3
<1>3. ASSUME NEW q \in Procs, job'[q].pc = "waiting"
      PROVE  /\ job'[q].on \in Procs
             /\ job'[job'[q].on].pc \in Builds \union {"installed"}
  <2>1. job'[q] = job[q]
    BY <1>1, <1>3
  <2>2. /\ job[q].on \in Procs
        /\ job[job[q].on].pc \in Builds \union {"installed"}
    BY <1>3, <2>1, AttendedMeans
  <2>. QED
    BY <1>1, <2>1, <2>2
<1>. QED
  BY <1>2, <1>3, AttendedNext

\* Whether or not the placeholder still stands, none of the fiber's is left.
LEMMA InstallAttended ==
  ASSUME TypeOK, BuildInv, NEW p \in Procs, Install(p)
  PROVE  BuildInv'
<1>. DEFINE g == job[p].folder
<1>1. job[p].pc \in Builds /\ g \in Folders /\ slot \in [Folders -> SlotType]
  BY JobTypes DEF Install, At, Builds, TypeOK
<1>2. \A f \in Folders : slot[f].tag = "building" /\ slot[f].by = p => f = g /\ StillBuilding(p)
  BY AttendedMeans DEF StillBuilding
<1>3. \/ slot' = slot /\ ~StillBuilding(p)
      \/ \E s : s.tag # "building" /\ slot' = [slot EXCEPT ![g] = s]
  <2>1. /\ Slot("failed").tag = "failed" /\ Slot("unbuilt").tag = "unbuilt"
        /\ \A r : Live(r).tag = "live"
    BY DEF Slot, Live
  <2>. QED
    BY <2>1 DEF Install, InstallFailure, Attach, InstallNew, StartOver
<1>4. \A f \in Folders : slot'[f].tag = "building" => slot'[f] = slot[f]
  BY <1>1, <1>3
<1>5. \A f \in Folders : slot'[f].tag = "building" => slot'[f].by # p
  BY <1>1, <1>2, <1>3
<1>. QED
  BY <1>1, <1>4, <1>5, LookupMoves, BuilderAttended

\* A build that is over leaves no placeholder of its own and nobody waiting for it.
LEMMA ReleasedAttended ==
  ASSUME TypeOK, BuildInv, NEW p \in Procs, NEW after \in Job, after.pc # "waiting",
         slot' = Reverted(p), job' = Released(p, after)
  PROVE  BuildInv'
<1>1. \A q \in Procs \ {p} : ~(job[q].pc = "waiting" /\ job[q].on = p) => job'[q] = job[q]
  BY ReleasedMoves DEF At
<1>2. ASSUME NEW f \in Folders, slot'[f].tag = "building"
      PROVE  /\ slot'[f].by \in Procs /\ slot'[f] = Building(slot'[f].by)
             /\ job'[slot'[f].by].pc \in Builds /\ job'[slot'[f].by].folder = f
  <2>1. slot'[f] = slot[f] /\ slot[f] # Building(p)
    BY <1>2 DEF Reverted, Slot
  <2>2. /\ slot[f].by \in Procs /\ slot[f] = Building(slot[f].by)
        /\ job[slot[f].by].pc \in Builds /\ job[slot[f].by].folder = f
    BY <1>2, <2>1, AttendedMeans
  <2>3. job'[slot[f].by] = job[slot[f].by]
    BY <1>1, <2>1, <2>2 DEF Builds
  <2>. QED
    BY <2>1, <2>2, <2>3
<1>3. ASSUME NEW q \in Procs, job'[q].pc = "waiting"
      PROVE  /\ job'[q].on \in Procs
             /\ job'[job'[q].on].pc \in Builds \union {"installed"}
  <2>1. q # p /\ ~(job[q].pc = "waiting" /\ job[q].on = p)
    BY <1>3, ReleasedMoves DEF At
  <2>2. job'[q] = job[q]
    BY <1>1, <2>1
  <2>3. /\ job[q].on \in Procs /\ job[q].on # p
        /\ job[job[q].on].pc \in Builds \union {"installed"}
    BY <1>3, <2>1, <2>2, AttendedMeans
  <2>4. job'[job[q].on] = job[job[q].on]
    BY <1>1, <2>3 DEF Builds
  <2>. QED
    BY <2>2, <2>3, <2>4
<1>. QED
  BY <1>2, <1>3, AttendedNext

LEMMA LookupAttended ==
  ASSUME TypeOK, BuildInv, NEW p \in Procs, LookupStep(p)
  PROVE  BuildInv'
<1>1. CASE Answer(p)
  BY <1>1, LookupMoves, BuildFrame DEF Answer, At, Builds
<1>2. CASE Await(p)
  BY <1>2, AwaitAttended
<1>3. CASE Begin(p)
  BY <1>3, BeginAttended
<1>4. CASE Resolve(p)
  <2>1. slot' = slot /\ job[p].pc \in Builds /\ "resolved" \in Builds
    BY <1>4 DEF Resolve, At, Builds
  <2>. QED
    BY <1>4, <2>1, LookupMoves, BuilderAttended
<1>5. CASE Make(p)
  <2>1. slot' = slot /\ job[p].pc \in Builds /\ "made" \in Builds
    BY <1>5 DEF Make, At, Builds
  <2>. QED
    BY <1>5, <2>1, LookupMoves, BuilderAttended
<1>6. CASE Install(p)
  BY <1>6, InstallAttended
<1>7. CASE Release(p)
  <2>. DEFINE after == [Done EXCEPT !.pc = "step", !.folder = job[p].folder, !.left = job[p].left]
  <2>1. [Done EXCEPT !.pc = "step"] \in Job
    BY DoneType, JobFields DEF PC
  <2>2. [Done EXCEPT !.pc = "step", !.folder = job[p].folder] \in Job
    BY <2>1, JobTypes, JobFields
  <2>3. after \in Job /\ after.pc = "step"
    <3>1. after \in Job
      BY <2>2, JobTypes, JobFields
    <3>. QED
      BY <3>1 DEF Done
  <2>4. slot' = Reverted(p) /\ job' = Released(p, after)
    BY <1>7 DEF Release
  <2>. HIDE DEF after
  <2>. QED
    BY <2>3, <2>4, ReleasedAttended
<1>. QED
  BY <1>1, <1>2, <1>3, <1>4, <1>5, <1>6, <1>7 DEF LookupStep

LEMMA RebuildAttended ==
  ASSUME TypeOK, BuildInv, NEW p \in Procs, RebuildStep(p)
  PROVE  BuildInv'
<1>1. job[p].pc \notin Builds \union {"installed"}
  BY DEF RebuildStep, ReadEntry, ReResolve, MakeFresh, Swap, ReadFailed, Pick, At, Builds
<1>2. \A f \in Folders : slot'[f].tag = "building" => slot'[f] = slot[f]
  <2>1. CASE Swap(p)
    <3>1. \A c : Reslotted(c).tag # "building"
      BY DEF Reslotted, Slot, Live
    <3>. QED
      BY <2>1, <3>1 DEF Swap
  <2>. QED
    BY <2>1 DEF RebuildStep, ReadEntry, ReResolve, MakeFresh, ReadFailed, Pick
<1>3. \/ Moves(p, {"reading", "rebuilding"}) \/ Moves(p, {"reading"}) \/ Moves(p, {"swapping"})
      \/ Moves(p, {"disposing"}) \/ Moves(p, {"picking"}) \/ Moves(p, {"done", "step"})
  BY RebuildMoves DEF RebuildStep
<1>. QED
  BY <1>1, <1>2, <1>3, BuildFrame

LEMMA DisposeAttended ==
  ASSUME TypeOK, BuildInv, NEW p \in Procs, DisposeStep(p)
  PROVE  BuildInv'
<1>1. job[p].pc \notin Builds \union {"installed"}
  BY DEF DisposeStep, CloseScope, OnDispose, Disposed, At, Builds
<1>2. \A f \in Folders : slot'[f].tag = "building" => slot'[f] = slot[f]
  <2>1. CASE slot' = slot
    BY <2>1
  <2>2. CASE slot' # slot
    <3>1. slot' = [f \in Folders |-> IF f \in job[p].adding /\ slot[f].tag = "absent"
                                     THEN Slot("unbuilt") ELSE slot[f]]
      BY <2>2 DEF DisposeStep, CloseScope, OnDispose, Disposed
    <3>. QED
      BY <3>1 DEF Slot
  <2>. QED
    BY <2>1, <2>2
<1>3. Moves(p, {"disposing"}) \/ Moves(p, {"rebuilding", "done"})
  BY DisposeMoves DEF DisposeStep
<1>. QED
  BY <1>1, <1>2, <1>3, BuildFrame

LEMMA StartAttended ==
  ASSUME TypeOK, BuildInv, NEW p \in Procs, Start(p)
  PROVE  BuildInv'
<1>1. job[p].pc \notin Builds \union {"installed"}
  BY DEF Start, Lookup, Watch, ChangeFolders, Report, At, Builds
<1>2. \A f \in Folders : slot'[f].tag = "building" => slot'[f] = slot[f]
  <2>1. CASE \E removed, added \in SUBSET Folders : ChangeFolders(p, removed, added)
    <3>1. PICK removed \in SUBSET Folders :
            slot' = [g \in Folders |-> IF g \in removed THEN Slot("absent") ELSE slot[g]]
      BY <2>1 DEF ChangeFolders
    <3>. QED
      BY <3>1 DEF Slot
  <2>2. CASE ~ \E removed, added \in SUBSET Folders : ChangeFolders(p, removed, added)
    BY <2>2 DEF Start, Lookup, Watch, Report
  <2>. QED
    BY <2>1, <2>2
<1>3. Moves(p, {"step"}) \/ Moves(p, {"rebuilding"}) \/ Moves(p, {"disposing"})
  <2>1. /\ \A r \in Roots : {r} \in SUBSET Roots
        /\ {} \in SUBSET Roots /\ {} \in SUBSET Folders
        /\ LiveRoots \in SUBSET Roots /\ dirty \in SUBSET Folders
    BY DEF LiveRoots, TypeOK
  <2>. QED
    BY <2>1, StartMoves DEF Start, Report
<1>. QED
  BY <1>1, <1>2, <1>3, BuildFrame

LEMMA BuildInit == Init => BuildInv
BY DEF Init, BuildInv, PlaceholderKnown, BuilderAtWork, Tagged, Slot, Done, At

LEMMA BuildStep == CountInv /\ BuildInv /\ [Next]_vars => BuildInv'
<1>. SUFFICES ASSUME CountInv, BuildInv, [Next]_vars
              PROVE  BuildInv'
  OBVIOUS
<1>1. TypeOK
  BY DEF CountInv
<1>2. CASE UNCHANGED <<slot, job>>
  BY <1>2, AttendedMeans, AttendedNext
<1>3. ASSUME NEW p \in Procs, Interrupt(p)
      PROVE  BuildInv'
  <2>1. Done \in Job /\ Done.pc # "waiting"
    BY DoneType DEF Done
  <2>. QED
    BY <1>1, <1>3, <2>1, ReleasedAttended DEF Interrupt
<1>. QED
  BY <1>1, <1>2, <1>3, LookupAttended, RebuildAttended, DisposeAttended, StartAttended
     DEF Next, Step, vars, EditConfig

\* No folder is left building by nobody and nobody awaits a build that is over, however
\* builds are interrupted and whatever removes or re-slots their folders meanwhile.
THEOREM BuilderNeverLost == Spec => []BuilderAtWork
<1>1. BuildInv => BuilderAtWork
  BY DEF BuildInv
<1>. QED
  BY <1>1, CountInit, CountStep, BuildInit, BuildStep, PTL DEF Spec

-----------------------------------------------------------------------------
(***************************************************************************)
(* Every open session has one owner.                                       *)
(***************************************************************************)
\* What the invariant says of one session and of one fiber.
Owned(h) == /\ session[h] <=> h \in Installed \/ \E p \in Procs : h \in InHand(p)
            /\ \A p \in Procs : ~(h \in Installed /\ h \in InHand(p))
            /\ \A p, q \in Procs : h \in InHand(p) /\ h \in InHand(q) => p = q
EntriesApart == \A q, r \in LiveRoots : entry[q].handle = entry[r].handle => q = r
Tidy(p) == /\ Fresh(p) \intersect job[p].doomed = {}
           /\ job[p].telling # NoHandle => ~session[job[p].telling]

LEMMA HandTypes ==
  ASSUME TypeOK, EntryKnown
  PROVE  /\ Installed \subseteq Handles
         /\ \A p \in Procs : InHand(p) \subseteq Handles /\ Fresh(p) \subseteq Handles
<1>1. Installed \subseteq Handles
  BY DEF Installed, LiveRoots, EntryKnown
<1>2. \A p \in Procs : InHand(p) \subseteq Handles /\ Fresh(p) \subseteq Handles
  BY JobTypes DEF InHand, Fresh, HandleOption
<1>. QED
  BY <1>1, <1>2

LEMMA OwnerMeans ==
  ASSUME Known, OneOwner
  PROVE  /\ \A h \in Handles : Owned(h)
         /\ EntriesApart
         /\ \A p \in Procs : Tidy(p)
<1>1. ASSUME NEW h \in Handles
      PROVE  Owned(h)
  <2>1. session[h] <=> h \in Installed \/ \E p \in Procs : h \in InHand(p)
    BY DEF OneOwner
  <2>2. \A p \in Procs : ~(h \in Installed /\ h \in InHand(p))
    BY DEF OneOwner
  <2>3. \A p, q \in Procs : h \in InHand(p) /\ h \in InHand(q) => p = q
    BY DEF OneOwner
  <2>. QED
    BY <2>1, <2>2, <2>3 DEF Owned
<1>2. EntriesApart /\ \A p \in Procs : Tidy(p)
  BY DEF OneOwner, EntriesApart, Tidy
<1>. QED
  BY <1>1, <1>2

LEMMA OwnerNext ==
  ASSUME Known', \A h \in Handles : Owned(h)', EntriesApart', \A p \in Procs : Tidy(p)'
  PROVE  OneOwner'
<1>1. Installed' \subseteq Handles /\ \A p \in Procs : InHand(p)' \subseteq Handles
  <2>1. Installed' \subseteq Handles
    BY DEF Installed, LiveRoots, EntryKnown, Known
  <2>2. ASSUME NEW p \in Procs
        PROVE  InHand(p)' \subseteq Handles
    <3>1. job'[p] \in Job
      BY DEF Known, TypeOK
    <3>2. job'[p].fresh \in [Roots -> HandleOption] /\ job'[p].doomed \in SUBSET Handles
      BY <3>1 DEF Job
    <3>. QED
      BY <3>2 DEF InHand, Fresh, HandleOption
  <2>. QED
    BY <2>1, <2>2
<1>2. {h \in Handles : session[h]}' = Installed' \union UNION {InHand(p)' : p \in Procs}
  BY <1>1 DEF Owned
<1>3. \A p \in Procs : InHand(p)' \intersect Installed' = {}
  BY <1>1 DEF Owned
<1>4. \A p, q \in Procs : p # q => InHand(p)' \intersect InHand(q)' = {}
  BY <1>1 DEF Owned
<1>. QED
  BY <1>2, <1>3, <1>4 DEF OneOwner, EntriesApart, Tidy

\* The other fibers stay as they are, but for those that awaited p's build.
Rest(p) ==
  \A q \in Procs \ {p} :
    \/ job'[q] = job[q]
    \/ /\ job[q].pc = "waiting" /\ job'[q].pc = "step"
       /\ job'[q].fresh = job[q].fresh /\ job'[q].doomed = job[q].doomed
       /\ job'[q].telling = job[q].telling

LEMMA RestHands ==
  ASSUME NEW p \in Procs, Rest(p), OwnerKnown
  PROVE  \A q \in Procs \ {p} : /\ InHand(q)' = InHand(q) /\ Fresh(q)' = Fresh(q)
                                /\ job'[q].doomed = job[q].doomed
                                /\ job'[q].telling = job[q].telling
                                /\ HandKnown(q)'
<1>. SUFFICES ASSUME NEW q \in Procs \ {p}
              PROVE  /\ InHand(q)' = InHand(q) /\ Fresh(q)' = Fresh(q)
                     /\ job'[q].doomed = job[q].doomed /\ job'[q].telling = job[q].telling
                     /\ HandKnown(q)'
  OBVIOUS
<1>1. /\ job'[q].fresh = job[q].fresh /\ job'[q].doomed = job[q].doomed
      /\ job'[q].telling = job[q].telling
  BY DEF Rest
<1>2. HandKnown(q)'
  <2>1. CASE job'[q] = job[q]
    BY <2>1 DEF OwnerKnown, HandKnown, Resolved, At
  <2>2. CASE job[q].pc = "waiting" /\ job'[q].pc = "step"
    BY <1>1, <2>2 DEF OwnerKnown, HandKnown, At
  <2>. QED
    BY <2>1, <2>2 DEF Rest
<1>. QED
  BY <1>1, <1>2 DEF InHand, Fresh

\* Sessions change hands between a fiber and the registry, new ones come to them and
\* closed ones leave them.
LEMMA OwnersNext ==
  ASSUME Known, OneOwner, OwnerKnown, Known', NEW p \in Procs, Rest(p),
         \A h \in Handles : h \in Installed' \/ h \in InHand(p)' =>
                              h \in Installed \/ h \in InHand(p) \/ ~session[h],
         \A h \in Handles : session'[h] <=> \/ h \in Installed' \/ h \in InHand(p)'
                                            \/ \E q \in Procs \ {p} : h \in InHand(q),
         \A h \in Handles : ~(h \in Installed' /\ h \in InHand(p)'),
         Fresh(p)' \intersect job'[p].doomed = {},
         EntriesApart',
         \A q \in Procs : job'[q].telling # NoHandle => ~session'[job'[q].telling],
         HandKnown(p)'
  PROVE  OwnerInv'
<1>1. \A h \in Handles : Owned(h)
  BY OwnerMeans
<1>2. \A q \in Procs \ {p} : InHand(q)' = InHand(q) /\ HandKnown(q)'
  BY RestHands
<1>3. ASSUME NEW h \in Handles
      PROVE  Owned(h)'
  <2>1. \A q \in Procs \ {p} : h \in InHand(q) => ~(h \in Installed') /\ ~(h \in InHand(p)')
    BY <1>1 DEF Owned
  <2>2. session'[h] <=> h \in Installed' \/ \E q \in Procs : h \in InHand(q)'
    BY <1>2
  <2>3. \A q \in Procs : ~(h \in Installed' /\ h \in InHand(q)')
    BY <1>2, <2>1
  <2>4. \A q, r \in Procs : h \in InHand(q)' /\ h \in InHand(r)' => q = r
    <3>1. \A q, r \in Procs \ {p} : h \in InHand(q)' /\ h \in InHand(r)' => q = r
      BY <1>1, <1>2 DEF Owned
    <3>. QED
      BY <1>2, <2>1, <3>1
  <2>. QED
    BY <2>2, <2>3, <2>4 DEF Owned
<1>4. \A q \in Procs : Tidy(q)'
  BY RestHands, OwnerMeans DEF Tidy
<1>5. OneOwner'
  BY <1>3, <1>4, OwnerNext
<1>. QED
  BY <1>2, <1>5 DEF OwnerInv, OwnerKnown

\* The fiber moves on with what it holds.
LEMMA HoldingsKept ==
  ASSUME Known, OwnerInv, Known', NEW p \in Procs, Rest(p),
         entry' = entry, session' = session,
         job'[p].fresh = job[p].fresh, job'[p].doomed = job[p].doomed,
         job'[p].telling \in {job[p].telling, NoHandle}, HandKnown(p)'
  PROVE  OwnerInv'
<1>1. Installed' = Installed /\ InHand(p)' = InHand(p) /\ Fresh(p)' = Fresh(p)
  BY DEF Installed, LiveRoots, HasEntry, InHand, Fresh
<1>2. EntriesApart' <=> EntriesApart
  BY DEF EntriesApart, LiveRoots, HasEntry
<1>3. /\ OneOwner /\ OwnerKnown
      /\ \A h \in Handles : Owned(h)
      /\ EntriesApart /\ \A q \in Procs : Tidy(q)
  BY OwnerMeans DEF OwnerInv
<1>4. \A q \in Procs : job'[q].telling # NoHandle => ~session'[job'[q].telling]
  BY <1>3, RestHands DEF Tidy
<1>5. \A h \in Handles : session'[h] <=> \/ h \in Installed' \/ h \in InHand(p)'
                                          \/ \E q \in Procs \ {p} : h \in InHand(q)
  BY <1>1, <1>3 DEF Owned
<1>6. \A h \in Handles : ~(h \in Installed' /\ h \in InHand(p)')
  BY <1>1, <1>3 DEF Owned
<1>7. Fresh(p)' \intersect job'[p].doomed = {}
  BY <1>1, <1>3 DEF Tidy
<1>. QED
  BY <1>1, <1>2, <1>3, <1>4, <1>5, <1>6, <1>7, OwnersNext

\* The sessions the fiber holds are discarded.
LEMMA HoldingsDiscarded ==
  ASSUME Known, OwnerInv, Known', NEW p \in Procs, Rest(p),
         entry' = entry, session' = [h \in Handles |-> session[h] /\ h \notin Fresh(p)],
         job[p].doomed = {}, job'[p].doomed = {}, job'[p].fresh = NothingFresh,
         job'[p].telling = NoHandle
  PROVE  OwnerInv'
<1>1. Installed' = Installed /\ InHand(p) = Fresh(p) /\ InHand(p)' = {} /\ Fresh(p)' = {}
  BY DEF Installed, LiveRoots, HasEntry, InHand, Fresh, NothingFresh
<1>2. EntriesApart' <=> EntriesApart
  BY DEF EntriesApart, LiveRoots, HasEntry
<1>3. /\ OneOwner /\ OwnerKnown
      /\ \A h \in Handles : Owned(h)
      /\ EntriesApart /\ \A q \in Procs : Tidy(q)
  BY OwnerMeans DEF OwnerInv
<1>4. \A q \in Procs : job'[q].telling # NoHandle => ~session'[job'[q].telling]
  <2>. SUFFICES ASSUME NEW q \in Procs, job'[q].telling # NoHandle
                PROVE  ~session'[job'[q].telling]
    OBVIOUS
  <2>1. q # p /\ job'[q].telling = job[q].telling
    BY <1>3, RestHands
  <2>2. job[q].telling \in Handles /\ ~session[job[q].telling]
    BY <1>3, <2>1, JobTypes DEF Tidy, Known, HandleOption
  <2>. QED
    BY <2>1, <2>2
<1>5. \A h \in Handles : session'[h] <=> \/ h \in Installed' \/ h \in InHand(p)'
                                          \/ \E q \in Procs \ {p} : h \in InHand(q)
  BY <1>1, <1>3 DEF Owned
<1>6. HandKnown(p)'
  BY DEF HandKnown, NothingFresh
<1>. QED
  BY <1>1, <1>2, <1>3, <1>4, <1>5, <1>6, OwnersNext

\* A fiber that held none makes sessions of unused identities, a different one for each
\* root it needs one for.
LEMMA HoldingsMade ==
  ASSUME Known, OwnerInv, Known', NEW p \in Procs, Rest(p),
         job[p].fresh = NothingFresh, job[p].doomed = {}, job[p].telling = NoHandle,
         NEW fresh \in [Roots -> HandleOption],
         \A r \in Roots : fresh[r] # NoHandle => Unused(fresh[r]),
         \A q, r \in Roots : fresh[q] = fresh[r] /\ fresh[q] # NoHandle => q = r,
         entry' = entry, \A h \in Handles : session'[h] <=> session[h] \/ \E r \in Roots : fresh[r] = h,
         job'[p].fresh = fresh, job'[p].doomed = {}, job'[p].telling = NoHandle, HandKnown(p)'
  PROVE  OwnerInv'
<1>1. /\ Installed' = Installed /\ InHand(p) = {} /\ Fresh(p) = {}
      /\ Fresh(p)' = {fresh[r] : r \in Roots} \ {NoHandle} /\ InHand(p)' = Fresh(p)'
  BY DEF Installed, LiveRoots, HasEntry, InHand, Fresh, NothingFresh
<1>2. EntriesApart' <=> EntriesApart
  BY DEF EntriesApart, LiveRoots, HasEntry
<1>3. /\ OneOwner /\ OwnerKnown
      /\ \A h \in Handles : Owned(h)
      /\ EntriesApart /\ \A q \in Procs : Tidy(q)
  BY OwnerMeans DEF OwnerInv
<1>4. \A h \in Fresh(p)' : h \in Handles /\ ~session[h] /\ \A q \in Procs : h # job[q].telling
  BY <1>1 DEF Unused, HandleOption
<1>5. \A h \in Handles : session'[h] <=> session[h] \/ h \in Fresh(p)'
  BY <1>1, RegistryAssumption DEF RegistryAssumption
<1>6. \A q \in Procs : job'[q].telling # NoHandle => ~session'[job'[q].telling]
  <2>. SUFFICES ASSUME NEW q \in Procs, job'[q].telling # NoHandle
                PROVE  ~session'[job'[q].telling]
    OBVIOUS
  <2>1. q # p /\ job'[q].telling = job[q].telling
    BY <1>3, RestHands
  <2>2. job[q].telling \in Handles /\ ~session[job[q].telling]
    BY <1>3, <2>1, JobTypes DEF Tidy, Known, HandleOption
  <2>. QED
    BY <1>4, <1>5, <2>1, <2>2
<1>7. \A h \in Handles : session'[h] <=> \/ h \in Installed' \/ h \in InHand(p)'
                                          \/ \E q \in Procs \ {p} : h \in InHand(q)
  BY <1>1, <1>3, <1>5 DEF Owned
<1>8. \A h \in Handles : ~(h \in Installed' /\ h \in InHand(p)')
  BY <1>1, <1>3, <1>4 DEF Owned
<1>9. \A h \in Handles : h \in Installed' \/ h \in InHand(p)' =>
                            h \in Installed \/ h \in InHand(p) \/ ~session[h]
  BY <1>1, <1>4
<1>. QED
  BY <1>1, <1>2, <1>3, <1>6, <1>7, <1>8, <1>9, OwnersNext

\* Sessions change hands between the fiber and the registry; none is opened or closed.
LEMMA HoldingsPassed ==
  ASSUME Known, OwnerInv, Known', NEW p \in Procs, Rest(p), session' = session,
         Installed' \union InHand(p)' = Installed \union InHand(p),
         Installed' \intersect InHand(p)' = {},
         Fresh(p)' \intersect job'[p].doomed = {}, EntriesApart',
         job'[p].telling \in {job[p].telling, NoHandle}, HandKnown(p)'
  PROVE  OwnerInv'
<1>1. /\ OneOwner /\ OwnerKnown
      /\ \A h \in Handles : Owned(h)
      /\ \A q \in Procs : Tidy(q)
  BY OwnerMeans DEF OwnerInv
<1>2. \A q \in Procs : job'[q].telling # NoHandle => ~session'[job'[q].telling]
  BY <1>1, RestHands DEF Tidy
<1>3. \A h \in Handles : h \in Installed' \/ h \in InHand(p)' <=> h \in Installed \/ h \in InHand(p)
  OBVIOUS
<1>4. \A h \in Handles : session'[h] <=> \/ h \in Installed' \/ h \in InHand(p)'
                                          \/ \E q \in Procs \ {p} : h \in InHand(q)
  BY <1>1, <1>3 DEF Owned
<1>5. \A h \in Handles : ~(h \in Installed' /\ h \in InHand(p)')
  OBVIOUS
<1>. QED
  BY <1>1, <1>2, <1>3, <1>4, <1>5, OwnersNext

\* A step that only moves the fiber on.
LEMMA MovesOn ==
  ASSUME Known, OwnerInv, Known', NEW p \in Procs, NEW pcs, Moves(p, pcs),
         entry' = entry, session' = session,
         job'[p].fresh = job[p].fresh, job'[p].doomed = job[p].doomed,
         job'[p].telling \in {job[p].telling, NoHandle}, HandKnown(p)'
  PROVE  OwnerInv'
BY HoldingsKept DEF Moves, Rest

\* A step from a fiber that holds nothing to one that holds nothing.
LEMMA EmptyHanded ==
  ASSUME Known, OwnerInv, Known', NEW p \in Procs, NEW pcs, Moves(p, pcs),
         entry' = entry, session' = session,
         job[p].pc \notin {"made", "installed", "swapping", "disposing"},
         job'[p].fresh \in {NothingFresh, job[p].fresh},
         job'[p].doomed \in {{}, job[p].doomed}, job'[p].telling \in {NoHandle, job[p].telling}
  PROVE  OwnerInv'
<1>1. job[p].fresh = NothingFresh /\ job[p].doomed = {} /\ job[p].telling = NoHandle
  BY DEF OwnerInv, OwnerKnown, HandKnown, At
<1>2. HandKnown(p)'
  BY <1>1 DEF HandKnown, NothingFresh
<1>. QED
  BY <1>1, <1>2, MovesOn

LEMMA DoneHand == Done.fresh = NothingFresh /\ Done.doomed = {} /\ Done.telling = NoHandle
BY DEF Done

LEMMA MakeOwned ==
  ASSUME Known, OwnerInv, Known', NEW p \in Procs, Make(p)
  PROVE  OwnerInv'
<1>0. /\ TypeOK /\ job[p].fresh = NothingFresh /\ job[p].doomed = {} /\ job[p].telling = NoHandle
      /\ Moves(p, {"made"}) /\ Rest(p) /\ entry' = entry
  BY LookupMoves DEF Known, OwnerInv, OwnerKnown, HandKnown, Make, At, Moves, Rest
<1>1. CASE Resolved(p) \in Roots \ LiveRoots
  <2>. DEFINE r == Resolved(p)
  <2>1. PICK h \in Handles :
          /\ Unused(h)
          /\ session' = [session EXCEPT ![h] = TRUE]
          /\ job' = [job EXCEPT ![p] = [job[p] EXCEPT !.pc = "made", !.fresh[r] = h]]
    BY <1>1 DEF Make
  <2>. DEFINE fresh == [NothingFresh EXCEPT ![r] = h]
  <2>2. /\ job'[p].fresh = fresh /\ job'[p].doomed = {} /\ job'[p].telling = NoHandle
        /\ job'[p].conf = job[p].conf /\ job'[p].folder = job[p].folder
        /\ job'[p].pc = "made"
    <3>1. job[p] \in Job /\ job \in [Procs -> Job]
      BY <1>0, JobTypes DEF TypeOK
    <3>. QED
      BY <1>0, <2>1, <3>1 DEF Job
  <2>3. /\ fresh \in [Roots -> HandleOption] /\ fresh[r] = h
        /\ \A q \in Roots : q # r => fresh[q] = NoHandle
    BY <1>1 DEF NothingFresh, HandleOption
  <2>. HIDE DEF fresh
  <2>4. \A q \in Handles : session'[q] <=> session[q] \/ \E s \in Roots : fresh[s] = q
    BY <1>1, <2>1, <2>3, RegistryAssumption DEF RegistryAssumption, Known, TypeOK
  <2>5. Resolved(p)' = r
    BY <2>2 DEF Resolved
  <2>6. HandKnown(p)'
    BY <2>2, <2>3, <2>5 DEF HandKnown
  <2>. QED
    BY <1>0, <2>1, <2>2, <2>3, <2>4, <2>6, HoldingsMade
<1>2. CASE Resolved(p) \notin Roots \ LiveRoots
  <2>1. job[p] \in Job /\ job' = [job EXCEPT ![p].pc = "made"] /\ session' = session
    BY <1>0, <1>2, JobTypes DEF Make, Goto
  <2>2. job'[p].fresh = job[p].fresh /\ job'[p].doomed = job[p].doomed /\ job'[p].telling = job[p].telling
    BY <2>1 DEF Known, TypeOK, Job
  <2>. QED
    BY <1>0, <2>1, <2>2, EmptyHanded DEF Make, At
<1>. QED
  BY <1>1, <1>2

LEMMA MakeFreshOwned ==
  ASSUME Known, OwnerInv, Known', NEW p \in Procs, MakeFresh(p)
  PROVE  OwnerInv'
<1>0. /\ TypeOK /\ job[p].fresh = NothingFresh /\ job[p].doomed = {} /\ job[p].telling = NoHandle
      /\ Moves(p, {"swapping"}) /\ Rest(p) /\ entry' = entry
  BY RebuildMoves DEF Known, OwnerInv, OwnerKnown, HandKnown, MakeFresh, At, Moves, Rest
<1>1. PICK fresh \in [Roots -> {h \in Handles : Unused(h)} \union {NoHandle}] :
        /\ \A r \in Roots : fresh[r] # NoHandle <=> r \in ResolvedRoots(p)
        /\ \A q, r \in ResolvedRoots(p) : fresh[q] = fresh[r] => q = r
        /\ session' = [h \in Handles |-> session[h] \/ \E r \in Roots : fresh[r] = h]
        /\ job' = [job EXCEPT ![p] = [job[p] EXCEPT !.pc = "swapping", !.fresh = fresh]]
  BY DEF MakeFresh
<1>2. /\ job'[p].fresh = fresh /\ job'[p].doomed = {} /\ job'[p].telling = NoHandle
      /\ job'[p].pc = "swapping"
  <2>1. job[p] \in Job /\ job \in [Procs -> Job]
    BY <1>0, JobTypes DEF TypeOK
  <2>. QED
    BY <1>0, <1>1, <2>1 DEF Job
<1>3. /\ fresh \in [Roots -> HandleOption]
      /\ \A r \in Roots : fresh[r] # NoHandle => Unused(fresh[r])
      /\ \A q, r \in Roots : fresh[q] = fresh[r] /\ fresh[q] # NoHandle => q = r
  BY <1>1 DEF HandleOption
<1>4. HandKnown(p)'
  BY <1>2, <1>3 DEF HandKnown, At
<1>5. \A h \in Handles : session'[h] <=> session[h] \/ \E r \in Roots : fresh[r] = h
  BY <1>1
<1>. QED
  BY <1>0, <1>2, <1>3, <1>4, <1>5, HoldingsMade

\* The outcome of a build is installed with the session made for it, or not.
LEMMA InstallOwned ==
  ASSUME Known, OwnerInv, Known', NEW p \in Procs, Install(p)
  PROVE  OwnerInv'
<1>. DEFINE f == job[p].folder
            r == Resolved(p)
            h == IF r \in Roots THEN job[p].fresh[r] ELSE NoHandle
<1>0. /\ TypeOK /\ Moves(p, {"installed"}) /\ Rest(p) /\ session' = session
      /\ OneOwner /\ HandKnown(p) /\ h \in HandleOption /\ job[p].pc = "made"
      /\ entry \in [Roots -> EntryType] /\ job[p].fresh \in [Roots -> HandleOption]
  <2>1. TypeOK /\ OneOwner /\ HandKnown(p) /\ job[p].pc = "made" /\ session' = session
    BY DEF Known, OwnerInv, OwnerKnown, Install, At
  <2>2. Moves(p, {"installed"}) /\ Rest(p)
    BY <2>1, LookupMoves DEF Moves, Rest
  <2>3. job[p].fresh \in [Roots -> HandleOption] /\ entry \in [Roots -> EntryType]
    BY <2>1, JobTypes DEF TypeOK
  <2>. QED
    BY <2>1, <2>2, <2>3 DEF HandleOption
<1>1. /\ job'[p].fresh = IF r \in Roots /\ entry'[r].handle = h THEN NothingFresh ELSE job[p].fresh
      /\ job'[p].doomed = job[p].doomed /\ job'[p].telling = job[p].telling
      /\ job'[p].conf = job[p].conf /\ job'[p].folder = job[p].folder /\ job'[p].pc = "installed"
  <2>1. job[p] \in Job /\ job \in [Procs -> Job]
    BY <1>0, JobTypes DEF TypeOK
  <2>. DEFINE fr == IF r \in Roots /\ entry'[r].handle = h THEN NothingFresh ELSE job[p].fresh
  <2>2. job' = [job EXCEPT ![p] = [job[p] EXCEPT !.pc = "installed", !.fresh = fr]]
    BY DEF Install
  <2>. HIDE DEF fr
  <2>3. /\ job'[p].fresh = fr /\ job'[p].doomed = job[p].doomed /\ job'[p].telling = job[p].telling
        /\ job'[p].conf = job[p].conf /\ job'[p].folder = job[p].folder /\ job'[p].pc = "installed"
    BY <2>1, <2>2 DEF Job
  <2>. QED
    BY <2>3 DEF fr
<1>2. /\ \A q \in Roots : q # r => job[p].fresh[q] = NoHandle
      /\ h = NoHandle => job[p].fresh = NothingFresh
      /\ job[p].doomed = {} /\ job[p].telling = NoHandle
  BY <1>0 DEF HandKnown, NothingFresh, At
<1>3. HandKnown(p)'
  <2>1. Resolved(p)' = r
    BY <1>1 DEF Resolved
  <2>. QED
    BY <1>1, <1>2, <2>1 DEF HandKnown, NothingFresh
<1>4. h \in Handles => \A q \in Roots : entry[q].handle # h
  <2>. SUFFICES ASSUME h \in Handles, NEW q \in Roots, entry[q].handle = h
                PROVE  FALSE
    OBVIOUS
  <2>1. q \in LiveRoots /\ h \in Installed
    BY RegistryAssumption DEF RegistryAssumption, LiveRoots, HasEntry, NoEntry, Installed
  <2>2. h \in InHand(p)
    BY RegistryAssumption DEF RegistryAssumption, InHand, Fresh
  <2>. QED
    BY <1>0, <2>1, <2>2 DEF OneOwner
<1>. HIDE DEF f, h, r
<1>5. CASE entry' = entry
  <2>1. job'[p].fresh = job[p].fresh
    BY <1>0, <1>1, <1>2, <1>4, <1>5 DEF HandleOption
  <2>. QED
    BY <1>0, <1>1, <1>3, <1>5, <2>1, MovesOn
<1>6. CASE r \in Roots /\ Attach(f, r)
  <2>1. /\ \A q \in Roots : entry'[q].handle = entry[q].handle
        /\ LiveRoots' = LiveRoots
    <3>1. HasEntry(r) /\ entry' = [entry EXCEPT ![r].folders = @ \union {f}]
      BY <1>6 DEF Attach
    <3>2. \A q \in Roots : entry'[q].handle = entry[q].handle
      BY <1>0, <3>1 DEF EntryType
    <3>3. entry[r].handle \in Handles
      BY <1>6, <3>1 DEF Known, EntryKnown
    <3>4. \A q \in Roots : HasEntry(q)' <=> HasEntry(q)
      <4>1. \A q \in Roots : q # r => entry'[q] = entry[q]
        BY <1>0, <3>1
      <4>2. entry'[r] # NoEntry
        BY <1>6, <3>2, <3>3, RegistryAssumption DEF RegistryAssumption, NoEntry
      <4>. QED
        BY <3>1, <4>1, <4>2 DEF HasEntry
    <3>. QED
      BY <3>2, <3>4 DEF LiveRoots
  <2>2. job'[p].fresh = job[p].fresh
    BY <1>0, <1>1, <1>2, <1>4, <1>6, <2>1 DEF HandleOption
  <2>3. Installed' = Installed /\ InHand(p)' = InHand(p) /\ Fresh(p)' = Fresh(p)
    BY <1>1, <2>1, <2>2 DEF Installed, InHand, Fresh, LiveRoots
  <2>4. EntriesApart'
    BY <1>0, <2>1 DEF OneOwner, EntriesApart, LiveRoots
  <2>. QED
    BY <1>0, <1>1, <1>2, <1>3, <2>3, <2>4, HoldingsPassed DEF OneOwner
<1>7. CASE r \in Roots /\ InstallNew(f, r, h)
  <2>1. /\ h \in Handles /\ ~HasEntry(r)
        /\ entry' = [entry EXCEPT ![r] = [handle |-> h, folders |-> {f}]]
    BY <1>0, <1>7 DEF InstallNew, HandleOption
  <2>2. /\ entry'[r].handle = h /\ entry'[r] # NoEntry
        /\ \A q \in Roots : q # r => entry'[q] = entry[q]
    <3>1. entry'[r] = [handle |-> h, folders |-> {f}]
      BY <1>0, <1>7, <2>1
    <3>. QED
      BY <1>0, <2>1, <3>1 DEF NoEntry
  <2>3. job'[p].fresh = NothingFresh
    BY <1>1, <1>7, <2>2
  <2>4. Fresh(p) = {h} /\ Fresh(p)' = {} /\ InHand(p) = {h} /\ InHand(p)' = {}
    <3>1. Fresh(p) = {h}
      BY <1>2, <1>7, <2>1, RegistryAssumption DEF RegistryAssumption, Fresh, h
    <3>. QED
      BY <1>1, <1>2, <2>3, <3>1 DEF Fresh, InHand, NothingFresh
  <2>5. LiveRoots' = LiveRoots \union {r} /\ r \notin LiveRoots
    BY <1>7, <2>1, <2>2 DEF LiveRoots, HasEntry
  <2>6. Installed' = Installed \union {h}
    <3>1. \A q \in LiveRoots : entry'[q].handle = entry[q].handle
      BY <2>2, <2>5 DEF LiveRoots
    <3>2. Installed' = {entry'[q].handle : q \in LiveRoots \union {r}}
      BY <2>5 DEF Installed
    <3>. QED
      BY <2>2, <3>1, <3>2 DEF Installed
  <2>7. EntriesApart'
    <3>1. \A q \in LiveRoots : q \in Roots /\ q # r /\ entry'[q].handle = entry[q].handle /\ entry[q].handle # h
      BY <1>4, <2>1, <2>2, <2>5 DEF LiveRoots
    <3>. QED
      BY <1>0, <2>2, <2>5, <3>1 DEF OneOwner, EntriesApart
  <2>. QED
    BY <1>0, <1>1, <1>2, <1>3, <2>4, <2>6, <2>7, HoldingsPassed
<1>. QED
  BY <1>5, <1>6, <1>7 DEF Install, InstallFailure, StartOver, f, r, h

\* The sessions of the entries that go, with the folders or by a swap, are the fiber's to
\* dispose; those of a swap that were not needed stay with it.
LEMMA SwapOwned ==
  ASSUME Known, OwnerInv, Known', NEW p \in Procs, Swap(p)
  PROVE  OwnerInv'
<1>0. /\ TypeOK /\ OneOwner /\ HandKnown(p) /\ session' = session
      /\ Moves(p, {"disposing"}) /\ Rest(p)
      /\ job[p].pc = "swapping" /\ job[p].doomed = {} /\ job[p].telling = NoHandle
  BY RebuildMoves DEF Known, OwnerInv, OwnerKnown, HandKnown, Swap, At, Moves, Rest
<1>1. /\ job[p] \in Job /\ job \in [Procs -> Job] /\ job[p].fresh \in [Roots -> HandleOption]
      /\ entry \in [Roots -> EntryType]
  BY <1>0, JobTypes DEF TypeOK
<1>2. CASE Stale(p)
  <2>1. job' = [job EXCEPT ![p].pc = "disposing"] /\ entry' = entry
    BY <1>2 DEF Swap, Goto
  <2>2. /\ job'[p].pc = "disposing" /\ job'[p].fresh = job[p].fresh
        /\ job'[p].doomed = job[p].doomed /\ job'[p].telling = job[p].telling
    BY <1>1, <2>1 DEF Job
  <2>3. HandKnown(p)'
    BY <1>0, <2>2 DEF HandKnown, At
  <2>. QED
    BY <1>0, <2>1, <2>2, <2>3, MovesOn
<1>3. CASE ~Stale(p)
  <2>. DEFINE old == job[p].root
              gone == entry[old].handle
              fresh == job[p].fresh
              left == [r \in Roots |-> IF fresh[r] = entry'[r].handle THEN NoHandle ELSE fresh[r]]
  <2>1. old \in Roots /\ gone \in Handles /\ old \in LiveRoots /\ gone \in Installed
    <3>1. old \in Roots /\ gone \in Handles
      BY <1>3, SwapCases
    <3>2. old \in LiveRoots
      BY <3>1, RegistryAssumption DEF RegistryAssumption, LiveRoots, HasEntry, NoEntry
    <3>. QED
      BY <3>1, <3>2 DEF Installed
  <2>2. /\ job'[p].pc = "disposing" /\ job'[p].doomed = {gone} /\ job'[p].telling = NoHandle
        /\ job'[p].fresh = left
    <3>1. job' = [job EXCEPT ![p] = [job[p] EXCEPT !.pc = "disposing", !.doomed = {gone},
                                                   !.fresh = left]]
      BY <1>3 DEF Swap
    <3>. HIDE DEF gone, left
    <3>. QED
      BY <1>0, <1>1, <3>1 DEF Job
  <2>3. ASSUME NEW r \in Roots
        PROVE  \/ r \notin LiveRoots' /\ entry'[r].handle = NoHandle
               \/ r \in LiveRoots' /\ r # old /\ r \in LiveRoots /\ entry'[r].handle = entry[r].handle
               \/ /\ r \in LiveRoots' /\ (r = old \/ r \notin LiveRoots)
                  /\ entry'[r].handle = fresh[r] /\ fresh[r] \in Handles
    <3>. DEFINE others == IF r = old THEN NoEntry ELSE entry[r]
    <3>1. Joining(p, r) # {} => fresh[r] \in Handles
      <4>1. Moving(p) \subseteq Folders
        BY <1>1, <2>1 DEF Moving, EntryType
      <4>2. Joining(p, r) # {} => r \in ResolvedRoots(p)
        BY <4>1 DEF Joining, ResolvedRoots
      <4>. QED
        BY <4>2, SwapCases
    <3>2. others # NoEntry <=> r # old /\ r \in LiveRoots
      BY DEF LiveRoots, HasEntry
    <3>3. others # NoEntry => others = entry[r] /\ entry[r].handle \in Handles
      BY DEF Known, EntryKnown, HasEntry
    <3>4. entry'[r] = IF Joining(p, r) = {} THEN others
                      ELSE [handle |-> IF others = NoEntry THEN fresh[r] ELSE others.handle,
                            folders |-> others.folders \union Joining(p, r)]
      BY <1>3 DEF Swap, Joined
    <3>5. r \in LiveRoots' <=> entry'[r] # NoEntry
      BY DEF LiveRoots, HasEntry
    <3>. HIDE DEF others, old, fresh
    <3>6. CASE Joining(p, r) = {}
      <4>1. entry'[r] = others
        BY <3>4, <3>6
      <4>2. others = NoEntry => entry'[r].handle = NoHandle
        BY <4>1 DEF NoEntry
      <4>. QED
        BY <3>2, <3>3, <3>5, <4>1, <4>2
    <3>7. CASE Joining(p, r) # {}
      <4>. DEFINE hh == IF others = NoEntry THEN fresh[r] ELSE others.handle
                  ff == others.folders \union Joining(p, r)
      <4>1. entry'[r] = [handle |-> hh, folders |-> ff] /\ hh \in Handles
        BY <3>1, <3>3, <3>4, <3>7
      <4>. HIDE DEF hh, ff
      <4>2. entry'[r].handle = hh /\ entry'[r] # NoEntry
        BY <4>1, RegistryAssumption DEF RegistryAssumption, NoEntry
      <4>. QED
        BY <3>1, <3>2, <3>3, <3>5, <3>7, <4>2 DEF hh
    <3>. QED
      BY <3>6, <3>7
  <2>4. ASSUME NEW r \in LiveRoots, r # old
        PROVE  r \in LiveRoots' /\ entry'[r].handle = entry[r].handle
    <3>. DEFINE fs == entry[r].folders \union Joining(p, r)
    <3>1. r \in Roots /\ entry[r] # NoEntry /\ entry[r].handle \in Handles
      BY DEF LiveRoots, HasEntry, Known, EntryKnown
    <3>2. entry'[r] = entry[r] \/ entry'[r] = [handle |-> entry[r].handle, folders |-> fs]
      BY <1>3, <2>4, <3>1 DEF Swap, Joined
    <3>. HIDE DEF fs
    <3>3. entry'[r].handle = entry[r].handle
      BY <3>2
    <3>4. entry'[r] # NoEntry
      BY <3>1, <3>3, RegistryAssumption DEF RegistryAssumption, NoEntry
    <3>. QED
      BY <3>1, <3>3, <3>4 DEF LiveRoots, HasEntry
  <2>. HIDE DEF old, gone, fresh, left
  <2>5. Fresh(p) = {fresh[r] : r \in Roots} \ {NoHandle} /\ InHand(p) = Fresh(p)
    BY <1>0 DEF Fresh, InHand, fresh
  <2>6. Fresh(p)' = {left[r] : r \in Roots} \ {NoHandle} /\ InHand(p)' = Fresh(p)' \union {gone}
    BY <2>2 DEF Fresh, InHand
  <2>7. \A r \in Roots : fresh[r] # NoHandle => fresh[r] \in Fresh(p) /\ fresh[r] \notin Installed
    BY <1>0, <2>5 DEF OneOwner
  <2>8. \A q, r \in Roots : fresh[q] = fresh[r] /\ fresh[q] # NoHandle => q = r
    BY <1>0 DEF HandKnown, fresh
  <2>9. /\ \A q, r \in LiveRoots : entry[q].handle = entry[r].handle => q = r
        /\ \A r \in LiveRoots : r \in Roots /\ entry[r].handle \in Installed
        /\ LiveRoots' \subseteq Roots /\ NoHandle \notin Handles
    BY <1>0, RegistryAssumption DEF RegistryAssumption, OneOwner, LiveRoots, Installed
  <2>10. \A r \in Roots : left[r] = IF fresh[r] = entry'[r].handle THEN NoHandle ELSE fresh[r]
    BY DEF left
  <2>11. Installed' = {entry'[r].handle : r \in LiveRoots'} /\ Installed = {entry[r].handle : r \in LiveRoots}
    BY DEF Installed
  <2>12. Installed' \union InHand(p)' \subseteq Installed \union InHand(p)
    <3>1. ASSUME NEW r \in LiveRoots'
          PROVE  entry'[r].handle \in Installed \union InHand(p)
      BY <2>3, <2>5, <2>7, <2>9
    <3>2. ASSUME NEW r \in Roots, left[r] # NoHandle
          PROVE  left[r] \in InHand(p)
      BY <2>5, <2>7, <2>10, <3>2
    <3>. QED
      BY <2>1, <2>6, <2>11, <3>1, <3>2
  <2>13. Installed \union InHand(p) \subseteq Installed' \union InHand(p)'
    <3>1. ASSUME NEW r \in LiveRoots
          PROVE  entry[r].handle \in Installed' \union InHand(p)'
      <4>1. CASE r = old
        BY <2>6, <4>1 DEF gone
      <4>2. CASE r # old
        <5>1. r \in LiveRoots' /\ entry'[r].handle = entry[r].handle
          BY <2>4, <4>2
        <5>. QED
          BY <2>11, <5>1
      <4>. QED
        BY <4>1, <4>2
    <3>2. ASSUME NEW r \in Roots, fresh[r] # NoHandle
          PROVE  fresh[r] \in Installed' \union InHand(p)'
      <4>1. CASE fresh[r] = entry'[r].handle
        <5>1. r \in LiveRoots'
          BY <2>3, <3>2, <4>1
        <5>. QED
          BY <2>11, <4>1, <5>1
      <4>2. CASE fresh[r] # entry'[r].handle
        BY <2>6, <2>10, <3>2, <4>2
      <4>. QED
        BY <4>1, <4>2
    <3>. QED
      BY <2>5, <2>11, <3>1, <3>2
  <2>14. gone \notin Fresh(p)'
    BY <2>1, <2>6, <2>7, <2>9, <2>10
  <2>15. Installed' \intersect InHand(p)' = {}
    <3>. SUFFICES ASSUME NEW r \in LiveRoots', entry'[r].handle \in InHand(p)'
                  PROVE  FALSE
      BY <2>11
    <3>1. entry'[r].handle # gone
      BY <2>1, <2>3, <2>7, <2>9 DEF gone
    <3>2. PICK q \in Roots : entry'[r].handle = left[q] /\ left[q] # NoHandle
      BY <2>6, <3>1
    <3>3. entry'[r].handle = fresh[q] /\ fresh[q] # entry'[q].handle /\ fresh[q] # NoHandle
      BY <2>10, <3>2
    <3>. QED
      BY <2>3, <2>7, <2>8, <2>9, <3>3
  <2>16. EntriesApart'
    <3>. SUFFICES ASSUME NEW q \in LiveRoots', NEW r \in LiveRoots', entry'[q].handle = entry'[r].handle
                  PROVE  q = r
      BY DEF EntriesApart
    <3>. QED
      BY <2>3, <2>7, <2>8, <2>9
  <2>17. HandKnown(p)'
    BY <2>2, <2>8, <2>10 DEF HandKnown, At
  <2>. QED
    BY <1>0, <2>2, <2>12, <2>13, <2>14, <2>15, <2>16, <2>17, HoldingsPassed
<1>. QED
  BY <1>2, <1>3

LEMMA ChangeFoldersOwned ==
  ASSUME Known, OwnerInv, Known', NEW p \in Procs, NEW removed \in SUBSET Folders,
         NEW added \in SUBSET Folders, ChangeFolders(p, removed, added)
  PROVE  OwnerInv'
<1>. DEFINE doomed == {entry[r].handle : r \in {q \in LiveRoots : entry'[q] = NoEntry}}
<1>0. /\ TypeOK /\ OneOwner /\ HandKnown(p) /\ session' = session
      /\ Moves(p, {"disposing"}) /\ Rest(p) /\ entry \in [Roots -> EntryType]
      /\ job[p].fresh = NothingFresh /\ job[p].doomed = {} /\ job[p].telling = NoHandle
  BY StartMoves
     DEF Known, TypeOK, OwnerInv, OwnerKnown, HandKnown, ChangeFolders, At, Moves, Rest
<1>1. /\ job'[p].pc = "disposing" /\ job'[p].doomed = doomed /\ job'[p].telling = NoHandle
      /\ job'[p].fresh = NothingFresh
  <2>1. job' = [job EXCEPT ![p] = [Done EXCEPT !.pc = "disposing", !.doomed = doomed,
                                               !.adding = added]]
    BY DEF ChangeFolders
  <2>. HIDE DEF doomed
  <2>. QED
    BY <1>0, <2>1 DEF Done, TypeOK
<1>2. ASSUME NEW r \in Roots
      PROVE  /\ entry'[r] # NoEntry => r \in LiveRoots /\ entry'[r].handle = entry[r].handle
             /\ r \in LiveRoots' <=> entry'[r] # NoEntry
  <2>. DEFINE gone == {f \in removed : slot[f] = Live(r)}
  <2>1. entry'[r] = IF gone # {} /\ entry[r].folders \subseteq gone THEN NoEntry
                    ELSE [entry[r] EXCEPT !.folders = @ \ gone]
    BY DEF ChangeFolders, Without
  <2>. HIDE DEF gone
  <2>2. entry[r] = NoEntry => entry'[r] = NoEntry
    BY <2>1 DEF NoEntry
  <2>3. entry'[r] # NoEntry => entry'[r].handle = entry[r].handle
    BY <1>0, <2>1 DEF EntryType
  <2>. QED
    BY <2>2, <2>3 DEF LiveRoots, HasEntry
<1>3. /\ Installed' = {entry'[r].handle : r \in LiveRoots'}
      /\ Installed = {entry[r].handle : r \in LiveRoots}
      /\ LiveRoots \subseteq Roots /\ LiveRoots' \subseteq Roots
  BY DEF Installed, LiveRoots
<1>4. /\ InHand(p) = {} /\ Fresh(p)' = {} /\ InHand(p)' = doomed
  BY <1>0, <1>1 DEF InHand, Fresh, NothingFresh
<1>5. \A q, r \in LiveRoots : entry[q].handle = entry[r].handle => q = r
  BY <1>0 DEF OneOwner
<1>6. Installed' \union doomed = Installed
  BY <1>2, <1>3
<1>7. Installed' \intersect doomed = {}
  BY <1>2, <1>3, <1>5
<1>8. EntriesApart'
  BY <1>2, <1>3, <1>5 DEF EntriesApart
<1>9. HandKnown(p)'
  BY <1>1 DEF HandKnown, NothingFresh, At
<1>. QED
  BY <1>0, <1>1, <1>4, <1>6, <1>7, <1>8, <1>9, HoldingsPassed

\* A session is closed once, by the fiber that took it out of reach.
LEMMA CloseScopeOwned ==
  ASSUME Known, OwnerInv, Known', NEW p \in Procs, CloseScope(p)
  PROVE  OwnerInv'
<1>0. /\ TypeOK /\ OneOwner /\ OwnerKnown /\ HandKnown(p) /\ entry' = entry
      /\ Moves(p, {"disposing"}) /\ Rest(p) /\ job[p].pc = "disposing"
  BY DisposeMoves DEF Known, OwnerInv, OwnerKnown, CloseScope, At, Moves, Rest
<1>1. PICK h \in job[p].doomed :
        /\ session' = [session EXCEPT ![h] = FALSE]
        /\ job' = [job EXCEPT ![p] = [job[p] EXCEPT !.doomed = job[p].doomed \ {h}, !.telling = h]]
  BY DEF CloseScope
<1>2. /\ job'[p].pc = "disposing" /\ job'[p].doomed = job[p].doomed \ {h} /\ job'[p].telling = h
      /\ job'[p].fresh = job[p].fresh /\ h \in Handles /\ session \in [Handles -> BOOLEAN]
  <2>1. job[p] \in Job /\ job \in [Procs -> Job] /\ job[p].doomed \in SUBSET Handles
    BY <1>0, JobTypes DEF TypeOK
  <2>. QED
    BY <1>0, <1>1, <2>1 DEF Job, TypeOK
<1>3. /\ Installed' = Installed /\ Fresh(p)' = Fresh(p) /\ InHand(p)' = InHand(p) \ {h}
      /\ h \in InHand(p)
  <2>1. Installed' = Installed /\ Fresh(p)' = Fresh(p) /\ h \in InHand(p)
    BY <1>0, <1>1, <1>2 DEF Installed, LiveRoots, HasEntry, InHand, Fresh
  <2>2. h \notin Fresh(p)
    BY <1>0, <1>1 DEF OneOwner
  <2>. QED
    BY <1>2, <2>1, <2>2 DEF InHand
<1>4. /\ \A g \in Handles : Owned(g)
      /\ \A q \in Procs : Tidy(q)
  BY <1>0, OwnerMeans
<1>5. EntriesApart'
  BY <1>0 DEF OneOwner, EntriesApart, LiveRoots, HasEntry
<1>6. \A g \in Handles : session'[g] <=> session[g] /\ g # h
  BY <1>1, <1>2
<1>7. \A g \in Handles : session'[g] <=> \/ g \in Installed' \/ g \in InHand(p)'
                                          \/ \E q \in Procs \ {p} : g \in InHand(q)
  <2>1. h \notin Installed /\ \A q \in Procs \ {p} : h \notin InHand(q)
    BY <1>2, <1>3, <1>4 DEF Owned
  <2>. QED
    BY <1>3, <1>4, <1>6, <2>1 DEF Owned
<1>8. \A q \in Procs : job'[q].telling # NoHandle => ~session'[job'[q].telling]
  <2>. SUFFICES ASSUME NEW q \in Procs, job'[q].telling # NoHandle
                PROVE  ~session'[job'[q].telling]
    OBVIOUS
  <2>1. CASE q = p
    BY <1>2, <1>6, <2>1
  <2>2. CASE q # p
    <3>1. job'[q].telling = job[q].telling
      BY <1>0, <2>2, RestHands
    <3>2. job[q].telling \in Handles /\ ~session[job[q].telling]
      BY <1>0, <1>4, <3>1, JobTypes DEF Tidy, HandleOption
    <3>. QED
      BY <1>6, <3>1, <3>2
  <2>. QED
    BY <2>1, <2>2
<1>9. HandKnown(p)'
  BY <1>0, <1>2 DEF HandKnown, At
<1>10. \A g \in Handles : ~(g \in Installed' /\ g \in InHand(p)')
  BY <1>3, <1>4 DEF Owned
<1>11. Fresh(p)' \intersect job'[p].doomed = {}
  BY <1>0, <1>2, <1>3 DEF OneOwner
<1>. QED
  BY <1>0, <1>3, <1>5, <1>7, <1>8, <1>9, <1>10, <1>11, OwnersNext

\* A build that is over discards what it made and did not install.
LEMMA ReleasedOwned ==
  ASSUME Known, OwnerInv, Known', NEW p \in Procs, ~At(p, "disposing"), NEW after \in Job,
         after.fresh = NothingFresh, after.doomed = {}, after.telling = NoHandle,
         job' = Released(p, after), entry' = entry,
         session' = [h \in Handles |-> session[h] /\ h \notin Fresh(p)]
  PROVE  OwnerInv'
<1>1. TypeOK /\ job[p].doomed = {}
  BY DEF Known, OwnerInv, OwnerKnown, HandKnown
<1>2. job'[p] = after
  BY <1>1, ReleasedMoves
<1>3. Rest(p)
  <2>1. ASSUME NEW q \in Procs
        PROVE  LET j == [job[q] EXCEPT !.pc = "step", !.on = NoProc, !.retry = FALSE]
               IN  /\ j.pc = "step" /\ j.fresh = job[q].fresh /\ j.doomed = job[q].doomed
                   /\ j.telling = job[q].telling
    BY <1>1, JobTypes DEF Job
  <2>. QED
    BY <2>1 DEF Released, Rest, At
<1>. QED
  BY <1>1, <1>2, <1>3, HoldingsDiscarded

LEMMA StartOwned ==
  ASSUME Known, OwnerInv, Known', NEW p \in Procs, Start(p)
  PROVE  OwnerInv'
<1>1. TypeOK
  BY DEF Known
<1>2. CASE \E removed, added \in SUBSET Folders : ChangeFolders(p, removed, added)
  BY <1>2, ChangeFoldersOwned
<1>3. CASE \E f \in Folders, retry \in BOOLEAN : Lookup(p, f, retry)
  <2>1. PICK f \in Folders, retry \in BOOLEAN : Lookup(p, f, retry)
    BY <1>3
  <2>2. /\ job'[p].fresh = NothingFresh /\ job'[p].doomed = {} /\ job'[p].telling = NoHandle
    BY <1>1, <2>1 DEF Lookup, TypeOK, Done
  <2>3. Moves(p, {"step"}) /\ job[p].pc = "done" /\ entry' = entry /\ session' = session
    BY <1>1, <2>1, StartMoves DEF Lookup, At
  <2>. QED
    BY <2>2, <2>3, EmptyHanded
<1>4. ASSUME NEW rs \in SUBSET Roots, NEW fs \in SUBSET Folders, Watch(p, rs, fs)
      PROVE  OwnerInv'
  <2>1. /\ job'[p].fresh = NothingFresh /\ job'[p].doomed = {} /\ job'[p].telling = NoHandle
    BY <1>1, <1>4 DEF Watch, TypeOK, Done
  <2>2. Moves(p, {"rebuilding"}) /\ job[p].pc = "done" /\ entry' = entry /\ session' = session
    BY <1>1, <1>4, StartMoves DEF Watch, At
  <2>. QED
    BY <2>1, <2>2, EmptyHanded
<1>5. /\ \A r \in Roots : {r} \in SUBSET Roots
      /\ {} \in SUBSET Roots /\ {} \in SUBSET Folders
      /\ LiveRoots \in SUBSET Roots /\ dirty \in SUBSET Folders
  BY <1>1 DEF LiveRoots, TypeOK
<1>. QED
  BY <1>2, <1>3, <1>4, <1>5 DEF Start, Report

LEMMA LookupOwned ==
  ASSUME Known, OwnerInv, Known', NEW p \in Procs, LookupStep(p)
  PROVE  OwnerInv'
<1>1. TypeOK /\ job \in [Procs -> Job] /\ job[p] \in Job
  BY JobTypes DEF Known, TypeOK
<1>2. CASE Answer(p)
  <2>1. /\ job'[p].fresh = NothingFresh /\ job'[p].doomed = {} /\ job'[p].telling = NoHandle
    BY <1>1, <1>2 DEF Answer, Done
  <2>. QED
    BY <1>1, <1>2, <2>1, LookupMoves, EmptyHanded DEF Answer, At
<1>3. CASE Await(p) \/ Begin(p)
  <2>1. /\ job'[p].fresh = job[p].fresh /\ job'[p].doomed = job[p].doomed
        /\ job'[p].telling = job[p].telling
    <3>1. CASE Await(p)
      BY <1>1, <3>1 DEF Await, Job
    <3>2. CASE Begin(p)
      BY <1>1, <3>2 DEF Begin, Goto, Job
    <3>. QED
      BY <1>3, <3>1, <3>2
  <2>. QED
    BY <1>1, <1>3, <2>1, LookupMoves, EmptyHanded DEF Await, Begin, At
<1>4. CASE Resolve(p)
  <2>1. /\ job'[p].fresh = job[p].fresh /\ job'[p].doomed = job[p].doomed
        /\ job'[p].telling = job[p].telling
    BY <1>1, <1>4 DEF Resolve, Job
  <2>. QED
    BY <1>1, <1>4, <2>1, LookupMoves, EmptyHanded DEF Resolve, At
<1>5. CASE Release(p)
  <2>. DEFINE after == [Done EXCEPT !.pc = "step", !.folder = job[p].folder, !.left = job[p].left]
  <2>1. [Done EXCEPT !.pc = "step"] \in Job
    BY DoneType, JobFields DEF PC
  <2>2. [Done EXCEPT !.pc = "step", !.folder = job[p].folder] \in Job
    BY <1>1, <2>1, JobTypes, JobFields
  <2>3. after \in Job
    BY <1>1, <2>2, JobTypes, JobFields
  <2>4. after.fresh = NothingFresh /\ after.doomed = {} /\ after.telling = NoHandle
    BY DEF Done
  <2>5. job' = Released(p, after) /\ entry' = entry /\ ~At(p, "disposing")
        /\ session' = [h \in Handles |-> session[h] /\ h \notin Fresh(p)]
    BY <1>5 DEF Release, At
  <2>. HIDE DEF after
  <2>. QED
    BY <2>3, <2>4, <2>5, ReleasedOwned
<1>. QED
  BY <1>2, <1>3, <1>4, <1>5, MakeOwned, InstallOwned DEF LookupStep

LEMMA InterruptOwned ==
  ASSUME Known, OwnerInv, Known', NEW p \in Procs, Interrupt(p)
  PROVE  OwnerInv'
<1>1. job' = Released(p, Done) /\ entry' = entry /\ ~At(p, "disposing")
      /\ session' = [h \in Handles |-> session[h] /\ h \notin Fresh(p)]
  BY DEF Interrupt, At
<1>. QED
  BY <1>1, DoneHand, DoneType, ReleasedOwned

LEMMA RebuildOwned ==
  ASSUME Known, OwnerInv, Known', NEW p \in Procs, RebuildStep(p)
  PROVE  OwnerInv'
<1>1. TypeOK /\ job \in [Procs -> Job] /\ job[p] \in Job
  BY JobTypes DEF Known, TypeOK
<1>2. CASE ReadEntry(p)
  <2>1. /\ job'[p].fresh = job[p].fresh /\ job'[p].doomed = job[p].doomed
        /\ job'[p].telling = job[p].telling
    BY <1>1, <1>2 DEF ReadEntry, Job
  <2>. QED
    BY <1>1, <1>2, <2>1, RebuildMoves, EmptyHanded DEF ReadEntry, At
<1>3. CASE ReResolve(p)
  <2>1. /\ job'[p].fresh = job[p].fresh /\ job'[p].doomed = job[p].doomed
        /\ job'[p].telling = job[p].telling
    BY <1>1, <1>3 DEF ReResolve, Job
  <2>. QED
    BY <1>1, <1>3, <2>1, RebuildMoves, EmptyHanded DEF ReResolve, At
<1>4. CASE ReadFailed(p)
  <2>1. /\ job'[p].fresh = NothingFresh /\ job'[p].doomed = {} /\ job'[p].telling = NoHandle
    BY <1>1, <1>4 DEF ReadFailed, Done
  <2>. QED
    BY <1>1, <1>4, <2>1, RebuildMoves, EmptyHanded DEF ReadFailed, At
<1>5. CASE Pick(p)
  <2>1. /\ job'[p].fresh = NothingFresh /\ job'[p].doomed = {} /\ job'[p].telling = NoHandle
    <3>1. CASE job[p].left = {}
      BY <1>1, <1>5, <3>1 DEF Pick, Done
    <3>2. CASE job[p].left # {}
      <4>1. PICK f \in job[p].left :
              job' = [job EXCEPT ![p] = [Done EXCEPT !.pc = "step", !.folder = f, !.retry = TRUE,
                                                     !.left = job[p].left \ {f}]]
        BY <1>5, <3>2 DEF Pick
      <4>. QED
        BY <1>1, <4>1 DEF Done
    <3>. QED
      BY <3>1, <3>2
  <2>. QED
    BY <1>1, <1>5, <2>1, RebuildMoves, EmptyHanded DEF Pick, At
<1>. QED
  BY <1>2, <1>3, <1>4, <1>5, MakeFreshOwned, SwapOwned DEF RebuildStep

LEMMA DisposeOwned ==
  ASSUME Known, OwnerInv, Known', NEW p \in Procs, DisposeStep(p)
  PROVE  OwnerInv'
<1>1. TypeOK /\ job \in [Procs -> Job] /\ job[p] \in Job
  BY JobTypes DEF Known, TypeOK
<1>2. CASE OnDispose(p)
  <2>1. /\ job'[p].fresh = job[p].fresh /\ job'[p].doomed = job[p].doomed
        /\ job'[p].telling = NoHandle /\ job'[p].pc = "disposing"
    BY <1>1, <1>2 DEF OnDispose, At, Job
  <2>2. HandKnown(p)'
    BY <2>1 DEF OwnerInv, OwnerKnown, HandKnown, At
  <2>. QED
    BY <1>1, <1>2, <2>1, <2>2, DisposeMoves, MovesOn DEF OnDispose
<1>3. CASE Disposed(p)
  <2>1. /\ job'[p].fresh = NothingFresh /\ job'[p].doomed = {} /\ job'[p].telling = NoHandle
    BY <1>1, <1>3 DEF Disposed, Done
  <2>2. Rest(p) /\ job[p].doomed = {} /\ entry' = entry
        /\ session' = [h \in Handles |-> session[h] /\ h \notin Fresh(p)]
    BY <1>1, <1>3, DisposeMoves DEF Disposed, Moves, Rest
  <2>. QED
    BY <2>1, <2>2, HoldingsDiscarded
<1>. QED
  BY <1>2, <1>3, CloseScopeOwned DEF DisposeStep

LEMMA OwnerInit == Init => OwnerInv
<1>. SUFFICES ASSUME Init
              PROVE  OwnerInv
  OBVIOUS
<1>1. LiveRoots = {} /\ Installed = {}
  BY DEF Init, LiveRoots, HasEntry, Installed
<1>2. \A p \in Procs : job[p] = Done /\ Fresh(p) = {} /\ InHand(p) = {}
  BY DEF Init, Fresh, InHand, Done, NothingFresh
<1>3. OneOwner
  BY <1>1, <1>2, DoneHand DEF OneOwner, Init
<1>4. OwnerKnown
  BY <1>2, DoneHand DEF OwnerKnown, HandKnown, NothingFresh, Done
<1>. QED
  BY <1>3, <1>4 DEF OwnerInv

LEMMA OwnerStep == CountInv /\ OwnerInv /\ [Next]_vars => OwnerInv'
<1>. SUFFICES ASSUME CountInv, OwnerInv, [Next]_vars
              PROVE  OwnerInv'
  OBVIOUS
<1>1. Known /\ Known'
  BY CountStep DEF CountInv, Known
<1>2. CASE UNCHANGED <<entry, session, job>>
  <2>1. LiveRoots' = LiveRoots
    BY <1>2 DEF LiveRoots, HasEntry
  <2>2. Installed' = Installed
    BY <1>2, <2>1 DEF Installed
  <2>3. \A p \in Procs : Fresh(p)' = Fresh(p)
    BY <1>2 DEF Fresh
  <2>4. \A p \in Procs : InHand(p)' = InHand(p)
    BY <1>2, <2>3 DEF InHand
  <2>5. OneOwner'
    BY <1>2, <2>1, <2>2, <2>3, <2>4 DEF OwnerInv, OneOwner
  <2>6. OwnerKnown'
    BY <1>2 DEF OwnerInv, OwnerKnown, HandKnown, At, Resolved
  <2>. QED
    BY <2>5, <2>6 DEF OwnerInv
<1>. QED
  BY <1>1, <1>2, StartOwned, LookupOwned, InterruptOwned, RebuildOwned, DisposeOwned
     DEF Next, Step, vars, EditConfig

\* Every open session has one owner, the registry or a fiber: whatever lookups, rebuilds,
\* changes of the folders and interruptions interleave, none leaks and none is closed
\* twice or while the registry still answers with it.
THEOREM SessionOwned == Spec => []OneOwner
<1>1. OwnerInv => OneOwner
  BY DEF OwnerInv
<1>. QED
  BY <1>1, CountInit, CountStep, OwnerInit, OwnerStep, PTL DEF Spec
=============================================================================
