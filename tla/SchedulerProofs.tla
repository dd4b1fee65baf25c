-------------------------- MODULE SchedulerProofs --------------------------
(***************************************************************************)
(* Theorems about Scheduler, for every number of fibers, ceilings, callers *)
(* and every pair of durations.                                            *)
(***************************************************************************)
EXTENDS Scheduler, TLAPS

-----------------------------------------------------------------------------
(***************************************************************************)
(* Type correctness.                                                       *)
(***************************************************************************)

\* Merging a requested tier yields a tier.
LEMMA MergeTierType ==
  ASSUME NEW a \in TierOption, NEW t \in Tier
  PROVE  MergeTier(a, t) \in Tier
BY DEF MergeTier, MaxTier, Tier, TierOption, NoTier

\* The records the actions build have the types of the state they go to.
LEMMA ConstantTypes ==
  /\ Idle \in Entry
  /\ FreeChain \in Chain
  /\ Off \in Ceiling
  /\ Away \in Waiter
  /\ \A t \in Tier, c \in Cycles : open \in BOOLEAN => Fork(t, c) \in Chain
  /\ \A ch \in Chain : Leaving(ch) \in Chain
<1>. USE SchedulerAssumption DEF SchedulerAssumption, TierOption, NoTier, Tier
<1>1. Idle \in Entry
  BY DEF Idle, Entry, Phase
<1>2. FreeChain \in Chain
  BY DEF FreeChain, Chain, PC
<1>3. Off \in Ceiling
  BY DEF Off, Ceiling
<1>4. Away \in Waiter
  BY DEF Away, Waiter
<1>5. ASSUME NEW t \in Tier, NEW c \in Cycles, open \in BOOLEAN
      PROVE  Fork(t, c) \in Chain
  <2>1. (~open) \in BOOLEAN
    BY <1>5
  <2>. QED
    BY <2>1 DEF Fork, Chain, PC
<1>6. ASSUME NEW ch \in Chain
      PROVE  Leaving(ch) \in Chain
  BY DEF Leaving, Chain, PC
<1>. QED
  BY <1>1, <1>2, <1>3, <1>4, <1>5, <1>6

\* Moving a chain on and setting its timer keeps it a chain.
LEMMA TimerType ==
  ASSUME NEW ch \in Chain, NEW p \in PC, NEW n \in 0 .. Delay
  PROVE  [ch EXCEPT !.pc = p, !.left = n] \in Chain
<1>1. [ch EXCEPT !.pc = p] \in Chain
  BY DEF Chain
<1>2. \A d \in Chain : [d EXCEPT !.left = n] \in Chain
  BY DEF Chain
<1>. QED
  BY <1>1, <1>2

\* schedule keeps the types, whatever its caller did to its own chain and ceiling.
LEMMA ScheduleFromType ==
  ASSUME TypeOK, NEW t \in Tier,
         NEW chains \in [Fibers -> Chain], NEW ceilings \in [Cycles -> Ceiling],
         ScheduleFrom(t, chains, ceilings)
  PROVE  /\ slot' \in Entry
         /\ chain' \in [Fibers -> Chain]
         /\ ceiling' \in [Cycles -> Ceiling]
         /\ age' \in 0 .. MaxWait + 1
<1>1. age' \in 0 .. MaxWait + 1
  BY SchedulerAssumption DEF SchedulerAssumption, ScheduleFrom, TypeOK
<1>2. CASE RecordRerun(t, chains, ceilings)
  <2>1. MergeTier(slot.rerun, t) \in TierOption
    BY MergeTierType DEF TypeOK, Entry, TierOption
  <2>. QED
    BY <1>1, <1>2, <2>1 DEF RecordRerun, TypeOK, Entry
<1>3. CASE Replace(t, chains, ceilings)
  <2>1. PICK f \in Fibers, c \in Cycles :
          /\ CycleFor(c, chains, ceilings)
          /\ slot' = [phase |-> "pending", fiber |-> f, cycle |-> c,
                      tier |-> MergeTier(slot.tier, t), rerun |-> NoTier]
          /\ chain' = [g \in Fibers |->
                         IF g = f THEN Fork(MergeTier(slot.tier, t), c)
                         ELSE IF Owns(g) /\ chains[g].pc # "free"
                              THEN [chains[g] EXCEPT !.intr = TRUE]
                              ELSE chains[g]]
    BY <1>3 DEF Replace
  <2>2. MergeTier(slot.tier, t) \in Tier
    BY MergeTierType DEF TypeOK, Entry
  <2>3. slot' \in Entry
    BY <2>1, <2>2 DEF Entry, Phase, TierOption
  <2>4. Fork(MergeTier(slot.tier, t), c) \in Chain
    BY <2>2, ConstantTypes DEF TypeOK
  <2>5. ASSUME NEW g \in Fibers
        PROVE  [chains[g] EXCEPT !.intr = TRUE] \in Chain
    BY DEF Chain
  <2>6. chain' \in [Fibers -> Chain]
    BY <2>1, <2>4, <2>5
  <2>7. ceiling' \in [Cycles -> Ceiling]
    <3>1. [status |-> "counting", left |-> MaxWait] \in Ceiling
      BY SchedulerAssumption DEF SchedulerAssumption, Ceiling
    <3>. QED
      BY <2>1, <3>1, ConstantTypes DEF CycleFor
  <2>. QED
    BY <1>1, <2>3, <2>6, <2>7
<1>. QED
  BY <1>2, <1>3 DEF ScheduleFrom

\* Waking the callers of settle that awaited a fiber keeps their type.
LEMMA WokenType ==
  ASSUME TypeOK, NEW f \in Fibers
  PROVE  Woken(f) \in [Clients -> Waiter]
BY DEF Woken, TypeOK, Waiter

\* The types hold of every step.
LEMMA TypeStep ==
  ASSUME TypeOK, [Next]_vars
  PROVE  TypeOK'
<1>. USE SchedulerAssumption DEF SchedulerAssumption
<1>0. /\ \A f \in Fibers : chain[f] \in Chain /\ Leaving(chain[f]) \in Chain
      /\ \A c \in Cycles : ceiling[c] \in Ceiling
  BY ConstantTypes DEF TypeOK
<1>1. ASSUME NEW t \in Tier, Schedule(t)
      PROVE  TypeOK'
  <2>1. burst' \in 0 .. MaxBurst
    BY <1>1 DEF Schedule, TypeOK
  <2>. QED
    BY <1>1, <2>1, ScheduleFromType DEF Schedule, TypeOK
<1>2. ASSUME NEW f \in Fibers, Start(f)
      PROVE  TypeOK'
  <2>1. [chain[f] EXCEPT !.pc = "sleeping", !.left = Delay] \in Chain
    <3>1. chain[f] \in Chain
      BY <1>0
    <3>2. {"sleeping", "running"} \subseteq PC /\ {0, Delay} \subseteq 0 .. Delay
      BY DEF PC
    <3>. QED
      BY <3>1, <3>2, TimerType
  <2>2. chain' \in [Fibers -> Chain]
    BY <1>2, <2>1 DEF Start, TypeOK
  <2>. QED
    BY <1>2, <2>2 DEF Start, TypeOK
<1>3. ASSUME NEW f \in Fibers, Claim(f)
      PROVE  TypeOK'
  <2>1. [chain[f] EXCEPT !.pc = "running", !.left = 0] \in Chain
    <3>1. chain[f] \in Chain
      BY <1>0
    <3>2. {"sleeping", "running"} \subseteq PC /\ {0, Delay} \subseteq 0 .. Delay
      BY DEF PC
    <3>. QED
      BY <3>1, <3>2, TimerType
  <2>2. Claimed \in Entry
    BY DEF Claimed, TypeOK, Entry, Phase, TierOption
  <2>. QED
    BY <1>0, <1>3, <2>1, <2>2 DEF Claim, TypeOK
<1>4. ASSUME NEW f \in Fibers, RunEnds(f)
      PROVE  TypeOK'
  <2>1. Rerun(f) \in TierOption
    BY DEF Rerun, TypeOK, Entry, TierOption
  <2>2. [chain[f] EXCEPT !.pc = "ended", !.rerun = Rerun(f)] \in Chain
    BY <1>0, <2>1 DEF Chain, PC
  <2>3. Reset(f) \in Entry
    BY ConstantTypes DEF Reset, TypeOK
  <2>. QED
    BY <1>4, <2>2, <2>3 DEF RunEnds, RunOver, TypeOK
<1>5. ASSUME NEW f \in Fibers, RunDies(f)
      PROVE  TypeOK'
  BY <1>0, <1>5 DEF RunDies, RunOver, TypeOK
<1>6. ASSUME NEW f \in Fibers, Continue(f)
      PROVE  TypeOK'
  <2>. DEFINE chains == [chain EXCEPT ![f] = Leaving(@)]
              ceilings == [ceiling EXCEPT ![chain[f].cycle] = Off]
  <2>1. chains \in [Fibers -> Chain] /\ ceilings \in [Cycles -> Ceiling]
    BY <1>0, ConstantTypes DEF TypeOK
  <2>2. CASE chain[f].rerun = NoTier
    BY <1>6, <2>1, <2>2 DEF Continue, TypeOK
  <2>3. CASE chain[f].rerun # NoTier
    <3>1. chain[f].rerun \in Tier
      BY <1>0, <2>3 DEF Chain, TierOption
    <3>2. ScheduleFrom(chain[f].rerun, chains, ceilings)
      BY <1>6, <2>3 DEF Continue
    <3>. QED
      BY <1>6, <2>1, <3>1, <3>2, ScheduleFromType DEF Continue, TypeOK
  <2>. QED
    BY <2>2, <2>3
<1>7. ASSUME NEW f \in Fibers, Interrupt(f)
      PROVE  TypeOK'
  <2>1. due' \in [Clients -> {"clear", "owed", "begun"}]
    BY <1>7 DEF Interrupt, RunOver, TypeOK
  <2>. QED
    BY <1>0, <1>7, <2>1, ConstantTypes, WokenType DEF Interrupt, TypeOK
<1>8. ASSUME NEW f \in Fibers, Finalize(f)
      PROVE  TypeOK'
  BY <1>8, ConstantTypes, WokenType DEF Finalize, Reset, TypeOK
<1>9. ASSUME NEW s \in Clients, Settle(s)
      PROVE  TypeOK'
  <2>1. [settler[s] EXCEPT !.at = "reading"] \in Waiter
    BY DEF TypeOK, Waiter
  <2>. QED
    BY <1>9, <2>1 DEF Settle, Outstanding, TypeOK
<1>10. ASSUME NEW s \in Clients, Read(s)
       PROVE  TypeOK'
  <2>1. [at |-> "waiting", fiber |-> slot.fiber] \in Waiter
    BY DEF TypeOK, Waiter, Entry
  <2>. QED
    BY <1>10, <2>1, ConstantTypes DEF Read, TypeOK
<1>11. ASSUME NEW c \in Cycles, Fire(c)
       PROVE  TypeOK'
  <2>1. [ceiling[c] EXCEPT !.status = "fired"] \in Ceiling
    BY <1>0 DEF Ceiling
  <2>. QED
    BY <1>11, <2>1 DEF Fire, TypeOK
<1>12. ASSUME Tick
       PROVE  TypeOK'
  <2>1. ASSUME NEW f \in Fibers, chain[f].pc = "sleeping"
        PROVE  [chain[f] EXCEPT !.left = @ - 1] \in Chain
    <3>1. chain[f].left \in 1 .. Delay
      BY <1>0, <1>12, <2>1 DEF Tick, Quiet, Ready, Chain
    <3>. QED
      BY <1>0, <3>1 DEF Chain
  <2>2. ASSUME NEW c \in Cycles, ceiling[c].status = "counting"
        PROVE  [ceiling[c] EXCEPT !.left = @ - 1] \in Ceiling
    <3>1. ceiling[c].left \in 1 .. MaxWait
      BY <1>0, <1>12, <2>2 DEF Tick, Quiet, Ceiling
    <3>. QED
      BY <1>0, <3>1 DEF Ceiling
  <2>3. age' \in 0 .. MaxWait + 1 /\ burst' \in 0 .. MaxBurst
    BY <1>12 DEF Tick, TypeOK
  <2>. QED
    BY <1>0, <1>12, <2>1, <2>2, <2>3 DEF Tick, TypeOK
<1>13. ASSUME Close
       PROVE  TypeOK'
  <2>1. ASSUME NEW f \in Fibers
        PROVE  [chain[f] EXCEPT !.intr = TRUE] \in Chain
    BY <1>0 DEF Chain
  <2>. QED
    BY <1>0, <1>13, <2>1, ConstantTypes DEF Close, TypeOK
<1>14. CASE UNCHANGED vars
  BY <1>14 DEF vars, TypeOK
<1>. QED
  BY <1>1, <1>2, <1>3, <1>4, <1>5, <1>6, <1>7, <1>8, <1>9, <1>10, <1>11, <1>12,
     <1>13, <1>14 DEF Next, ChainStep

\* The scheduler's state is well typed, and its timers stay within their durations,
\* in every reachable state.
THEOREM TypeCorrect == Spec => []TypeOK
<1>1. Init => TypeOK
  BY SchedulerAssumption, ConstantTypes DEF SchedulerAssumption, Init, TypeOK
<1>2. TypeOK /\ [Next]_vars => TypeOK'
  BY TypeStep
<1>. QED
  BY <1>1, <1>2, PTL DEF Spec

-----------------------------------------------------------------------------
(***************************************************************************)
(* The slot and the chains agree.                                          *)
(***************************************************************************)

\* schedule keeps the slot invariant. Its caller may have sent one chain, never the
\* slot's owner, to its finalizer beforehand.
LEMMA ScheduleFromSlot ==
  ASSUME SlotInv, open' = open, NEW t \in Tier,
         NEW chains \in [Fibers -> Chain], NEW ceilings \in [Cycles -> Ceiling],
         \A f \in Fibers : \/ chains[f] = chain[f]
                           \/ chains[f].pc = "finalizing" /\ ~Owns(f),
         ScheduleFrom(t, chains, ceilings)
  PROVE  SlotNamesFiber' /\ RunnerOwnsSlot' /\ OwnerOnCourse'
<1>. USE DEF SlotInv
<1>1. CASE RecordRerun(t, chains, ceilings)
  <2>1. slot'.phase = slot.phase /\ slot'.fiber = slot.fiber /\ chain' = chains
    BY <1>1 DEF RecordRerun, TypeOK, Entry
  <2>. QED
    BY <2>1 DEF SlotNamesFiber, RunnerOwnsSlot, OwnerOnCourse, Owns, Running
<1>2. CASE Replace(t, chains, ceilings)
  <2>1. PICK f \in Fibers, c \in Cycles :
          /\ FreeFiber(f)
          /\ slot' = [phase |-> "pending", fiber |-> f, cycle |-> c,
                      tier |-> MergeTier(slot.tier, t), rerun |-> NoTier]
          /\ chain' = [g \in Fibers |->
                         IF g = f THEN Fork(MergeTier(slot.tier, t), c)
                         ELSE IF Owns(g) /\ chains[g].pc # "free"
                              THEN [chains[g] EXCEPT !.intr = TRUE]
                              ELSE chains[g]]
    BY <1>2 DEF Replace
  <2>2. \A g \in Fibers : chain[g].pc # "running"
    BY <1>2 DEF Replace, RunnerOwnsSlot, Running
  <2>3. ASSUME NEW g \in Fibers, g # f
        PROVE  chain'[g].pc = chains[g].pc
    BY <2>1, <2>3 DEF Chain
  <2>4. chain'[f].pc = "forked" /\ chain'[f].intr = ~open
    BY <2>1 DEF Fork
  <2>5. f # NoFiber
    BY SchedulerAssumption DEF SchedulerAssumption
  <2>6. \A g \in Fibers : chain'[g].pc # "running"
    BY <2>2, <2>3, <2>4
  <2>. QED
    BY <2>1, <2>4, <2>5, <2>6 DEF SlotNamesFiber, RunnerOwnsSlot, OwnerOnCourse, Owns, Running
<1>. QED
  BY <1>1, <1>2 DEF ScheduleFrom

\* The slot invariant holds of every step.
LEMMA SlotStep ==
  ASSUME SlotInv, [Next]_vars
  PROVE  SlotInv'
<1>. USE DEF SlotInv
<1>0. TypeOK'
  BY TypeStep
<1>. SUFFICES SlotNamesFiber' /\ RunnerOwnsSlot' /\ OwnerOnCourse'
  BY <1>0
<1>. USE DEF SlotNamesFiber, RunnerOwnsSlot, OwnerOnCourse, Owns, Running
<1>a. /\ slot \in Entry
      /\ \A f \in Fibers : chain[f] \in Chain
      /\ chain \in [Fibers -> Chain]
      /\ ceiling \in [Cycles -> Ceiling]
      /\ NoFiber \notin Fibers
  BY SchedulerAssumption DEF SchedulerAssumption, TypeOK
<1>1. ASSUME NEW t \in Tier, Schedule(t)
      PROVE  SlotNamesFiber' /\ RunnerOwnsSlot' /\ OwnerOnCourse'
  BY <1>a, <1>1, ScheduleFromSlot DEF Schedule
<1>2. ASSUME NEW f \in Fibers, Start(f)
      PROVE  SlotNamesFiber' /\ RunnerOwnsSlot' /\ OwnerOnCourse'
  BY <1>a, <1>2 DEF Start, Chain
<1>3. ASSUME NEW f \in Fibers, Claim(f)
      PROVE  SlotNamesFiber' /\ RunnerOwnsSlot' /\ OwnerOnCourse'
  <2>1. CASE Owns(f)
    <3>1. slot' = Claimed /\ open' = open
      BY <1>3, <2>1 DEF Claim, StillOwns
    <3>2. slot'.phase = "running" /\ slot'.fiber = f
      BY <1>a, <2>1, <3>1 DEF Claimed, Entry
    <3>3. chain' = [chain EXCEPT ![f].pc = "running", ![f].left = 0]
      BY <1>3, <2>1 DEF Claim, StillOwns
    <3>4. \A g \in Fibers \ {f} : chain'[g] = chain[g]
      BY <1>a, <3>3
    <3>5. chain'[f].pc = "running" /\ chain'[f].intr = chain[f].intr
      BY <1>a, <3>3 DEF Chain
    <3>. QED
      BY <1>a, <2>1, <3>1, <3>2, <3>4, <3>5
  <2>2. CASE ~Owns(f)
    BY <1>a, <1>3, <2>2 DEF Claim, StillOwns, Leaving, Chain
  <2>. QED
    BY <2>1, <2>2
<1>4. ASSUME NEW f \in Fibers, RunEnds(f)
      PROVE  SlotNamesFiber' /\ RunnerOwnsSlot' /\ OwnerOnCourse'
  <2>1. Owns(f)
    BY <1>4 DEF RunEnds
  <2>2. /\ slot' = Idle
        /\ chain'[f].pc = "ended"
        /\ \A g \in Fibers \ {f} : chain'[g] = chain[g]
    BY <1>a, <1>4, <2>1 DEF RunEnds, Reset, Chain
  <2>. QED
    BY <1>a, <2>1, <2>2 DEF Idle
<1>5. ASSUME NEW f \in Fibers, RunDies(f)
      PROVE  SlotNamesFiber' /\ RunnerOwnsSlot' /\ OwnerOnCourse'
  BY <1>a, <1>5 DEF RunDies, Leaving, Chain
<1>6. ASSUME NEW f \in Fibers, Continue(f)
      PROVE  SlotNamesFiber' /\ RunnerOwnsSlot' /\ OwnerOnCourse'
  <2>. DEFINE chains == [chain EXCEPT ![f] = Leaving(@)]
              ceilings == [ceiling EXCEPT ![chain[f].cycle] = Off]
  <2>1. chains \in [Fibers -> Chain] /\ ceilings \in [Cycles -> Ceiling]
    BY <1>a, ConstantTypes
  <2>2. /\ chains[f].pc = "finalizing" /\ ~chains[f].intr
        /\ \A g \in Fibers \ {f} : chains[g] = chain[g]
    BY <1>a DEF Leaving
  <2>3. open' = open
    BY <1>6 DEF Continue
  <2>4. CASE chain[f].rerun = NoTier
    <3>1. slot' = slot /\ chain' = chains
      BY <1>6, <2>4 DEF Continue
    <3>2. ~Owns(f)
      BY <1>6 DEF Continue
    <3>. QED
      BY <1>a, <2>2, <2>3, <3>1, <3>2
  <2>5. CASE chain[f].rerun # NoTier
    <3>1. chain[f].rerun \in Tier
      BY <1>a, <2>5 DEF Chain, TierOption
    <3>2. ScheduleFrom(chain[f].rerun, chains, ceilings)
      BY <1>6, <2>5 DEF Continue
    <3>3. ~Owns(f)
      BY <1>6 DEF Continue
    <3>4. \A g \in Fibers : \/ chains[g] = chain[g]
                            \/ chains[g].pc = "finalizing" /\ ~Owns(g)
      BY <2>2, <3>3
    <3>. HIDE DEF chains, ceilings
    <3>. QED
      BY <2>1, <2>3, <3>1, <3>2, <3>4, ScheduleFromSlot
  <2>. QED
    BY <2>4, <2>5
<1>7. ASSUME NEW f \in Fibers, Interrupt(f)
      PROVE  SlotNamesFiber' /\ RunnerOwnsSlot' /\ OwnerOnCourse'
  BY <1>a, <1>7 DEF Interrupt, Leaving, FreeChain, Chain
<1>8. ASSUME NEW f \in Fibers, Finalize(f)
      PROVE  SlotNamesFiber' /\ RunnerOwnsSlot' /\ OwnerOnCourse'
  BY <1>a, <1>8 DEF Finalize, Reset, Idle, FreeChain, Chain
<1>9. ASSUME NEW s \in Clients, Settle(s) \/ Read(s)
      PROVE  SlotNamesFiber' /\ RunnerOwnsSlot' /\ OwnerOnCourse'
  BY <1>9 DEF Settle, Read
<1>10. ASSUME NEW c \in Cycles, Fire(c)
       PROVE  SlotNamesFiber' /\ RunnerOwnsSlot' /\ OwnerOnCourse'
  BY <1>10 DEF Fire
<1>11. ASSUME Tick
       PROVE  SlotNamesFiber' /\ RunnerOwnsSlot' /\ OwnerOnCourse'
  BY <1>a, <1>11 DEF Tick, Chain
<1>12. ASSUME Close
       PROVE  SlotNamesFiber' /\ RunnerOwnsSlot' /\ OwnerOnCourse'
  BY <1>a, <1>12 DEF Close, Chain
<1>13. CASE UNCHANGED vars
  BY <1>13 DEF vars
<1>. QED
  BY <1>1, <1>2, <1>3, <1>4, <1>5, <1>6, <1>7, <1>8, <1>9, <1>10, <1>11, <1>12,
     <1>13 DEF Next, ChainStep

\* A chain claims, runs and lets go of the slot under its own identity: the slot
\* invariant holds in every reachable state.
THEOREM SlotCorrect == Spec => []SlotInv
<1>1. Init => SlotInv
  <2>1. Init => TypeOK
    BY SchedulerAssumption, ConstantTypes DEF SchedulerAssumption, Init, TypeOK
  <2>2. Init => SlotNamesFiber /\ RunnerOwnsSlot /\ OwnerOnCourse
    BY SchedulerAssumption
       DEF SchedulerAssumption, Init, Idle, FreeChain, SlotNamesFiber, RunnerOwnsSlot,
           OwnerOnCourse, Owns, Running
  <2>. QED
    BY <2>1, <2>2 DEF SlotInv
<1>2. SlotInv /\ [Next]_vars => SlotInv'
  BY SlotStep
<1>. QED
  BY <1>1, <1>2, PTL DEF Spec

\* No two revalidations of one session ever overlap.
THEOREM NeverTwoRuns == Spec => []OneRun
<1>1. SlotInv => OneRun
  BY DEF SlotInv, RunnerOwnsSlot, Owns, OneRun
<1>. QED
  BY <1>1, SlotCorrect, PTL

\* The slot never outlives the fiber it names while the scope is open.
THEOREM NeverAGhost == Spec => []NoGhost
<1>1. SlotInv => NoGhost
  <2>. SUFFICES ASSUME SlotInv, open, slot.phase # "idle"
                PROVE  /\ chain[slot.fiber].pc # "free"
                       /\ slot.phase = "running" =>
                            chain[slot.fiber].pc \in {"running", "finalizing"}
    BY DEF NoGhost
  <2>1. slot.fiber \in Fibers
    BY DEF SlotInv, SlotNamesFiber, TypeOK, Entry
  <2>2. slot.phase \in {"pending", "running"}
    BY DEF SlotInv, TypeOK, Entry, Phase
  <2>. QED
    BY <2>1, <2>2 DEF SlotInv, OwnerOnCourse, Owns
<1>. QED
  BY <1>1, SlotCorrect, PTL

\* Only closing the scope interrupts a run in progress.
THEOREM NeverAborted == Spec => []RunNotAborted
<1>1. SlotInv => RunNotAborted
  BY DEF SlotInv, RunnerOwnsSlot, OwnerOnCourse, RunNotAborted
<1>. QED
  BY <1>1, SlotCorrect, PTL

-----------------------------------------------------------------------------
(***************************************************************************)
(* The ceiling of a cycle.                                                 *)
(***************************************************************************)

\* schedule lets the ceiling of a pending cycle count on, and starts that of a new one.
LEMMA ScheduleFromCounts ==
  ASSUME SlotInv, CycleCounts, open' = open, NEW t \in Tier,
         NEW chains \in [Fibers -> Chain], NEW ceilings \in [Cycles -> Ceiling],
         \A f \in Fibers : \/ chains[f] = chain[f]
                           \/ chains[f].pc = "finalizing" /\ ~Owns(f),
         open /\ slot.phase = "pending" => ceilings[slot.cycle] = ceiling[slot.cycle],
         ScheduleFrom(t, chains, ceilings)
  PROVE  CycleCounts'
<1>. SUFFICES ASSUME open, slot'.phase = "pending"
              PROVE  CycleCounts'
  BY DEF CycleCounts
<1>0. slot \in Entry /\ age \in Nat
  BY DEF SlotInv, TypeOK
<1>1. slot'.phase = slot.phase \/ Replace(t, chains, ceilings)
  BY <1>0 DEF ScheduleFrom, RecordRerun, Entry
<1>2. Replace(t, chains, ceilings) /\ age' = IF slot.phase = "idle" THEN 0 ELSE age
  BY <1>0, <1>1 DEF ScheduleFrom, RecordRerun
<1>3. PICK f \in Fibers, c \in Cycles :
        /\ FreeFiber(f)
        /\ CycleFor(c, chains, ceilings)
        /\ slot' = [phase |-> "pending", fiber |-> f, cycle |-> c,
                    tier |-> MergeTier(slot.tier, t), rerun |-> NoTier]
        /\ chain' = [g \in Fibers |->
                       IF g = f THEN Fork(MergeTier(slot.tier, t), c)
                       ELSE IF Owns(g) /\ chains[g].pc # "free"
                            THEN [chains[g] EXCEPT !.intr = TRUE]
                            ELSE chains[g]]
  BY <1>2 DEF Replace
<1>4. slot'.cycle = c /\ slot'.fiber = f /\ chain'[f].cycle = c /\ chain'[f].pc = "forked"
  BY <1>3 DEF Fork
<1>5. \A g \in Fibers : g # f => chain'[g].pc = chains[g].pc /\ chain'[g].cycle = chains[g].cycle
  BY <1>3 DEF Chain
<1>6. CASE slot.phase = "idle"
  <2>1. FreeCycle(c, chains, ceilings) /\ ceiling' = [ceilings EXCEPT ![c] = [status |-> "counting", left |-> MaxWait]]
    BY <1>3, <1>6 DEF CycleFor
  <2>2. ceiling'[c].status = "counting" /\ age' + ceiling'[c].left <= MaxWait
    BY <2>1, <1>2, <1>6, SchedulerAssumption
  <2>3. \A g \in Fibers : chains[g].cycle # c
    BY <2>1 DEF FreeCycle
  <2>. QED
    BY <2>2, <2>3, <1>4, <1>5 DEF CycleCounts, Owns
<1>7. CASE slot.phase = "pending"
  <2>1. c = slot.cycle /\ ceiling' = ceilings /\ age' = age
    BY <1>2, <1>3, <1>7 DEF CycleFor
  <2>2. \A g \in Fibers : chains[g].pc = "ended" => chains[g].cycle # c
    <3>1. \A g \in Fibers : chains[g].pc = "ended" => chain[g] = chains[g] /\ ~Owns(g)
      BY DEF SlotInv, RunnerOwnsSlot
    <3>. QED
      BY <3>1, <2>1, <1>7 DEF CycleCounts
  <2>3. ceiling'[c] = ceiling[c]
    BY <2>1, <1>7
  <2>. QED
    BY <2>1, <2>2, <2>3, <1>4, <1>5, <1>7 DEF CycleCounts, Owns
<1>. QED
  BY <1>2, <1>6, <1>7, <1>0 DEF Replace, Entry, Phase

\* Steps that neither start a cycle nor pass time.
LEMMA CountsStay ==
  ASSUME CycleCounts,
         slot'.phase = "pending" => UNCHANGED <<slot, age>>,
         open' => open,
         \A f \in Fibers : \/ chain'[f].pc # "ended" /\ (Owns(f) => chain'[f].cycle = chain[f].cycle)
                           \/ chain'[f].pc = chain[f].pc /\ chain'[f].cycle = chain[f].cycle,
         open' /\ slot.phase = "pending" =>
           \/ ceiling'[slot.cycle] = ceiling[slot.cycle]
           \/ age <= MaxWait /\ ceiling'[slot.cycle].status = "fired"
  PROVE  CycleCounts'
BY DEF CycleCounts, Owns

LEMMA CountsStep ==
  ASSUME SlotInv, CycleCounts, [Next]_vars
  PROVE  CycleCounts'
<1>. USE SchedulerAssumption DEF SlotInv
<1>0. /\ slot \in Entry /\ age \in Nat
      /\ \A f \in Fibers : chain[f] \in Chain
      /\ \A c \in Cycles : ceiling[c] \in Ceiling
      /\ chain \in [Fibers -> Chain]
      /\ ceiling \in [Cycles -> Ceiling]
  BY DEF TypeOK
<1>1. ASSUME NEW t \in Tier, Schedule(t)
      PROVE  CycleCounts'
  BY <1>0, <1>1, ScheduleFromCounts DEF Schedule
<1>2. ASSUME NEW f \in Fibers, Start(f)
      PROVE  CycleCounts'
  <2>1. \A g \in Fibers : chain'[g].cycle = chain[g].cycle /\ (chain'[g].pc = chain[g].pc \/ chain'[g].pc = "sleeping")
    BY <1>0, <1>2 DEF Start, Chain
  <2>. QED
    BY <2>1, <1>2, CountsStay DEF Start
<1>3. ASSUME NEW f \in Fibers, Claim(f)
      PROVE  CycleCounts'
  <2>1. CASE Owns(f)
    <3>1. slot'.phase = "running"
      BY <1>0, <1>3, <2>1 DEF Claim, StillOwns, Claimed, Entry
    <3>. QED
      BY <3>1 DEF CycleCounts
  <2>2. CASE ~Owns(f)
    <3>1. \A g \in Fibers : g # f => chain'[g] = chain[g]
      BY <1>0, <1>3, <2>2 DEF Claim, StillOwns
    <3>2. chain'[f].pc = "finalizing" /\ UNCHANGED <<slot, age, ceiling, open>>
      BY <1>0, <1>3, <2>2 DEF Claim, StillOwns, Leaving
    <3>. QED
      BY <3>1, <3>2, <2>2, CountsStay
  <2>. QED
    BY <2>1, <2>2
<1>4. ASSUME NEW f \in Fibers, RunEnds(f)
      PROVE  CycleCounts'
  <2>1. slot'.phase = "idle"
    BY <1>4 DEF RunEnds, Reset, RunnerOwnsSlot, Idle
  <2>. QED
    BY <2>1 DEF CycleCounts
<1>5. ASSUME NEW f \in Fibers, RunDies(f)
      PROVE  CycleCounts'
  <2>1. slot'.phase = "running"
    BY <1>5 DEF RunDies, RunnerOwnsSlot
  <2>. QED
    BY <2>1 DEF CycleCounts
<1>6. ASSUME NEW f \in Fibers, Continue(f)
      PROVE  CycleCounts'
  <2>1. PICK chains : chains = [chain EXCEPT ![f] = Leaving(@)]
    OBVIOUS
  <2>2. PICK ceilings : ceilings = [ceiling EXCEPT ![chain[f].cycle] = Off]
    OBVIOUS
  <2>3. chains \in [Fibers -> Chain] /\ ceilings \in [Cycles -> Ceiling]
    BY <1>0, <2>1, <2>2, ConstantTypes
  <2>4. /\ chains[f].pc = "finalizing" /\ ~Owns(f) /\ open' = open
        /\ \A g \in Fibers : g # f => chains[g] = chain[g]
    BY <1>0, <1>6, <2>1 DEF Leaving, Continue, RunnerOwnsSlot
  <2>5. open /\ slot.phase = "pending" => ceilings[slot.cycle] = ceiling[slot.cycle]
    BY <1>0, <1>6, <2>2, <2>4 DEF CycleCounts, Continue
  <2>6. CASE chain[f].rerun = NoTier
    <3>1. chain' = chains /\ ceiling' = ceilings /\ UNCHANGED <<slot, age>>
      BY <1>6, <2>1, <2>2, <2>6 DEF Continue
    <3>. QED
      BY <3>1, <2>4, <2>5, CountsStay
  <2>7. CASE chain[f].rerun # NoTier
    <3>1. chain[f].rerun \in Tier /\ ScheduleFrom(chain[f].rerun, chains, ceilings)
      BY <1>0, <1>6, <2>1, <2>2, <2>7 DEF Continue, Chain, TierOption
    <3>2. \A g \in Fibers : \/ chains[g] = chain[g]
                            \/ chains[g].pc = "finalizing" /\ ~Owns(g)
      BY <2>4
    <3>. QED
      BY <2>3, <2>4, <2>5, <3>1, <3>2, ScheduleFromCounts
  <2>. QED
    BY <2>6, <2>7
<1>7. ASSUME NEW f \in Fibers, Interrupt(f)
      PROVE  CycleCounts'
  <2>1. \A g \in Fibers : g # f => chain'[g] = chain[g]
    BY <1>0, <1>7 DEF Interrupt
  <2>2. chain'[f].pc \in {"free", "finalizing"} /\ UNCHANGED <<slot, age, ceiling, open>>
    BY <1>0, <1>7 DEF Interrupt, Leaving, FreeChain
  <2>3. open => ~Owns(f)
    BY <1>7 DEF Interrupt, OwnerOnCourse
  <2>. QED
    BY <2>1, <2>2, <2>3 DEF CycleCounts, Owns
<1>8. ASSUME NEW f \in Fibers, Finalize(f)
      PROVE  CycleCounts'
  <2>1. \A g \in Fibers : g # f => chain'[g] = chain[g]
    BY <1>0, <1>8 DEF Finalize
  <2>2. chain'[f].pc = "free" /\ slot' = Reset(f) /\ UNCHANGED <<age, ceiling, open>>
    BY <1>0, <1>8 DEF Finalize, FreeChain
  <2>3. slot'.phase = "pending" => slot' = slot /\ ~Owns(f)
    BY <2>2 DEF Reset, Idle
  <2>. QED
    BY <2>1, <2>2, <2>3 DEF CycleCounts, Owns
<1>9. ASSUME NEW s \in Clients, Settle(s) \/ Read(s)
      PROVE  CycleCounts'
  BY <1>9 DEF Settle, Read, CycleCounts, Owns
<1>10. ASSUME NEW c \in Cycles, Fire(c)
       PROVE  CycleCounts'
  <2>1. /\ ceiling[c].status = "counting" /\ ceiling[c].left = 0
        /\ ceiling'[c].status = "fired" /\ \A d \in Cycles : d # c => ceiling'[d] = ceiling[d]
        /\ UNCHANGED <<slot, chain, open, age>>
    BY <1>0, <1>10 DEF Fire, Ceiling
  <2>2. open /\ slot.phase = "pending" => \/ ceiling'[slot.cycle] = ceiling[slot.cycle]
                                          \/ age <= MaxWait /\ ceiling'[slot.cycle].status = "fired"
    BY <1>0, <2>1 DEF CycleCounts
  <2>. QED
    BY <2>1, <2>2, CountsStay
<1>11. ASSUME Tick
       PROVE  CycleCounts'
  <2>. SUFFICES ASSUME open, slot.phase = "pending"
                PROVE  CycleCounts'
    BY <1>11 DEF Tick, CycleCounts
  <2>1. slot.fiber \in Fibers /\ Owns(slot.fiber)
    BY <1>0 DEF SlotNamesFiber, Entry, Owns
  <2>2. chain[slot.fiber].pc = "sleeping" /\ ~Ready(slot.fiber) /\ chain[slot.fiber].cycle = slot.cycle
    BY <1>11, <2>1 DEF Tick, Quiet, OwnerOnCourse, CycleCounts
  <2>3. slot.cycle \in Cycles /\ ceiling[slot.cycle].status = "counting"
        /\ age + ceiling[slot.cycle].left <= MaxWait /\ ceiling[slot.cycle].left > 0
    BY <1>11, <2>2 DEF Tick, Quiet, Ready, CycleCounts
  <2>4. ceiling'[slot.cycle] = [ceiling[slot.cycle] EXCEPT !.left = @ - 1]
    BY <1>11, <2>3 DEF Tick
  <2>5. /\ ceiling'[slot.cycle].status = "counting"
        /\ ceiling'[slot.cycle].left = ceiling[slot.cycle].left - 1 /\ ceiling[slot.cycle].left \in Nat
    BY <1>0, <2>3, <2>4 DEF Ceiling
  <2>6. age' = age + 1 /\ UNCHANGED <<slot, open>>
    BY <1>0, <1>11, <2>3, <2>5 DEF Tick
  <2>7. \A f \in Fibers : chain'[f].pc = chain[f].pc /\ chain'[f].cycle = chain[f].cycle
    BY <1>0, <1>11 DEF Tick, Chain
  <2>8. age' + ceiling'[slot.cycle].left <= MaxWait
    BY <1>0, <2>3, <2>5, <2>6
  <2>. QED
    BY <2>3, <2>5, <2>6, <2>7, <2>8 DEF CycleCounts, Owns
<1>12. CASE Close
  BY <1>12 DEF Close, CycleCounts
<1>13. CASE UNCHANGED vars
  BY <1>13 DEF vars, CycleCounts, Owns
<1>. QED
  BY <1>1, <1>2, <1>3, <1>4, <1>5, <1>6, <1>7, <1>8, <1>9, <1>10, <1>11, <1>12,
     <1>13 DEF Next, ChainStep

\* A burst of schedule calls that never quiets defers the run by at most maxWait from the
\* first call of its cycle: the ceiling counts down from that call, carries on through
\* every replacement of the pending chain, and time waits for the chain it wakes.
THEOREM NeverDeferredLonger == Spec => []CeilingBound
<1>1. Init => CycleCounts
  BY DEF Init, Idle, CycleCounts
<1>2. SlotInv /\ CycleCounts /\ [Next]_vars => CycleCounts'
  BY CountsStep
<1>3. SlotInv /\ CycleCounts => CeilingBound
  <2>. SUFFICES ASSUME SlotInv, CycleCounts, open, slot.phase = "pending"
                PROVE  age <= MaxWait
    BY DEF CeilingBound
  <2>1. age \in Nat /\ slot.cycle \in Cycles /\ ceiling[slot.cycle].left \in Nat
    BY SchedulerAssumption DEF SlotInv, TypeOK, Ceiling, CycleCounts
  <2>. QED
    BY <2>1, SchedulerAssumption DEF CycleCounts
<1>. QED
  BY <1>1, <1>2, <1>3, SlotCorrect, PTL DEF Spec

-----------------------------------------------------------------------------
(***************************************************************************)
(* What is owed, and the steps of the promise. Where no run dies.          *)
(***************************************************************************)

\* The tiers: folding a request in, handing a rerun on, and asking for less.
LEMMA TierFacts ==
  /\ \A a \in TierOption, s \in TierOption, t \in Tier :
       /\ JoinTier(a, MergeTier(s, t)) = MergeTier(JoinTier(a, s), t)
       /\ JoinTier(t, s) = MergeTier(s, t)
  /\ \A a \in TierOption, b \in TierOption :
       /\ JoinTier(a, b) \in TierOption /\ JoinTier(NoTier, b) = b /\ JoinTier(a, NoTier) = a
       /\ Within(a, a) /\ Within(a, JoinTier(a, b)) /\ Within(b, JoinTier(a, b))
  /\ NoTier \notin Tier
BY DEF JoinTier, MergeTier, MaxTier, Within, Tier, TierOption, NoTier

\* schedule leaves the slot, the pending chain and a rerun on its way as they should be.
LEMMA ScheduleFromAgrees ==
  ASSUME PromiseInv, open' = open, NEW t \in Tier,
         NEW chains \in [Fibers -> Chain], NEW ceilings \in [Cycles -> Ceiling],
         \A f \in Fibers : \/ chains[f] = chain[f]
                           \/ chains[f].pc = "finalizing" /\ chains[f].rerun = NoTier /\ ~Owns(f),
         \A c \in Cycles : ceilings[c] = ceiling[c] \/ ceilings[c] = Off,
         ScheduleFrom(t, chains, ceilings)
  PROVE  TiersAgree' /\ EndedAlone'
<1>0. SlotInv /\ TiersAgree /\ EndedAlone /\ slot \in Entry /\ slot.tier \in TierOption
  BY DEF PromiseInv, SlotInv, TypeOK, Entry
<1>1. CASE RecordRerun(t, chains, ceilings)
  <2>1. /\ slot'.phase = "running" /\ slot.phase = "running" /\ slot'.fiber = slot.fiber
        /\ slot'.cycle = slot.cycle /\ chain' = chains
    BY <1>0, <1>1 DEF RecordRerun, Entry
  <2>2. \A f \in Fibers : chains[f].pc # "ended" /\ chains[f].rerun = NoTier
    BY <1>0, <2>1 DEF EndedAlone
  <2>3. TiersAgree'
    BY <1>0, <2>1 DEF TiersAgree, Owns, Running
  <2>. QED
    BY <2>1, <2>2, <2>3 DEF EndedAlone
<1>2. CASE Replace(t, chains, ceilings)
  <2>1. PICK f \in Fibers, c \in Cycles :
          /\ FreeFiber(f)
          /\ CycleFor(c, chains, ceilings)
          /\ slot' = [phase |-> "pending", fiber |-> f, cycle |-> c,
                      tier |-> MergeTier(slot.tier, t), rerun |-> NoTier]
          /\ chain' = [g \in Fibers |->
                         IF g = f THEN Fork(MergeTier(slot.tier, t), c)
                         ELSE IF Owns(g) /\ chains[g].pc # "free"
                              THEN [chains[g] EXCEPT !.intr = TRUE]
                              ELSE chains[g]]
    BY <1>2 DEF Replace
  <2>2. PICK m \in Tier : m = MergeTier(slot.tier, t)
    BY <1>0, MergeTierType
  <2>3. /\ slot'.phase = "pending" /\ slot'.fiber = f /\ slot'.cycle = c /\ slot'.tier = m
        /\ slot'.rerun = NoTier /\ m # NoTier
    BY <2>1, <2>2, TierFacts
  <2>4. /\ chain'[f].pc = "forked" /\ chain'[f].tier = m /\ chain'[f].cycle = c
        /\ chain'[f].rerun = NoTier
    BY <2>1, <2>2 DEF Fork
  <2>5. ASSUME NEW g \in Fibers, g # f
        PROVE  /\ chain'[g].pc = chains[g].pc /\ chain'[g].rerun = chains[g].rerun
               /\ ~Owns(g) => chain'[g].intr = chains[g].intr
    BY <2>1, <2>5 DEF Chain
  <2>6. \A g \in Fibers : chain[g].pc # "running"
    BY <1>0, <1>2 DEF Replace, SlotInv, RunnerOwnsSlot, Running
  <2>7. \A g \in Fibers : chain'[g].pc # "running"
    BY <2>4, <2>5, <2>6
  <2>8. TiersAgree'
    BY <2>3, <2>4, <2>7 DEF TiersAgree, Owns, Running
  <2>9. ceiling'[c] = ceiling[c] \/ ceiling'[c] = Off \/ ceiling'[c] = [status |-> "counting", left |-> MaxWait]
    BY <2>1 DEF CycleFor
  <2>10. ASSUME NEW g \in Fibers, chain'[g].pc = "ended"
         PROVE  /\ g # f /\ chains[g] = chain[g] /\ chain[g].pc = "ended" /\ ~Owns(g)
                /\ \/ ceiling'[c].status = "off"
                   \/ ceiling'[c] = [status |-> "counting", left |-> MaxWait]
    <3>1. g # f /\ chain[g].pc = "ended" /\ chains[g] = chain[g] /\ ~Owns(g)
      BY <2>4, <2>5, <2>10, <1>0 DEF SlotInv, RunnerOwnsSlot
    <3>2. CASE slot.phase = "idle"
      BY <2>1, <3>1, <3>2 DEF CycleFor, Off
    <3>3. CASE slot.phase = "pending"
      <4>1. c = slot.cycle /\ ceiling' = ceilings
        BY <2>1, <3>3 DEF CycleFor
      <4>2. ceiling[c].status = "off" \/ ceiling[c] = [status |-> "counting", left |-> MaxWait]
        BY <1>0, <3>1, <3>3, <4>1 DEF EndedAlone
      <4>. QED
        BY <3>1, <4>1, <4>2 DEF Off
    <3>. QED
      BY <3>1, <3>2, <3>3, <2>1 DEF CycleFor
  <2>11. EndedAlone'
    <3>1. ASSUME NEW g \in Fibers, chain'[g].pc = "ended"
          PROVE  /\ open => ~chain'[g].intr
                 /\ \A h \in Fibers : chain'[h].pc = "ended" => h = g
      BY <1>0, <2>5, <2>10, <3>1 DEF EndedAlone
    <3>2. ASSUME NEW g \in Fibers, chain'[g].pc # "ended"
          PROVE  chain'[g].rerun = NoTier
      BY <1>0, <2>4, <2>5, <3>2 DEF EndedAlone
    <3>3. \A g \in Fibers : slot'.fiber = g /\ chain'[g].pc = "sleeping" => FALSE
      BY <2>3, <2>4
    <3>. QED
      BY <2>3, <2>10, <3>1, <3>2, <3>3 DEF EndedAlone, Owns
  <2>. QED
    BY <2>8, <2>11
<1>. QED
  BY <1>1, <1>2 DEF ScheduleFrom

\* Steps that leave the slot alone and move one chain off its course.
LEMMA LeftAgrees ==
  ASSUME PromiseInv, NEW f \in Fibers, UNCHANGED <<slot, open>>,
         \A g \in Fibers : g # f => chain'[g] = chain[g],
         chain'[f].pc \in {"free", "finalizing"}, chain'[f].rerun = NoTier,
         Owns(f) => ~open /\ (slot.phase = "running" => chain'[f].pc = "finalizing"),
         \A c \in Cycles : ceiling'[c] = ceiling[c] \/ ceiling'[c] = Off
  PROVE  TiersAgree' /\ EndedAlone'
<1>0. TiersAgree /\ EndedAlone
  BY DEF PromiseInv
<1>1. TiersAgree'
  BY <1>0 DEF TiersAgree, Owns, Running
<1>2. EndedAlone'
  <2>1. Off.status = "off"
    BY DEF Off
  <2>. QED
    BY <1>0, <2>1 DEF EndedAlone, Owns
<1>. QED
  BY <1>1, <1>2

\* Where a rerun is on its way no chain is ready to claim.
LEMMA NoneReady ==
  ASSUME PromiseInv, NEW f \in Fibers, Owns(f), Claim(f)
  PROVE  slot.phase = "pending" /\ \A g \in Fibers : chain[g].pc # "ended" /\ chain[g].rerun = NoTier
<1>0. SlotInv /\ TiersAgree /\ EndedAlone /\ slot \in Entry /\ chain[f].pc = "sleeping" /\ Ready(f)
  BY DEF PromiseInv, SlotInv, TypeOK, Claim
<1>1. slot.phase = "pending"
  BY <1>0, SchedulerAssumption DEF SlotInv, SlotNamesFiber, TiersAgree, Running, Owns, Entry, Phase
<1>2. ASSUME NEW g \in Fibers, chain[g].pc = "ended"
      PROVE  FALSE
  <2>1. chain[f].left = Delay /\ chain[f].cycle = slot.cycle
    BY <1>0, <1>1, <1>2 DEF EndedAlone, TiersAgree
  <2>2. ceiling[chain[f].cycle].status # "fired"
    BY <1>0, <1>1, <1>2, <2>1 DEF EndedAlone
  <2>. QED
    BY <1>0, <2>1, <2>2, SchedulerAssumption DEF Ready
<1>. QED
  BY <1>0, <1>1, <1>2 DEF EndedAlone

LEMMA AgreeStep ==
  ASSUME PromiseInv, ~MayDie, [Next]_vars
  PROVE  PromiseInv'
<1>. USE SchedulerAssumption
<1>0. SlotInv /\ TiersAgree /\ EndedAlone /\ SlotInv'
  BY SlotStep DEF PromiseInv
<1>. SUFFICES TiersAgree' /\ EndedAlone'
  BY <1>0 DEF PromiseInv
<1>a. /\ slot \in Entry
      /\ \A f \in Fibers : chain[f] \in Chain
      /\ \A c \in Cycles : ceiling[c] \in Ceiling
      /\ chain \in [Fibers -> Chain]
      /\ ceiling \in [Cycles -> Ceiling]
  BY <1>0 DEF SlotInv, TypeOK
<1>1. ASSUME NEW t \in Tier, Schedule(t)
      PROVE  TiersAgree' /\ EndedAlone'
  BY <1>a, <1>1, ScheduleFromAgrees DEF Schedule
<1>2. ASSUME NEW f \in Fibers, Start(f)
      PROVE  TiersAgree' /\ EndedAlone'
  <2>1. /\ chain[f].pc = "forked" /\ chain'[f].pc = "sleeping" /\ chain'[f].left = Delay
        /\ chain'[f].tier = chain[f].tier /\ chain'[f].cycle = chain[f].cycle
        /\ chain'[f].rerun = chain[f].rerun
        /\ \A g \in Fibers : g # f => chain'[g] = chain[g]
    BY <1>a, <1>2 DEF Start, Chain
  <2>2. UNCHANGED <<slot, ceiling, open>>
    BY <1>2 DEF Start
  <2>3. TiersAgree'
    BY <1>0, <2>1, <2>2 DEF TiersAgree, Owns, Running
  <2>4. EndedAlone'
    BY <1>0, <2>1, <2>2 DEF EndedAlone, Owns
  <2>. QED
    BY <2>3, <2>4
<1>3. ASSUME NEW f \in Fibers, Claim(f)
      PROVE  TiersAgree' /\ EndedAlone'
  <2>1. CASE Owns(f)
    <3>1. slot.phase = "pending" /\ \A g \in Fibers : chain[g].pc # "ended" /\ chain[g].rerun = NoTier
      BY <1>3, <2>1, NoneReady
    <3>2. /\ slot'.phase = "running" /\ slot'.fiber = f /\ slot'.rerun = NoTier
          /\ chain'[f].pc = "running" /\ chain'[f].tier = chain[f].tier /\ chain'[f].rerun = chain[f].rerun
          /\ \A g \in Fibers : g # f => chain'[g] = chain[g]
      <4>1. slot' = Claimed /\ chain' = [chain EXCEPT ![f].pc = "running", ![f].left = 0]
        BY <1>3, <2>1 DEF Claim, StillOwns
      <4>2. slot'.phase = "running" /\ slot'.fiber = f /\ slot'.rerun = NoTier
        BY <1>a, <2>1, <4>1 DEF Claimed, Entry, Owns
      <4>3. chain'[f].pc = "running" /\ chain'[f].tier = chain[f].tier /\ chain'[f].rerun = chain[f].rerun
        BY <1>a, <4>1 DEF Chain
      <4>4. \A g \in Fibers : g # f => chain'[g] = chain[g]
        BY <1>a, <4>1
      <4>. QED
        BY <4>2, <4>3, <4>4
    <3>3. chain[f].tier # NoTier
      BY <1>0, <1>3, <2>1, <3>1 DEF TiersAgree, Claim
    <3>4. \A g \in Fibers : chain[g].pc = "running" => FALSE
      BY <1>0, <3>1 DEF SlotInv, RunnerOwnsSlot, Running
    <3>5. TiersAgree'
      BY <3>2, <3>3, <3>4 DEF TiersAgree, Owns, Running
    <3>6. EndedAlone'
      BY <3>1, <3>2 DEF EndedAlone
    <3>. QED
      BY <3>5, <3>6
  <2>2. CASE ~Owns(f)
    <3>1. /\ chain'[f].pc = "finalizing" /\ chain'[f].rerun = NoTier
          /\ \A g \in Fibers : g # f => chain'[g] = chain[g]
      BY <1>a, <1>3, <2>2 DEF Claim, StillOwns, Leaving
    <3>2. UNCHANGED <<slot, ceiling, open>>
      BY <1>3, <2>2 DEF Claim, StillOwns
    <3>. QED
      BY <2>2, <3>1, <3>2, LeftAgrees
  <2>. QED
    BY <2>1, <2>2
<1>4. ASSUME NEW f \in Fibers, RunEnds(f)
      PROVE  TiersAgree' /\ EndedAlone'
  <2>1. Owns(f) /\ slot.phase = "running" /\ chain[f].pc = "running"
    BY <1>0, <1>4 DEF RunEnds, SlotInv, RunnerOwnsSlot, Running
  <2>2. /\ slot' = Idle /\ open' = open
        /\ chain'[f].pc = "ended" /\ chain'[f].intr = chain[f].intr
        /\ \A g \in Fibers : g # f => chain'[g] = chain[g]
    BY <1>a, <1>4, <2>1 DEF RunEnds, Reset, Chain
  <2>3. \A g \in Fibers : g # f => chain[g].pc \notin {"ended", "running"} /\ chain[g].rerun = NoTier
    BY <1>0, <2>1 DEF EndedAlone, SlotInv, RunnerOwnsSlot, Running, Owns
  <2>4. open => ~chain[f].intr
    BY <1>0, <2>1 DEF SlotInv, OwnerOnCourse
  <2>5. slot'.phase = "idle" /\ slot'.tier = NoTier /\ slot'.rerun = NoTier
    BY <2>2 DEF Idle
  <2>6. TiersAgree'
    BY <2>2, <2>3, <2>5 DEF TiersAgree, Running
  <2>7. EndedAlone'
    BY <2>2, <2>3, <2>4, <2>5 DEF EndedAlone
  <2>. QED
    BY <2>6, <2>7
<1>5. ASSUME NEW f \in Fibers, RunDies(f)
      PROVE  TiersAgree' /\ EndedAlone'
  BY <1>5 DEF RunDies
<1>6. ASSUME NEW f \in Fibers, Continue(f)
      PROVE  TiersAgree' /\ EndedAlone'
  <2>1. PICK chains : chains = [chain EXCEPT ![f] = Leaving(@)]
    OBVIOUS
  <2>2. PICK ceilings : ceilings = [ceiling EXCEPT ![chain[f].cycle] = Off]
    OBVIOUS
  <2>3. chains \in [Fibers -> Chain] /\ ceilings \in [Cycles -> Ceiling]
    BY <1>a, <2>1, <2>2, ConstantTypes
  <2>4. /\ chains[f].pc = "finalizing" /\ chains[f].rerun = NoTier /\ ~Owns(f) /\ open' = open
        /\ \A g \in Fibers : g # f => chains[g] = chain[g]
    BY <1>a, <1>0, <1>6, <2>1 DEF Leaving, Continue, SlotInv, RunnerOwnsSlot
  <2>5. \A c \in Cycles : ceilings[c] = ceiling[c] \/ ceilings[c] = Off
    BY <1>a, <2>2
  <2>6. CASE chain[f].rerun = NoTier
    <3>1. chain' = chains /\ ceiling' = ceilings /\ UNCHANGED slot
      BY <1>6, <2>1, <2>2, <2>6 DEF Continue
    <3>. QED
      BY <3>1, <2>4, <2>5, LeftAgrees
  <2>7. CASE chain[f].rerun # NoTier
    <3>1. chain[f].rerun \in Tier /\ ScheduleFrom(chain[f].rerun, chains, ceilings)
      BY <1>a, <1>6, <2>1, <2>2, <2>7 DEF Continue, Chain, TierOption
    <3>2. \A g \in Fibers : \/ chains[g] = chain[g]
                            \/ chains[g].pc = "finalizing" /\ chains[g].rerun = NoTier /\ ~Owns(g)
      BY <2>4
    <3>. QED
      BY <2>3, <2>4, <2>5, <3>1, <3>2, ScheduleFromAgrees
  <2>. QED
    BY <2>6, <2>7
<1>7. ASSUME NEW f \in Fibers, Interrupt(f)
      PROVE  TiersAgree' /\ EndedAlone'
  <2>1. \A g \in Fibers : g # f => chain'[g] = chain[g]
    BY <1>a, <1>7 DEF Interrupt
  <2>2. /\ chain'[f].pc = IF chain[f].pc = "forked" THEN "free" ELSE "finalizing"
        /\ chain'[f].rerun = NoTier /\ UNCHANGED <<slot, ceiling, open>>
    BY <1>a, <1>7 DEF Interrupt, Leaving, FreeChain
  <2>3. Owns(f) => ~open /\ (slot.phase = "running" => chain[f].pc # "forked")
    BY <1>0, <1>7 DEF Interrupt, SlotInv, OwnerOnCourse, TiersAgree, Running
  <2>. QED
    BY <2>1, <2>2, <2>3, LeftAgrees
<1>8. ASSUME NEW f \in Fibers, Finalize(f)
      PROVE  TiersAgree' /\ EndedAlone'
  <2>1. /\ chain[f].pc = "finalizing" /\ chain'[f].pc = "free" /\ chain'[f].rerun = NoTier
        /\ \A g \in Fibers : g # f => chain'[g] = chain[g]
        /\ slot' = Reset(f) /\ UNCHANGED <<ceiling, open>>
    BY <1>a, <1>8 DEF Finalize, FreeChain
  <2>2. CASE ~Owns(f)
    BY <2>1, <2>2, LeftAgrees DEF Reset
  <2>3. CASE Owns(f)
    <3>1. slot'.phase = "idle" /\ slot'.tier = NoTier /\ slot'.rerun = NoTier
      BY <2>1, <2>3 DEF Reset, Idle
    <3>2. TiersAgree'
      BY <1>0, <2>1, <3>1 DEF TiersAgree, Running
    <3>3. EndedAlone'
      BY <1>0, <2>1, <3>1 DEF EndedAlone
    <3>. QED
      BY <3>2, <3>3
  <2>. QED
    BY <2>2, <2>3
<1>9. ASSUME NEW s \in Clients, Settle(s) \/ Read(s)
      PROVE  TiersAgree' /\ EndedAlone'
  <2>1. UNCHANGED <<slot, chain, ceiling, open>>
    BY <1>9 DEF Settle, Read
  <2>. QED
    BY <1>0, <2>1 DEF TiersAgree, EndedAlone, Owns, Running
<1>10. ASSUME NEW c \in Cycles, Fire(c)
       PROVE  TiersAgree' /\ EndedAlone'
  <2>1. /\ ceiling[c].left = 0 /\ ceiling[c].status = "counting"
        /\ \A d \in Cycles : d # c => ceiling'[d] = ceiling[d]
        /\ UNCHANGED <<slot, chain, open>>
    BY <1>a, <1>10 DEF Fire
  <2>2. ASSUME NEW f \in Fibers, chain[f].pc = "ended", slot.phase = "pending"
        PROVE  slot.cycle # c
    BY <1>0, <2>1, <2>2 DEF EndedAlone
  <2>3. TiersAgree'
    BY <1>0, <2>1 DEF TiersAgree, Owns, Running
  <2>4. EndedAlone'
    BY <1>0, <2>1, <2>2 DEF EndedAlone, Owns
  <2>. QED
    BY <2>3, <2>4
<1>11. ASSUME Tick
       PROVE  TiersAgree' /\ EndedAlone'
  <2>1. \A f \in Fibers : chain[f].pc # "ended"
    BY <1>11 DEF Tick, Quiet
  <2>2. \A f \in Fibers : /\ chain'[f].pc = chain[f].pc /\ chain'[f].tier = chain[f].tier
                          /\ chain'[f].cycle = chain[f].cycle /\ chain'[f].rerun = chain[f].rerun
    BY <1>a, <1>11 DEF Tick, Chain
  <2>3. UNCHANGED <<slot, open>>
    BY <1>11 DEF Tick
  <2>4. TiersAgree'
    BY <1>0, <2>2, <2>3 DEF TiersAgree, Owns, Running
  <2>5. EndedAlone'
    BY <1>0, <2>1, <2>2 DEF EndedAlone
  <2>. QED
    BY <2>4, <2>5
<1>12. ASSUME Close
       PROVE  TiersAgree' /\ EndedAlone'
  <2>1. \A f \in Fibers : /\ chain'[f].pc = chain[f].pc /\ chain'[f].tier = chain[f].tier
                          /\ chain'[f].cycle = chain[f].cycle /\ chain'[f].rerun = chain[f].rerun
                          /\ chain'[f].left = chain[f].left
    BY <1>a, <1>12 DEF Close, Chain
  <2>2. UNCHANGED slot /\ ~open' /\ open
    BY <1>12 DEF Close
  <2>3. \A c \in Cycles : ceiling'[c] = ceiling[c] \/ ceiling'[c].status = "off"
    BY <1>a, <1>12 DEF Close, Off
  <2>4. TiersAgree'
    BY <1>0, <2>1, <2>2 DEF TiersAgree, Owns, Running
  <2>5. EndedAlone'
    BY <1>0, <2>1, <2>2, <2>3 DEF EndedAlone, Owns
  <2>. QED
    BY <2>4, <2>5
<1>13. CASE UNCHANGED vars
  BY <1>0, <1>13 DEF vars, TiersAgree, EndedAlone, Owns, Running
<1>. QED
  BY <1>1, <1>2, <1>3, <1>4, <1>5, <1>6, <1>7, <1>8, <1>9, <1>10, <1>11, <1>12,
     <1>13 DEF Next, ChainStep

\* The rerun on its way is that of the one chain whose run ended, and the run in progress
\* is that of the one chain that runs.
LEMMA HandedOnIs ==
  EndedAlone => \A f \in Fibers :
    /\ chain[f].pc = "ended" /\ chain[f].rerun \in TierOption => HandedOn = chain[f].rerun
    /\ (\A g \in Fibers : chain[g].rerun = NoTier) => HandedOn = NoTier
<1>. SUFFICES ASSUME EndedAlone, NEW f \in Fibers
              PROVE  /\ chain[f].pc = "ended" /\ chain[f].rerun \in TierOption => HandedOn = chain[f].rerun
                     /\ (\A g \in Fibers : chain[g].rerun = NoTier) => HandedOn = NoTier
  OBVIOUS
<1>1. chain[f].pc = "ended" => \A g \in Fibers : g # f => chain[g].rerun = NoTier
  BY DEF EndedAlone
<1>. QED
  BY <1>1 DEF HandedOn, TierOption, Tier, NoTier

LEMMA HandedOnStays ==
  ASSUME \A f \in Fibers : chain'[f].rerun = chain[f].rerun
  PROVE  HandedOn' = HandedOn
BY DEF HandedOn

LEMMA InFlightIs ==
  RunnerOwnsSlot =>
    /\ \A f \in Fibers : Running(f) => InFlight = chain[f].tier
    /\ (\A f \in Fibers : ~Running(f)) => InFlight = NoTier
<1>. SUFFICES ASSUME RunnerOwnsSlot, NEW f \in Fibers, Running(f)
              PROVE  InFlight = chain[f].tier
  BY DEF InFlight
<1>1. \A g \in Fibers : Running(g) => g = f
  BY DEF RunnerOwnsSlot, Owns
<1>2. (CHOOSE g \in Fibers : Running(g)) = f
  BY <1>1
<1>. QED
  BY <1>2 DEF InFlight

LEMMA InFlightStays ==
  ASSUME RunnerOwnsSlot, RunnerOwnsSlot',
         \A f \in Fibers : /\ chain'[f].pc = "running" <=> chain[f].pc = "running"
                           /\ Running(f) => chain'[f].tier = chain[f].tier
  PROVE  InFlight' = InFlight
<1>1. (RunnerOwnsSlot =>
    /\ \A f \in Fibers : Running(f) => InFlight = chain[f].tier
    /\ (\A f \in Fibers : ~Running(f)) => InFlight = NoTier)'
  BY InFlightIs, PTL
<1>2. \A f \in Fibers : Running(f)' <=> Running(f)
  BY DEF Running
<1>3. CASE \E f \in Fibers : Running(f)
  BY <1>1, <1>2, <1>3, InFlightIs
<1>4. CASE \A f \in Fibers : ~Running(f)
  BY <1>1, <1>2, <1>4, InFlightIs
<1>. QED
  BY <1>3, <1>4

\* What the slot itself owes.
InSlot == IF slot.phase = "pending" THEN slot.tier ELSE slot.rerun

LEMMA OwedTypes ==
  ASSUME TypeOK
  PROVE  /\ HandedOn \in TierOption /\ InSlot \in TierOption /\ Recorded = JoinTier(HandedOn, InSlot)
         /\ Recorded \in TierOption /\ \A f \in Fibers : chain[f].rerun \in TierOption /\ chain[f].tier \in TierOption
<1>1. HandedOn \in TierOption
  BY DEF HandedOn, TierOption, Tier
<1>2. slot.tier \in TierOption /\ slot.rerun \in TierOption
  BY DEF TypeOK, Entry
<1>3. \A f \in Fibers : chain[f].rerun \in TierOption /\ chain[f].tier \in TierOption
  BY DEF TypeOK, Chain
<1>4. InSlot \in TierOption /\ Recorded = JoinTier(HandedOn, InSlot)
  BY <1>2 DEF InSlot, Recorded
<1>. QED
  BY <1>1, <1>3, <1>4, TierFacts

LEMMA RecordedIs == TypeOK => HandedOn \in TierOption /\ InSlot \in TierOption /\ Recorded = JoinTier(HandedOn, InSlot)
BY OwedTypes

\* The coalescer's tiers are the scheduler's.
LEMMA SameTiers ==
  /\ Promise!NoTier = NoTier /\ Promise!Tier = Tier /\ Promise!TierOption = TierOption
  /\ \A a, b : Promise!MergeTier(a, b) = MergeTier(a, b)
  /\ \A a, b : Promise!Within(a, b) <=> Within(a, b)
<1>1. Promise!NoTier = NoTier /\ Promise!Tier = Tier /\ Promise!TierOption = TierOption
  BY DEF Promise!NoTier, NoTier, Promise!Tier, Tier, Promise!TierOption, TierOption
<1>2. \A a, b : Promise!MergeTier(a, b) = MergeTier(a, b)
  BY <1>1 DEF Promise!MergeTier, MergeTier, Promise!MaxTier, MaxTier
<1>. QED
  BY <1>1, <1>2 DEF Promise!Within, Within, Promise!JoinTier, JoinTier

\* schedule folds the tier into what the slot owes, and starts or ends no run.
LEMMA ScheduleFromOwes ==
  ASSUME PromiseInv, PromiseInv', NEW t \in Tier,
         NEW chains \in [Fibers -> Chain], NEW ceilings \in [Cycles -> Ceiling],
         \A f \in Fibers : \/ chains[f] = chain[f]
                           \/ chains[f].pc = "finalizing" /\ chains[f].rerun = NoTier /\ ~Running(f),
         ScheduleFrom(t, chains, ceilings)
  PROVE  /\ InSlot' = MergeTier(InSlot, t)
         /\ InFlight' = InFlight
         /\ \A f \in Fibers : chain'[f].rerun = chains[f].rerun
<1>0. SlotInv /\ TiersAgree /\ EndedAlone /\ RunnerOwnsSlot /\ RunnerOwnsSlot' /\ slot \in Entry
  BY DEF PromiseInv, SlotInv, TypeOK
<1>1. CASE RecordRerun(t, chains, ceilings)
  <2>1. slot'.phase = "running" /\ slot.phase = "running" /\ slot'.rerun = MergeTier(slot.rerun, t) /\ chain' = chains
    BY <1>0, <1>1 DEF RecordRerun, Entry
  <2>2. InFlight' = InFlight
    BY <1>0, <2>1, InFlightStays DEF Running
  <2>. QED
    BY <2>1, <2>2 DEF InSlot
<1>2. CASE Replace(t, chains, ceilings)
  <2>1. PICK f \in Fibers, c \in Cycles :
          /\ FreeFiber(f)
          /\ slot' = [phase |-> "pending", fiber |-> f, cycle |-> c,
                      tier |-> MergeTier(slot.tier, t), rerun |-> NoTier]
          /\ chain' = [g \in Fibers |->
                         IF g = f THEN Fork(MergeTier(slot.tier, t), c)
                         ELSE IF Owns(g) /\ chains[g].pc # "free"
                              THEN [chains[g] EXCEPT !.intr = TRUE]
                              ELSE chains[g]]
    BY <1>2 DEF Replace
  <2>2. chain'[f].pc = "forked" /\ chain'[f].rerun = NoTier
    BY <2>1 DEF Fork
  <2>3. \A g \in Fibers : g # f => chain'[g].pc = chains[g].pc /\ chain'[g].rerun = chains[g].rerun
    BY <2>1 DEF Chain
  <2>4. \A g \in Fibers : chain[g].pc # "running"
    BY <1>0, <1>2 DEF Replace, RunnerOwnsSlot, Running
  <2>5. \A g \in Fibers : chain'[g].pc # "running"
    BY <2>2, <2>3, <2>4
  <2>6. InFlight' = InFlight
    BY <1>0, <2>4, <2>5, InFlightStays DEF Running
  <2>7. chains[f].rerun = NoTier
    BY <1>0, <2>1 DEF FreeFiber, EndedAlone
  <2>8. InSlot = slot.tier /\ InSlot' = MergeTier(slot.tier, t)
    BY <1>0, <1>2, <2>1 DEF InSlot, Replace, TiersAgree, Entry, Phase
  <2>. QED
    BY <2>2, <2>3, <2>6, <2>7, <2>8
<1>. QED
  BY <1>1, <1>2 DEF ScheduleFrom

\* A step that moves chains and leaves what they owe is none of the promise's.
LEMMA Unpromised ==
  ASSUME PromiseInv, PromiseInv', InSlot' = InSlot, open' = open,
         \A f \in Fibers : /\ chain'[f].rerun = chain[f].rerun
                           /\ chain'[f].pc = "running" <=> chain[f].pc = "running"
                           /\ Running(f) => chain'[f].tier = chain[f].tier
  PROVE  [Promise!Next]_(Promise!vars)
<1>1. TypeOK /\ TypeOK' /\ RunnerOwnsSlot /\ RunnerOwnsSlot'
  BY DEF PromiseInv, SlotInv
<1>2. HandedOn' = HandedOn /\ InFlight' = InFlight
  BY <1>1, HandedOnStays, InFlightStays
<1>3. Recorded' = Recorded
  <2>1. (TypeOK => Recorded = JoinTier(HandedOn, InSlot))'
    <3>1. (TypeOK => HandedOn \in TierOption /\ InSlot \in TierOption /\ Recorded = JoinTier(HandedOn, InSlot))'
      BY RecordedIs, PTL
    <3>. QED
      BY <3>1
  <2>. QED
    BY <1>1, <1>2, <2>1, OwedTypes
<1>. QED
  BY <1>2, <1>3 DEF Promise!vars

LEMMA PromiseStep ==
  ASSUME PromiseInv, PromiseInv', ~MayDie, [Next]_vars
  PROVE  [Promise!Next]_(Promise!vars)
<1>. USE SchedulerAssumption
<1>0. SlotInv /\ SlotInv' /\ TiersAgree /\ EndedAlone /\ EndedAlone' /\ TypeOK /\ TypeOK' /\ RunnerOwnsSlot /\ RunnerOwnsSlot'
  BY DEF PromiseInv, SlotInv
<1>a. /\ slot \in Entry
      /\ \A f \in Fibers : chain[f] \in Chain
      /\ chain \in [Fibers -> Chain]
      /\ ceiling \in [Cycles -> Ceiling]
  BY <1>0 DEF TypeOK
<1>b. /\ HandedOn \in TierOption /\ InSlot \in TierOption /\ Recorded \in TierOption
      /\ Recorded = JoinTier(HandedOn, InSlot) /\ Recorded' = JoinTier(HandedOn', InSlot')
      /\ HandedOn' \in TierOption /\ InSlot' \in TierOption
      /\ \A f \in Fibers : chain[f].rerun \in TierOption /\ chain[f].tier \in TierOption
  <2>2. (TypeOK => HandedOn \in TierOption /\ InSlot \in TierOption /\ Recorded = JoinTier(HandedOn, InSlot))'
    BY RecordedIs, PTL
  <2>. QED
    BY <1>0, <2>2, OwedTypes
<1>c. /\ (\A f \in Fibers : Running(f)' => InFlight' = chain'[f].tier)
      /\ (\A f \in Fibers : ~Running(f)') => InFlight' = NoTier
  <2>1. (RunnerOwnsSlot =>
    /\ \A f \in Fibers : Running(f) => InFlight = chain[f].tier
    /\ (\A f \in Fibers : ~Running(f)) => InFlight = NoTier)'
    BY InFlightIs, PTL
  <2>. QED
    BY <1>0, <2>1
<1>d. \A f \in Fibers : chain'[f].pc = "ended" /\ chain'[f].rerun \in TierOption => HandedOn' = chain'[f].rerun
  <2>1. (EndedAlone => \A f \in Fibers :
    /\ chain[f].pc = "ended" /\ chain[f].rerun \in TierOption => HandedOn = chain[f].rerun
    /\ (\A g \in Fibers : chain[g].rerun = NoTier) => HandedOn = NoTier)'
    BY HandedOnIs, PTL
  <2>. QED
    BY <1>0, <2>1
<1>1. ASSUME NEW t \in Tier, Schedule(t)
      PROVE  [Promise!Next]_(Promise!vars)
  <2>1. InSlot' = MergeTier(InSlot, t) /\ InFlight' = InFlight /\ open' = open
        /\ \A f \in Fibers : chain'[f].rerun = chain[f].rerun
    BY <1>a, <1>1, ScheduleFromOwes DEF Schedule
  <2>2. Recorded' = MergeTier(Recorded, t)
    BY <1>b, <2>1, HandedOnStays, TierFacts
  <2>. QED
    BY <2>1, <2>2, SameTiers DEF Promise!Next, Promise!Request
<1>2. ASSUME NEW f \in Fibers, Start(f)
      PROVE  [Promise!Next]_(Promise!vars)
  <2>1. \A g \in Fibers : /\ chain'[g].rerun = chain[g].rerun
                          /\ chain'[g].pc = "running" <=> chain[g].pc = "running"
                          /\ chain'[g].tier = chain[g].tier
    BY <1>a, <1>2 DEF Start, Chain
  <2>2. InSlot' = InSlot /\ open' = open
    BY <1>2 DEF Start, InSlot
  <2>. QED
    BY <2>1, <2>2, Unpromised
<1>3. ASSUME NEW f \in Fibers, Claim(f)
      PROVE  [Promise!Next]_(Promise!vars)
  <2>1. CASE Owns(f)
    <3>1. slot.phase = "pending" /\ \A g \in Fibers : chain[g].pc # "ended" /\ chain[g].rerun = NoTier
      BY <1>3, <2>1, NoneReady
    <3>2. slot' = Claimed /\ chain' = [chain EXCEPT ![f].pc = "running", ![f].left = 0] /\ open' = open
      BY <1>3, <2>1 DEF Claim, StillOwns
    <3>3. slot'.phase = "running" /\ slot'.rerun = NoTier
      BY <1>a, <3>2 DEF Claimed, Entry
    <3>4. chain'[f].pc = "running" /\ chain'[f].tier = chain[f].tier /\ chain'[f].rerun = chain[f].rerun
      BY <1>a, <3>2 DEF Chain
    <3>5. \A g \in Fibers : chain'[g].rerun = chain[g].rerun
      BY <1>a, <3>2, <3>4
    <3>6. HandedOn = NoTier /\ HandedOn' = NoTier
      BY <1>0, <3>1, <3>5, HandedOnIs, HandedOnStays
    <3>7. slot.tier # NoTier /\ chain[f].tier = slot.tier
      BY <1>0, <1>3, <2>1, <3>1 DEF TiersAgree, Claim
    <3>8. Recorded = slot.tier /\ Recorded' = NoTier
      BY <1>b, <3>1, <3>3, <3>6, TierFacts DEF InSlot
    <3>9. InFlight = NoTier
      BY <1>0, <3>1, InFlightIs DEF RunnerOwnsSlot
    <3>10. InFlight' = slot.tier
      BY <1>c, <3>4, <3>7 DEF Running
    <3>. QED
      BY <3>2, <3>7, <3>8, <3>9, <3>10, SameTiers DEF Promise!Next, Promise!Begin
  <2>2. CASE ~Owns(f)
    <3>1. /\ chain[f].pc = "sleeping" /\ chain'[f].pc = "finalizing" /\ chain'[f].rerun = NoTier
          /\ \A g \in Fibers : g # f => chain'[g] = chain[g]
      BY <1>a, <1>3, <2>2 DEF Claim, StillOwns, Leaving
    <3>2. UNCHANGED <<slot, open>>
      BY <1>3, <2>2 DEF Claim, StillOwns
    <3>3. chain[f].rerun = NoTier
      BY <1>0, <3>1 DEF EndedAlone
    <3>. QED
      BY <3>1, <3>2, <3>3, Unpromised DEF InSlot, Running
  <2>. QED
    BY <2>1, <2>2
<1>4. ASSUME NEW f \in Fibers, RunEnds(f)
      PROVE  [Promise!Next]_(Promise!vars)
  <2>1. Owns(f) /\ slot.phase = "running" /\ Running(f)
    BY <1>0, <1>4 DEF RunEnds, RunnerOwnsSlot
  <2>2. /\ slot' = Idle /\ open' = open /\ Rerun(f) = slot.rerun
        /\ chain' = [chain EXCEPT ![f].pc = "ended", ![f].rerun = Rerun(f)]
    BY <1>4, <2>1 DEF RunEnds, Reset, Rerun
  <2>3. chain'[f].pc = "ended" /\ chain'[f].rerun = slot.rerun /\ \A g \in Fibers : g # f => chain'[g] = chain[g]
    BY <1>a, <2>2 DEF Chain
  <2>4. slot.rerun \in TierOption
    BY <1>a DEF Entry
  <2>5. HandedOn = NoTier /\ HandedOn' = slot.rerun
    <3>1. \A g \in Fibers : chain[g].rerun = NoTier
      BY <1>0, <2>1 DEF EndedAlone
    <3>. QED
      BY <1>0, <1>d, <2>3, <2>4, <3>1, HandedOnIs
  <2>6. InSlot = slot.rerun /\ InSlot' = NoTier
    BY <2>1, <2>2 DEF InSlot, Idle
  <2>7. Recorded' = Recorded
    BY <1>b, <2>4, <2>5, <2>6, TierFacts
  <2>8. InFlight # NoTier
    BY <1>0, <2>1, InFlightIs DEF TiersAgree
  <2>9. InFlight' = NoTier
    <3>1. \A g \in Fibers : ~Running(g)'
      BY <1>0, <2>1, <2>3 DEF RunnerOwnsSlot, Running, Owns
    <3>. QED
      BY <1>c, <3>1
  <2>. QED
    BY <2>2, <2>7, <2>8, <2>9, SameTiers DEF Promise!Next, Promise!End
<1>5. ASSUME NEW f \in Fibers, RunDies(f)
      PROVE  [Promise!Next]_(Promise!vars)
  BY <1>5 DEF RunDies
<1>6. ASSUME NEW f \in Fibers, Continue(f)
      PROVE  [Promise!Next]_(Promise!vars)
  <2>1. PICK chains : chains = [chain EXCEPT ![f] = Leaving(@)]
    OBVIOUS
  <2>2. PICK ceilings : ceilings = [ceiling EXCEPT ![chain[f].cycle] = Off]
    OBVIOUS
  <2>3. chains \in [Fibers -> Chain] /\ ceilings \in [Cycles -> Ceiling]
    BY <1>a, <2>1, <2>2, ConstantTypes
  <2>4. /\ chain[f].pc = "ended" /\ chains[f].pc = "finalizing" /\ chains[f].rerun = NoTier /\ open' = open
        /\ \A g \in Fibers : g # f => chains[g] = chain[g]
    BY <1>a, <1>6, <2>1 DEF Leaving, Continue
  <2>5. CASE chain[f].rerun = NoTier
    <3>1. chain' = chains /\ UNCHANGED slot
      BY <1>6, <2>1, <2>2, <2>5 DEF Continue
    <3>. QED
      BY <3>1, <2>4, <2>5, Unpromised DEF InSlot, Running
  <2>6. CASE chain[f].rerun # NoTier
    <3>1. chain[f].rerun \in Tier /\ ScheduleFrom(chain[f].rerun, chains, ceilings)
      BY <1>b, <1>6, <2>1, <2>2, <2>6 DEF Continue, TierOption
    <3>2. \A g \in Fibers : \/ chains[g] = chain[g]
                            \/ chains[g].pc = "finalizing" /\ chains[g].rerun = NoTier /\ ~Running(g)
      BY <2>4 DEF Running
    <3>3. /\ InSlot' = MergeTier(InSlot, chain[f].rerun) /\ InFlight' = InFlight
          /\ \A g \in Fibers : chain'[g].rerun = chains[g].rerun
      BY <2>3, <3>1, <3>2, ScheduleFromOwes
    <3>4. HandedOn = chain[f].rerun
      BY <1>0, <1>b, <2>4, HandedOnIs
    <3>5. HandedOn' = NoTier
      <4>1. \A g \in Fibers : chain'[g].rerun = NoTier
        BY <1>0, <2>4, <3>3 DEF EndedAlone
      <4>. QED
        BY <4>1 DEF HandedOn, NoTier
    <3>6. Recorded' = Recorded
      BY <1>b, <3>1, <3>3, <3>4, <3>5, TierFacts
    <3>. QED
      BY <2>4, <3>3, <3>6 DEF Promise!vars
  <2>. QED
    BY <2>5, <2>6
<1>7. ASSUME NEW f \in Fibers, Interrupt(f)
      PROVE  [Promise!Next]_(Promise!vars)
  <2>1. /\ chain'[f].pc \notin {"running", "ended"} /\ chain'[f].rerun = NoTier
        /\ \A g \in Fibers : g # f => chain'[g] = chain[g]
        /\ UNCHANGED <<slot, open>>
    BY <1>a, <1>7 DEF Interrupt, Leaving, FreeChain
  <2>2. CASE chain[f].pc \notin {"running", "ended"}
    <3>1. chain[f].rerun = NoTier
      BY <1>0, <2>2 DEF EndedAlone
    <3>. QED
      BY <2>1, <2>2, <3>1, Unpromised DEF InSlot, Running
  <2>3. CASE chain[f].pc \in {"running", "ended"}
    <3>1. ~open
      BY <1>0, <1>7, <2>3 DEF Interrupt, EndedAlone, SlotInv, OwnerOnCourse, RunnerOwnsSlot, Running
    <3>2. HandedOn' \in {HandedOn, NoTier}
      <4>1. CASE chain[f].rerun = NoTier
        <5>1. \A g \in Fibers : chain'[g].rerun = chain[g].rerun
          BY <2>1, <4>1
        <5>. QED
          BY <5>1, HandedOnStays
      <4>2. CASE chain[f].rerun # NoTier
        <5>1. \A g \in Fibers : chain'[g].rerun = NoTier
          BY <1>0, <2>1, <4>2 DEF EndedAlone
        <5>. QED
          BY <5>1 DEF HandedOn, NoTier
      <4>. QED
        BY <4>1, <4>2
    <3>3. Within(Recorded', Recorded) /\ Recorded' \in TierOption
      <4>1. InSlot' = InSlot
        BY <2>1 DEF InSlot
      <4>. QED
        BY <1>b, <3>2, <4>1, TierFacts
    <3>4. InFlight' \in {InFlight, NoTier}
      <4>1. CASE \E g \in Fibers : Running(g)'
        <5>1. PICK g \in Fibers : Running(g)'
          BY <4>1
        <5>2. g # f /\ Running(g) /\ chain'[g] = chain[g]
          BY <2>1, <5>1 DEF Running
        <5>. QED
          BY <1>0, <1>c, <5>1, <5>2, InFlightIs
      <4>2. CASE \A g \in Fibers : ~Running(g)'
        BY <4>2, <1>c
      <4>. QED
        BY <4>1, <4>2
    <3>. QED
      BY <2>1, <3>1, <3>3, <3>4, SameTiers DEF Promise!Next, Promise!Abandon
  <2>. QED
    BY <2>2, <2>3
<1>8. ASSUME NEW f \in Fibers, Finalize(f)
      PROVE  [Promise!Next]_(Promise!vars)
  <2>1. /\ chain[f].pc = "finalizing" /\ chain'[f].pc = "free" /\ chain'[f].rerun = NoTier
        /\ \A g \in Fibers : g # f => chain'[g] = chain[g]
        /\ slot' = Reset(f) /\ UNCHANGED open
    BY <1>a, <1>8 DEF Finalize, FreeChain
  <2>2. chain[f].rerun = NoTier
    BY <1>0, <2>1 DEF EndedAlone
  <2>3. CASE ~Owns(f)
    BY <2>1, <2>2, <2>3, Unpromised DEF Reset, InSlot, Running
  <2>4. CASE Owns(f)
    <3>1. ~open
      BY <1>0, <1>a, <2>1, <2>4 DEF SlotInv, OwnerOnCourse, TiersAgree, SlotNamesFiber, Owns, Running, Entry, Phase
    <3>2. HandedOn' = HandedOn
      BY <2>1, <2>2, HandedOnStays
    <3>3. InSlot' = NoTier
      BY <2>1, <2>4 DEF Reset, Idle, InSlot
    <3>4. Within(Recorded', Recorded) /\ Recorded' \in TierOption
      BY <1>b, <3>2, <3>3, TierFacts
    <3>5. InFlight' = InFlight
      BY <1>0, <2>1, InFlightStays DEF Running
    <3>. QED
      BY <2>1, <3>1, <3>4, <3>5, SameTiers DEF Promise!Next, Promise!Abandon
  <2>. QED
    BY <2>3, <2>4
<1>9. ASSUME NEW s \in Clients, Settle(s) \/ Read(s)
      PROVE  [Promise!Next]_(Promise!vars)
  <2>1. UNCHANGED <<slot, chain, open>>
    BY <1>9 DEF Settle, Read
  <2>. QED
    BY <2>1, Unpromised DEF InSlot, Running
<1>10. ASSUME NEW c \in Cycles, Fire(c)
       PROVE  [Promise!Next]_(Promise!vars)
  BY <1>10, Unpromised DEF Fire, InSlot, Running
<1>11. ASSUME Tick
       PROVE  [Promise!Next]_(Promise!vars)
  <2>1. \A f \in Fibers : /\ chain'[f].pc = chain[f].pc /\ chain'[f].tier = chain[f].tier
                          /\ chain'[f].rerun = chain[f].rerun
    BY <1>a, <1>11 DEF Tick, Chain
  <2>. QED
    BY <1>11, <2>1, Unpromised DEF Tick, InSlot
<1>12. ASSUME Close
       PROVE  [Promise!Next]_(Promise!vars)
  <2>1. \A f \in Fibers : /\ chain'[f].pc = chain[f].pc /\ chain'[f].tier = chain[f].tier
                          /\ chain'[f].rerun = chain[f].rerun
    BY <1>a, <1>12 DEF Close, Chain
  <2>2. UNCHANGED slot /\ open' = FALSE
    BY <1>12 DEF Close
  <2>3. HandedOn' = HandedOn /\ InFlight' = InFlight
    BY <1>0, <2>1, HandedOnStays, InFlightStays
  <2>4. Recorded' = Recorded
    BY <1>b, <2>2, <2>3 DEF InSlot
  <2>. QED
    BY <2>2, <2>3, <2>4, SameTiers DEF Promise!Next, Promise!Close
<1>13. CASE UNCHANGED vars
  BY <1>13, Unpromised DEF vars, InSlot, Running
<1>. QED
  BY <1>1, <1>2, <1>3, <1>4, <1>5, <1>6, <1>7, <1>8, <1>9, <1>10, <1>11, <1>12,
     <1>13 DEF Next, ChainStep

\* Where no run dies the scheduler implements the coalescer step by step: schedule merges
\* its tier into what is owed, a claim begins a run of exactly what is owed and only when
\* none is in progress, the end of a run hands on all that was asked for meanwhile, and
\* only a closed scope drops any of it.
THEOREM KeepsEveryRequest == ~MayDie => (Spec => PromiseSafety)
<1>. SUFFICES ASSUME ~MayDie
              PROVE  Spec => PromiseSafety
  OBVIOUS
<1>1. Init => PromiseInv
  <2>1. Init => TypeOK
    BY SchedulerAssumption, ConstantTypes DEF Init, TypeOK
  <2>2. Init => SlotNamesFiber /\ RunnerOwnsSlot /\ OwnerOnCourse
    BY SchedulerAssumption DEF Init, Idle, FreeChain, SlotNamesFiber, RunnerOwnsSlot, OwnerOnCourse, Owns, Running
  <2>3. Init => TiersAgree /\ EndedAlone
    BY SchedulerAssumption DEF Init, Idle, FreeChain, TiersAgree, EndedAlone, Owns, Running
  <2>. QED
    BY <2>1, <2>2, <2>3 DEF PromiseInv, SlotInv
<1>2. Init => Promise!Init
  BY SameTiers DEF Init, Promise!Init, Recorded, HandedOn, InFlight, FreeChain, Idle, Running, JoinTier, NoTier
<1>3. PromiseInv /\ [Next]_vars => PromiseInv'
  BY AgreeStep
<1>4. PromiseInv /\ PromiseInv' /\ [Next]_vars => [Promise!Next]_(Promise!vars)
  BY PromiseStep
<1>. QED
  BY <1>1, <1>2, <1>3, <1>4, PTL DEF Spec, PromiseSafety
=============================================================================
