----------------------------- MODULE Scheduler -----------------------------
(***************************************************************************)
(* The debounced revalidation scheduler of one bundle session              *)
(* (packages/lsp/src/session/scheduler.ts).                                *)
(*                                                                         *)
(* The program keeps one slot behind a synchronized permit. Every read-    *)
(* modify-write of the slot holds the permit and never suspends, so each   *)
(* is one action here; between two of them any other fiber may run. A      *)
(* chain is a forked fiber that sleeps out the delay (or the ceiling),     *)
(* claims the slot, runs, hands on what was asked for meanwhile and, on    *)
(* every way out, passes through its finalizer. Time is a Tick that counts *)
(* the sleeping timers down and waits for every fiber that is ready to     *)
(* run, as the runtime's clock does.                                       *)
(***************************************************************************)
EXTENDS Naturals, Tiers

CONSTANTS
  Fibers,     \* Identities of chain fibers. Bounds the chains alive at once.
  Cycles,     \* Identities of ceiling fibers. Bounds the ceilings alive at once.
  Clients,    \* Callers of settle.
  NoFiber,
  NoCycle,
  Delay,      \* SchedulerOptions.delay, in ticks.
  MaxWait,    \* SchedulerOptions.maxWait, in ticks.
  MaxBurst,   \* Bound: schedule calls between two ticks.
  MayDie      \* Whether run may die of a defect.

ASSUME SchedulerAssumption ==
  /\ NoFiber \notin Fibers
  /\ NoCycle \notin Cycles
  /\ Delay \in Nat \ {0}
  /\ MaxWait \in Nat \ {0}
  /\ MaxBurst \in Nat \ {0}
  /\ MayDie \in BOOLEAN

VARIABLES
  slot,       \* The Option<Entry> the permit guards.
  chain,      \* Each chain fiber's progress.
  ceiling,    \* Each ceiling fiber and the forceNow deferred it resolves.
  settler,    \* Where each caller of settle stands.
  open,       \* FALSE once the scope is closed.
  burst,      \* Schedule calls since the last tick.
  age,        \* History: ticks since the pending cycle began.
  due         \* History: what a settle call found outstanding.

vars == <<slot, chain, ceiling, settler, open, burst, age, due>>

-----------------------------------------------------------------------------
Phase == {"idle", "pending", "running"}

Idle == [phase |-> "idle", fiber |-> NoFiber, cycle |-> NoCycle,
         tier |-> NoTier, rerun |-> NoTier]

FreeChain == [pc |-> "free", tier |-> NoTier, cycle |-> NoCycle,
              left |-> 0, intr |-> FALSE, rerun |-> NoTier]

\* A chain on its way out: only the finalizer is left.
Leaving(ch) == [pc |-> "finalizing", tier |-> ch.tier, cycle |-> NoCycle,
                left |-> 0, intr |-> FALSE, rerun |-> NoTier]

Off == [status |-> "off", left |-> 0]

Owns(f) == slot.fiber = f

Running(f) == chain[f].pc = "running"

\* The race between the delay and the forceNow deferred is decided.
Ready(f) == \/ chain[f].left = 0
            \/ ceiling[chain[f].cycle].status = "fired"

FreeFiber(f) == chain[f].pc = "free" /\ ~Owns(f)

\* Everything asked for and not begun: the pending chain's tier, the rerun a
\* running chain will take, and the rerun a chain took and has yet to schedule.
HandedOn == IF \E f \in Fibers : chain[f].rerun = "full" THEN "full"
            ELSE IF \E f \in Fibers : chain[f].rerun = "edit" THEN "edit" ELSE NoTier

Recorded == JoinTier(HandedOn, IF slot.phase = "pending" THEN slot.tier ELSE slot.rerun)

Away == [at |-> "away", fiber |-> NoFiber]

\* The callers of settle that awaited fiber f read the slot again.
Woken(f) == [s \in DOMAIN settler |->
               IF settler[s].fiber = f THEN [at |-> "reading", fiber |-> NoFiber]
               ELSE settler[s]]

-----------------------------------------------------------------------------
(***************************************************************************)
(* schedule. The caller holds the permit throughout, and may itself be a   *)
(* chain: chains and ceilings are the two functions as the caller's own    *)
(* earlier effects in the same step leave them.                            *)
(***************************************************************************)
RecordRerun(t, chains, ceilings) ==
  /\ slot.phase = "running"
  /\ slot' = [slot EXCEPT !.rerun = MergeTier(@, t)]
  /\ chain' = chains
  /\ ceiling' = ceilings

FreeCycle(c, chains, ceilings) ==
  /\ ceilings[c].status # "counting"
  /\ \A f \in Fibers : chains[f].cycle # c

\* An idle slot starts a cycle of its own; a pending one carries its cycle on.
CycleFor(c, chains, ceilings) ==
  \/ /\ slot.phase = "idle"
     /\ FreeCycle(c, chains, ceilings)
     /\ ceiling' = [ceilings EXCEPT ![c] =
                      IF open THEN [status |-> "counting", left |-> MaxWait] ELSE Off]
  \/ /\ slot.phase = "pending"
     /\ c = slot.cycle
     /\ ceiling' = ceilings

\* Forking into a closed scope interrupts the fiber before it starts.
Fork(t, c) == [pc |-> "forked", tier |-> t, cycle |-> c,
               left |-> 0, intr |-> ~open, rerun |-> NoTier]

\* The superseded chain's interrupt is forked, not awaited: requested here,
\* delivered by Interrupt.
Replace(t, chains, ceilings) ==
  /\ slot.phase # "running"
  /\ \E f \in Fibers, c \in Cycles :
       /\ FreeFiber(f)
       /\ CycleFor(c, chains, ceilings)
       /\ slot' = [phase |-> "pending", fiber |-> f, cycle |-> c,
                   tier |-> MergeTier(slot.tier, t), rerun |-> NoTier]
       /\ chain' = [g \in Fibers |->
                      IF g = f THEN Fork(MergeTier(slot.tier, t), c)
                      ELSE IF Owns(g) /\ chains[g].pc # "free"
                           THEN [chains[g] EXCEPT !.intr = TRUE]
                           ELSE chains[g]]

ScheduleFrom(t, chains, ceilings) ==
  /\ \/ RecordRerun(t, chains, ceilings)
     \/ Replace(t, chains, ceilings)
  /\ age' = IF slot.phase = "idle" THEN 0 ELSE age

Schedule(t) ==
  /\ burst < MaxBurst
  /\ burst' = burst + 1
  /\ ScheduleFrom(t, chain, ceiling)
  /\ UNCHANGED <<settler, open, due>>

-----------------------------------------------------------------------------
(***************************************************************************)
(* A chain's own steps.                                                    *)
(***************************************************************************)

Start(f) ==
  /\ chain[f].pc = "forked"
  /\ chain' = [chain EXCEPT ![f].pc = "sleeping", ![f].left = Delay]
  /\ UNCHANGED <<slot, ceiling, settler, open, burst, age, due>>

\* Faulty: the claim is not checked.
StillOwnsUnchecked(f) == TRUE

StillOwns(f) == Owns(f)

Claimed == [slot EXCEPT !.phase = "running", !.rerun = NoTier]

\* The claim: the run starts only if no later schedule took the slot over.
Claim(f) ==
  /\ chain[f].pc = "sleeping"
  /\ Ready(f)
  /\ IF StillOwns(f)
     THEN /\ slot' = Claimed
          /\ chain' = [chain EXCEPT ![f].pc = "running", ![f].left = 0]
          /\ due' = [s \in Clients |-> IF due[s] = "owed" THEN "begun" ELSE due[s]]
     ELSE /\ chain' = [chain EXCEPT ![f] = Leaving(@)]
          /\ UNCHANGED <<slot, due>>
  /\ UNCHANGED <<ceiling, settler, open, burst, age>>

\* A run in progress, however it ends, is no longer outstanding.
RunOver == due' = [s \in Clients |-> IF due[s] = "begun" THEN "clear" ELSE due[s]]

\* Faulty: the rerun is dropped; the chain reruns for ever; the slot stays taken.
RerunDropped(f) == NoTier
RerunAlways(f) == MergeTier(slot.rerun, chain[f].tier)
ResetSkipped(f) == slot

\* The rerun to take and the reset to idle, both only for the slot's own chain.
Rerun(f) == IF Owns(f) THEN slot.rerun ELSE NoTier
Reset(f) == IF Owns(f) THEN Idle ELSE slot

\* The run succeeded: take the rerun recorded meanwhile and free the slot, in one write.
RunEnds(f) ==
  /\ Running(f)
  /\ chain' = [chain EXCEPT ![f].pc = "ended", ![f].rerun = Rerun(f)]
  /\ slot' = Reset(f)
  /\ RunOver
  /\ UNCHANGED <<ceiling, settler, open, burst, age>>

\* The run died: the chain goes straight to its finalizer.
RunDies(f) ==
  /\ MayDie
  /\ Running(f)
  /\ chain' = [chain EXCEPT ![f] = Leaving(@)]
  /\ RunOver
  /\ UNCHANGED <<slot, ceiling, settler, open, burst, age>>

\* After a successful run: interrupt the ceiling, then schedule the rerun it took.
Continue(f) ==
  /\ chain[f].pc = "ended"
  /\ LET chains   == [chain EXCEPT ![f] = Leaving(@)]
         ceilings == [ceiling EXCEPT ![chain[f].cycle] = Off]
     IN  IF chain[f].rerun = NoTier
         THEN /\ chain' = chains
              /\ ceiling' = ceilings
              /\ UNCHANGED <<slot, age>>
         ELSE ScheduleFrom(chain[f].rerun, chains, ceilings)
  /\ UNCHANGED <<settler, open, burst, due>>

\* An interrupt lands. A fiber that never started has no finalizer to run.
Interrupt(f) ==
  /\ chain[f].intr
  /\ chain[f].pc \in {"forked", "sleeping", "running", "ended"}
  /\ IF chain[f].pc = "forked"
     THEN chain' = [chain EXCEPT ![f] = FreeChain]
     ELSE chain' = [chain EXCEPT ![f] = Leaving(@)]
  /\ IF Running(f) THEN RunOver ELSE UNCHANGED due
  /\ settler' = IF chain[f].pc = "forked" THEN Woken(f) ELSE settler
  /\ UNCHANGED <<slot, ceiling, open, burst, age>>

\* The finalizer resets the slot, but only the slot of its own chain.
Finalize(f) ==
  /\ chain[f].pc = "finalizing"
  /\ chain' = [chain EXCEPT ![f] = FreeChain]
  /\ slot' = Reset(f)
  /\ settler' = Woken(f)
  /\ UNCHANGED <<ceiling, open, burst, age, due>>

-----------------------------------------------------------------------------
(***************************************************************************)
(* settle, the clock and the scope.                                        *)
(***************************************************************************)
\* The work a caller of settle finds outstanding.
Outstanding == IF Recorded # NoTier THEN "owed"
               ELSE IF \E f \in Fibers : Running(f) THEN "begun" ELSE "clear"

Settle(s) ==
  /\ settler[s].at = "away"
  /\ settler' = [settler EXCEPT ![s].at = "reading"]
  /\ due' = [due EXCEPT ![s] = Outstanding]
  /\ UNCHANGED <<slot, chain, ceiling, open, burst, age>>

\* One turn of settle's loop: return on an idle slot, else await its fiber,
\* which is over at once when the fiber is already gone.
Read(s) ==
  /\ settler[s].at = "reading"
  /\ settler' = [settler EXCEPT ![s] =
                   IF slot.phase = "idle" THEN Away
                   ELSE IF chain[slot.fiber].pc = "free" THEN @
                   ELSE [at |-> "waiting", fiber |-> slot.fiber]]
  /\ UNCHANGED <<slot, chain, ceiling, open, burst, age, due>>

\* maxWait elapsed: resolve forceNow.
Fire(c) ==
  /\ ceiling[c] = [status |-> "counting", left |-> 0]
  /\ ceiling' = [ceiling EXCEPT ![c].status = "fired"]
  /\ UNCHANGED <<slot, chain, settler, open, burst, age, due>>

\* Nothing is ready to run: every fiber sleeps, runs, or is gone.
Quiet ==
  /\ \A f \in Fibers : \/ chain[f].pc \in {"free", "running"}
                       \/ chain[f].pc = "sleeping" /\ ~Ready(f) /\ ~chain[f].intr
  /\ \A c \in Cycles : ceiling[c].status = "counting" => ceiling[c].left > 0
  /\ \A s \in Clients : settler[s].at # "reading"

Tick ==
  /\ Quiet
  /\ chain' = [f \in Fibers |-> IF chain[f].pc = "sleeping"
                                THEN [chain[f] EXCEPT !.left = @ - 1] ELSE chain[f]]
  /\ ceiling' = [c \in Cycles |-> IF ceiling[c].status = "counting"
                                  THEN [ceiling[c] EXCEPT !.left = @ - 1] ELSE ceiling[c]]
  /\ age' = IF slot.phase = "pending" /\ age <= MaxWait THEN age + 1 ELSE age
  /\ burst' = 0
  /\ UNCHANGED <<slot, settler, open, due>>

\* The scope closes: every fiber forked into it is interrupted.
Close ==
  /\ open
  /\ open' = FALSE
  /\ chain' = [f \in Fibers |-> IF chain[f].pc \in {"free", "finalizing"} THEN chain[f]
                                ELSE [chain[f] EXCEPT !.intr = TRUE]]
  /\ ceiling' = [c \in Cycles |-> IF ceiling[c].status = "counting" THEN Off ELSE ceiling[c]]
  /\ UNCHANGED <<slot, settler, burst, age, due>>

-----------------------------------------------------------------------------
Init ==
  /\ slot = Idle
  /\ chain = [f \in Fibers |-> FreeChain]
  /\ ceiling = [c \in Cycles |-> Off]
  /\ settler = [s \in Clients |-> Away]
  /\ open = TRUE
  /\ burst = 0
  /\ age = 0
  /\ due = [s \in Clients |-> "clear"]

ChainStep(f) == \/ Start(f)
                \/ Claim(f)
                \/ RunEnds(f)
                \/ Continue(f)
                \/ Interrupt(f)
                \/ Finalize(f)

Next == \/ \E t \in Tier : Schedule(t)
        \/ \E f \in Fibers : ChainStep(f) \/ RunDies(f)
        \/ \E s \in Clients : Settle(s) \/ Read(s)
        \/ \E c \in Cycles : Fire(c)
        \/ Tick
        \/ Close

(***************************************************************************)
(* The runtime eventually runs every ready fiber; a run ends; time goes on *)
(* once nothing is ready. MaxBurst keeps schedule calls from filling one   *)
(* instant for ever.                                                       *)
(***************************************************************************)
Fairness == /\ \A f \in Fibers : WF_vars(ChainStep(f))
            /\ \A s \in Clients : WF_vars(Read(s))
            /\ \A c \in Cycles : WF_vars(Fire(c))
            /\ SF_vars(Tick)

Spec == Init /\ [][Next]_vars /\ Fairness

-----------------------------------------------------------------------------
PC == {"free", "forked", "sleeping", "running", "ended", "finalizing"}

Entry == [phase : Phase, fiber : Fibers \union {NoFiber}, cycle : Cycles \union {NoCycle},
          tier : TierOption, rerun : TierOption]

Chain == [pc : PC, tier : TierOption, cycle : Cycles \union {NoCycle},
          left : 0 .. Delay, intr : BOOLEAN, rerun : TierOption]

Ceiling == [status : {"off", "counting", "fired"}, left : 0 .. MaxWait]

Waiter == [at : {"away", "reading", "waiting"}, fiber : Fibers \union {NoFiber}]

\* The types of the state, and the ranges its timers stay in: a chain sleeps at
\* most the delay, a ceiling at most maxWait.
TypeOK ==
  /\ slot \in Entry
  /\ chain \in [Fibers -> Chain]
  /\ ceiling \in [Cycles -> Ceiling]
  /\ settler \in [Clients -> Waiter]
  /\ open \in BOOLEAN
  /\ burst \in 0 .. MaxBurst
  /\ age \in 0 .. MaxWait + 1
  /\ due \in [Clients -> {"clear", "owed", "begun"}]

\* No two revalidations of a session overlap, whatever schedule calls, interrupts
\* and deaths do around the slot (makeScheduler: at most one chain in flight).
OneRun == \A f, g \in Fibers : Running(f) /\ Running(g) => f = g

\* The slot never points at a dead fiber while the scope is open, and it says
\* "running" only of a chain that claimed it: a ghost entry would swallow every
\* later schedule call as a rerun nobody consumes.
NoGhost ==
  open /\ slot.phase # "idle" =>
    /\ chain[slot.fiber].pc # "free"
    /\ slot.phase = "running" => chain[slot.fiber].pc \in {"running", "finalizing"}

\* Only closing the scope interrupts a run in progress: schedule's replacement of
\* a pending chain never lands on one that has claimed the slot meanwhile.
RunNotAborted == open => \A f \in Fibers : Running(f) => ~chain[f].intr

\* A burst of schedule calls that never quiets defers the run by at most maxWait
\* from the first call of its cycle (SchedulerOptions.maxWait).
CeilingBound == open /\ slot.phase = "pending" => age <= MaxWait

\* Why the four hold: a slot names a fiber exactly when it is taken, only the fiber it
\* names can be running, a chain whose run ended has let go of it, and while the scope
\* is open the named fiber is where the slot says with no interrupt on its way.
SlotNamesFiber == slot.phase = "idle" <=> slot.fiber = NoFiber
RunnerOwnsSlot == \A f \in Fibers : /\ Running(f) => Owns(f) /\ slot.phase = "running"
                                    /\ chain[f].pc = "ended" => ~Owns(f)
OwnerOnCourse ==
  open => \A f \in Fibers : Owns(f) =>
    /\ ~chain[f].intr
    /\ slot.phase = "pending" => chain[f].pc \in {"forked", "sleeping"}
    /\ slot.phase = "running" => chain[f].pc \in {"running", "finalizing"}
SlotInv == TypeOK /\ SlotNamesFiber /\ RunnerOwnsSlot /\ OwnerOnCourse

\* Why CeilingBound holds: a pending chain's ceiling has counted as long as its cycle is
\* old, and no chain whose run ended can interrupt that ceiling.
CycleCounts ==
  open /\ slot.phase = "pending" =>
    /\ slot.cycle \in Cycles
    /\ \A f \in Fibers : IF Owns(f) THEN chain[f].cycle = slot.cycle
                         ELSE chain[f].pc = "ended" => chain[f].cycle # slot.cycle
    /\ \/ ceiling[slot.cycle].status = "fired" /\ age <= MaxWait
       \/ ceiling[slot.cycle].status = "counting" /\ age + ceiling[slot.cycle].left <= MaxWait

-----------------------------------------------------------------------------
InFlight == IF \E f \in Fibers : Running(f)
            THEN chain[CHOOSE f \in Fibers : Running(f)].tier ELSE NoTier

Promise == INSTANCE Coalescer WITH owed <- Recorded, inFlight <- InFlight

\* Why it keeps its promise, step by step, where no run dies: the pending chain carries
\* the tier of the slot; only one chain at a time has a rerun to schedule, it is not
\* interrupted while the scope is open, and until it has scheduled that rerun no chain
\* claims, for what it finds pending was only just scheduled.
TiersAgree ==
  /\ slot.phase = "idle" => slot.tier = NoTier
  /\ slot.phase = "pending" => slot.tier # NoTier
  /\ slot.phase # "running" => slot.rerun = NoTier
  /\ \A f \in Fibers : /\ Running(f) => chain[f].tier # NoTier
                       /\ (slot.phase = "pending" /\ Owns(f) /\ chain[f].pc \in {"forked", "sleeping"}) =>
                            chain[f].tier = slot.tier /\ chain[f].cycle = slot.cycle
                       /\ (slot.phase = "running" /\ Owns(f)) => Running(f) \/ (~open /\ chain[f].pc = "finalizing")
EndedAlone ==
  \A f \in Fibers : IF chain[f].pc = "ended"
    THEN /\ slot.phase # "running"
         /\ open => ~chain[f].intr
         /\ \A g \in Fibers : chain[g].pc = "ended" => g = f
         /\ slot.phase = "pending" =>
              /\ \A g \in Fibers : Owns(g) /\ chain[g].pc = "sleeping" => chain[g].left = Delay
              /\ slot.cycle \in Cycles
              /\ \/ ceiling[slot.cycle].status = "off"
                 \/ ceiling[slot.cycle] = [status |-> "counting", left |-> MaxWait]
    ELSE chain[f].rerun = NoTier
PromiseInv == SlotInv /\ TiersAgree /\ EndedAlone

\* The scheduler keeps its promise: every request is merged into what is owed, a
\* run takes exactly what is owed (a "full" never downgrades), nothing is dropped
\* while the scope is open, and what is owed is eventually run, even under
\* schedule calls that never stop.
KeepsPromise == Promise!Spec

\* Its part without fairness: no step does to what is owed and in progress but what the
\* promise allows.
PromiseSafety == Promise!Init /\ [][Promise!Next]_(Promise!vars)

SchedulingStops == <>[][\A t \in Tier : ~Schedule(t)]_vars

\* Once schedule calls stop, every caller of settle gets its answer, however its
\* chain was replaced or rerun meanwhile (unless the scope closes).
SettleReturns ==
  SchedulingStops =>
    \A s \in Clients : settler[s].at # "away" ~> settler[s].at = "away" \/ ~open

\* The documentation of settle: it waits for a run in flight, or just scheduled, to
\* finish, so that when it returns nothing it found outstanding is left undone.
SettleCovers ==
  open => \A s \in Clients : settler[s].at = "away" => due[s] = "clear"

\* The documentation of settle: it returns at once when there is nothing to wait for
\* and is never held up by a chain that was interrupted, on a closed scope too.
SettleEnds ==
  SchedulingStops =>
    \A s \in Clients : settler[s].at # "away" ~> settler[s].at = "away"
=============================================================================
