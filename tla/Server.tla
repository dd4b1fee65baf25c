------------------------------- MODULE Server -------------------------------
(***************************************************************************)
(* The language server's life on the wire: dispatch of the client's        *)
(* messages, the queue of notification work, shutdown, and the end of the  *)
(* input, which the transport observes twice                               *)
(* (packages/lsp/src/server.ts, packages/lsp/src/protocol/reference.ts).   *)
(*                                                                         *)
(* One session, whose scheduler is reduced to its slot and what it owes    *)
(* (module Scheduler has the rest). The library delivers messages first    *)
(* in, first out; the runtime starts the fibers of handlers in that order. *)
(***************************************************************************)
EXTENDS Naturals, Sequences, FiniteSets

CONSTANTS
  MaxSent   \* Bound: messages the client sends.

ASSUME ServerAssumption == MaxSent \in Nat

VARIABLES
  kind,     \* What the client sent, in order: message i is kind[i].
  input,    \* "open", "ended" after a whole message, or "cut" within one.
  wire,     \* Messages in the reader, decoded or not, and not yet dispatched.
  handler,  \* The fiber of each message's handler.
  reply,    \* The response to each request.
  reads,    \* Whether the client still reads what it is sent.
  slow,     \* Whether decoding what is buffered outlasts the fallback's sleep.
  work,     \* The queue of notification work; a marker is shutdown's message.
  slot,     \* The scheduler: "idle", "pending" or "running".
  owed,     \* The messages whose revalidate is pending, or recorded as the rerun.
  running,  \* Those the run in progress revalidates.
  taken,    \* Those whose rerun was taken and has yet to be scheduled.
  drain,    \* The drain the fallback timer starts and the one the sentinel does.
  sentinelSeen,
  outcome,  \* What listen resolves with, or "none".
  scope     \* "open", or "closed" once what listen resolved with ended the program.

vars == <<kind, input, wire, handler, reply, reads, slow, work, slot, owed, running, taken,
          drain, sentinelSeen, outcome, scope>>
client == <<kind, input, reads, slow>>
session == <<slot, owed, running, taken>>
ending == <<drain, sentinelSeen, outcome, scope>>

-----------------------------------------------------------------------------
Kind == {"note", "ask", "shutdown", "exit"}

Messages == 1 .. MaxSent

\* The reserved notification the transport appends when the input ends.
Sentinel == 0

Of(kinds) == {i \in 1 .. Len(kind) : kind[i] \in kinds}

InProgress == {i \in Messages : handler[i] \notin {"none", "over"}}

\* messagesInFlight: requests dispatched whose response is not written.
MessagesInFlight == {i \in Of({"ask", "shutdown"}) : handler[i] # "none" /\ reply[i] # "written"}

WritesInFlight == {i \in Messages : reply[i] = "writing"}

Sleeping == [at |-> "sleeping", awaits |-> {}]
Over == [at |-> "over", awaits |-> {}]

\* Faulty: whoever finishes last decides.
FinishOver(reason) == outcome' = reason

\* The outcome is decided once.
Finish(reason) == outcome' = IF outcome = "none" THEN reason ELSE outcome

-----------------------------------------------------------------------------
(***************************************************************************)
(* The client.                                                             *)
(***************************************************************************)
Send(k) ==
  /\ input = "open"
  /\ scope = "open"
  /\ Len(kind) < MaxSent
  /\ kind' = Append(kind, k)
  /\ wire' = Append(wire, Len(kind) + 1)
  /\ UNCHANGED <<input, reads, slow, handler, reply, work, session, ending>>

StopReading ==
  /\ reads
  /\ reads' = FALSE
  /\ UNCHANGED <<kind, input, slow, wire, handler, reply, work, session, ending>>

\* onInputEnded: the sentinel is written behind everything piped, and the fallback
\* timer started. Within a truncated message the reader never sees the sentinel.
InputEnds(how) ==
  /\ input = "open"
  /\ scope = "open"
  /\ input' = how
  /\ wire' = IF how = "cut" THEN wire ELSE Append(wire, Sentinel)
  /\ drain' = [drain EXCEPT !.fallback = Sleeping]
  /\ UNCHANGED <<kind, reads, slow, handler, reply, work, session, sentinelSeen, outcome, scope>>

-----------------------------------------------------------------------------
(***************************************************************************)
(* Dispatch, in order. A handler's fiber is in the set of handlers before  *)
(* any of its code runs.                                                   *)
(***************************************************************************)
First == Head(wire)

DispatchHandled ==
  /\ wire # <<>>
  /\ First \in Of({"note", "ask", "shutdown"})
  /\ wire' = Tail(wire)
  /\ handler' = [handler EXCEPT ![First] = "ready"]
  /\ UNCHANGED <<client, reply, work, session, ending>>

DispatchExit ==
  /\ wire # <<>>
  /\ First \in Of({"exit"})
  /\ wire' = Tail(wire)
  /\ Finish("exit")
  /\ UNCHANGED <<client, handler, reply, work, session, drain, sentinelSeen, scope>>

\* The drain a sentinel starts awaits the messages in flight when it was dispatched.
SentinelDrain == [at |-> "emptying", awaits |-> MessagesInFlight]

\* The sentinel cancels the fallback, and drains unless listen has resolved already.
DispatchSentinel ==
  /\ wire # <<>>
  /\ First = Sentinel
  /\ wire' = Tail(wire)
  /\ sentinelSeen' = TRUE
  /\ drain' = [fallback |-> Over, sentinel |-> IF outcome = "none" THEN SentinelDrain ELSE Over]
  /\ UNCHANGED <<client, handler, reply, work, session, outcome, scope>>

-----------------------------------------------------------------------------
(***************************************************************************)
(* Handlers. Fibers that were forked earlier start earlier.                *)
(***************************************************************************)
Starts(i) == handler[i] = "ready" /\ \A j \in 1 .. i - 1 : handler[j] # "ready"

\* A notification enqueues its work.
Enqueue(i) ==
  /\ i \in Of({"note"})
  /\ Starts(i)
  /\ work' = Append(work, i)
  /\ handler' = [handler EXCEPT ![i] = "over"]
  /\ UNCHANGED <<client, wire, reply, session, ending>>

AskStarts(i) ==
  /\ i \in Of({"ask"})
  /\ Starts(i)
  /\ handler' = [handler EXCEPT ![i] = "asking"]
  /\ UNCHANGED <<client, wire, reply, work, session, ending>>

\* The handler is over and its response is being written.
Respond(i) ==
  /\ handler' = [handler EXCEPT ![i] = "over"]
  /\ reply' = [reply EXCEPT ![i] = "writing"]

AskAnswers(i) ==
  /\ handler[i] = "asking"
  /\ Respond(i)
  /\ UNCHANGED <<client, wire, work, session, ending>>

Marked(i) == /\ work' = Append(work, i)
             /\ handler' = [handler EXCEPT ![i] = "draining"]

\* shutdown enqueues its marker, waits until it has run ...
ShutdownStarts(i) ==
  /\ i \in Of({"shutdown"})
  /\ Starts(i)
  /\ Marked(i)
  /\ UNCHANGED <<client, wire, reply, session, ending>>

\* ... and then for the scheduler to settle: a settle that reads an idle slot returns.
ShutdownAnswers(i) ==
  /\ handler[i] = "settling"
  /\ slot = "idle"
  /\ Respond(i)
  /\ UNCHANGED <<client, wire, work, session, ending>>

Written(i) ==
  /\ reply[i] = "writing"
  /\ reads
  /\ reply' = [reply EXCEPT ![i] = "written"]
  /\ UNCHANGED <<client, wire, handler, work, session, ending>>

-----------------------------------------------------------------------------
(***************************************************************************)
(* The one fiber that drains the queue, and the session's scheduler.       *)
(***************************************************************************)
Schedule(is) == /\ owed' = owed \union is
                /\ slot' = IF slot = "idle" THEN "pending" ELSE slot

\* A unit of work schedules a revalidate ...
Work ==
  /\ work # <<>>
  /\ Head(work) \in Of({"note"})
  /\ work' = Tail(work)
  /\ Schedule({Head(work)})
  /\ UNCHANGED <<client, wire, handler, reply, running, taken, ending>>

\* Faulty: a defect ends the fiber, and with it the queue.
AfterDefectNone == <<>>

AfterDefect == Tail(work)

\* ... or dies of a defect, which is logged.
WorkDies ==
  /\ work # <<>>
  /\ Head(work) \in Of({"note"})
  /\ work' = AfterDefect
  /\ UNCHANGED <<client, wire, handler, reply, session, ending>>

Mark ==
  /\ work # <<>>
  /\ Head(work) \in Of({"shutdown"})
  /\ work' = Tail(work)
  /\ handler' = [handler EXCEPT ![Head(work)] = "settling"]
  /\ UNCHANGED <<client, wire, reply, session, ending>>

Claim ==
  /\ slot = "pending"
  /\ slot' = "running"
  /\ running' = owed
  /\ owed' = {}
  /\ UNCHANGED <<client, wire, handler, reply, work, taken, ending>>

RunEnds ==
  /\ slot = "running"
  /\ slot' = "idle"
  /\ running' = {}
  /\ taken' = taken \union owed
  /\ owed' = {}
  /\ UNCHANGED <<client, wire, handler, reply, work, ending>>

Continue ==
  /\ taken # {}
  /\ Schedule(taken)
  /\ taken' = {}
  /\ UNCHANGED <<client, wire, handler, reply, work, running, ending>>

-----------------------------------------------------------------------------
(***************************************************************************)
(* The drains.                                                             *)
(***************************************************************************)
\* SENTINEL_FALLBACK_TIMEOUT is over: without the sentinel, drain what there is.
Expire ==
  /\ drain.fallback.at = "sleeping"
  /\ slow \/ wire = <<>>
  /\ drain' = [drain EXCEPT !.fallback = IF sentinelSeen THEN Over
                                         ELSE [at |-> "emptying", awaits |-> {}]]
  /\ UNCHANGED <<client, wire, handler, reply, work, session, sentinelSeen, outcome, scope>>

\* What a drain awaits once no handler is left: its messages and the writes in flight.
Awaits(d) == WritesInFlight \union IF d = "fallback" THEN MessagesInFlight ELSE drain[d].awaits

Emptied(d) ==
  /\ drain[d].at = "emptying"
  /\ InProgress = {}
  /\ drain' = [drain EXCEPT ![d] = [at |-> "writing", awaits |-> Awaits(d)]]
  /\ UNCHANGED <<client, wire, handler, reply, work, session, sentinelSeen, outcome, scope>>

\* The writes are done, or WRITE_SETTLE_TIMEOUT is over on a client that stopped reading.
WritesDone(d) == reads => \A i \in drain[d].awaits : reply[i] = "written"

Drained(d) ==
  /\ drain[d].at = "writing"
  /\ WritesDone(d)
  /\ drain' = [drain EXCEPT ![d] = Over]
  /\ Finish("closed")
  /\ UNCHANGED <<client, wire, handler, reply, work, session, sentinelSeen, scope>>

\* listen has resolved: the scope closes, which interrupts handlers, drains and the
\* queue's fiber, and the process ends.
CloseScope ==
  /\ outcome # "none"
  /\ scope = "open"
  /\ scope' = "closed"
  /\ handler' = [i \in Messages |-> IF handler[i] = "none" THEN "none" ELSE "over"]
  /\ reply' = [i \in Messages |-> IF reply[i] = "writing" THEN "none" ELSE reply[i]]
  /\ wire' = <<>>
  /\ work' = <<>>
  /\ slot' = "idle"
  /\ owed' = {}
  /\ running' = {}
  /\ taken' = {}
  /\ drain' = [fallback |-> Over, sentinel |-> Over]
  /\ UNCHANGED <<client, sentinelSeen, outcome>>

-----------------------------------------------------------------------------
Init ==
  /\ kind = <<>>
  /\ input = "open"
  /\ wire = <<>>
  /\ handler = [i \in Messages |-> "none"]
  /\ reply = [i \in Messages |-> "none"]
  /\ reads = TRUE
  /\ slow \in BOOLEAN
  /\ work = <<>>
  /\ slot = "idle"
  /\ owed = {}
  /\ running = {}
  /\ taken = {}
  /\ drain = [fallback |-> Over, sentinel |-> Over]
  /\ sentinelSeen = FALSE
  /\ outcome = "none"
  /\ scope = "open"

Client == \/ \E k \in Kind : Send(k)
          \/ StopReading
          \/ \E how \in {"ended", "cut"} : InputEnds(how)

Dispatch == DispatchHandled \/ DispatchExit \/ DispatchSentinel

Handle(i) == \/ Enqueue(i)
             \/ AskStarts(i)
             \/ AskAnswers(i)
             \/ ShutdownStarts(i)
             \/ ShutdownAnswers(i)

Worker == Work \/ WorkDies \/ Mark

Chain == Claim \/ RunEnds \/ Continue

Drains == \/ Expire
          \/ \E d \in {"fallback", "sentinel"} : Emptied(d) \/ Drained(d)

Next == \/ Client
        \/ Dispatch
        \/ \E i \in Messages : Handle(i) \/ Written(i)
        \/ Worker
        \/ Chain
        \/ Drains
        \/ CloseScope

\* Whatever is ready runs, handlers and runs end, and a client that reads takes what
\* is written. Nothing makes the client do anything.
Fairness == /\ WF_vars(Dispatch)
            /\ \A i \in Messages : WF_vars(Handle(i)) /\ WF_vars(Written(i))
            /\ WF_vars(Worker)
            /\ WF_vars(Chain)
            /\ WF_vars(Drains)
            /\ WF_vars(CloseScope)

Spec == Init /\ [][Next]_vars /\ Fairness

-----------------------------------------------------------------------------
TypeOK ==
  /\ kind \in Seq(Kind) /\ Len(kind) <= MaxSent
  /\ input \in {"open", "ended", "cut"}
  /\ wire \in Seq(Of(Kind) \union {Sentinel})
  /\ handler \in [Messages -> {"none", "ready", "asking", "draining", "settling", "over"}]
  /\ reply \in [Messages -> {"none", "writing", "written"}]
  /\ reads \in BOOLEAN
  /\ slow \in BOOLEAN
  /\ work \in Seq(Of({"note", "shutdown"}))
  /\ slot \in {"idle", "pending", "running"}
  /\ \A is \in {owed, running, taken} : is \subseteq Of({"note"})
  /\ drain \in [{"fallback", "sentinel"} ->
                 [at : {"sleeping", "emptying", "writing", "over"}, awaits : SUBSET Messages]]
  /\ sentinelSeen \in BOOLEAN
  /\ outcome \in {"none", "exit", "closed"}
  /\ scope \in {"open", "closed"}

Queued == {work[n] : n \in 1 .. Len(work)}

\* shutdown is answered after what the client sent before it (server.ts 94-98): every
\* notification sent earlier has been worked, and no revalidate of one is pending or
\* running. A run's rerun between being taken and being scheduled is not waited for
\* (module Scheduler, SettlesAfterChain): such messages are in taken.
ShutdownAnswered ==
  \A i \in Of({"shutdown"}) : \A j \in Of({"note"}) :
    (j < i /\ handler[i] = "settling" /\ handler'[i] = "over" /\ scope' = "open") =>
      /\ handler[j] = "over"
      /\ j \notin Queued \union owed \union running

ShutdownCovers == [][ShutdownAnswered]_vars

\* listen resolves "closed" (reference.ts 98-106) only when no handler is in progress
\* and, for a client that still reads, every request it sent is answered: no message
\* is left undispatched, unless decoding was outlasted by the fallback.
Closed ==
  (outcome = "none" /\ outcome' = "closed" /\ ~slow) =>
    /\ wire = <<>>
    /\ InProgress = {}
    /\ reads => \A i \in Of({"ask", "shutdown"}) : reply[i] = "written"

ClosedIsDrained == [][Closed]_vars

\* An exit that reached the reader is what listen resolves with, never "closed",
\* however the input ends after it (reference.ts 100-102); and once it has resolved
\* it does not change (finish).
ExitWins == (outcome = "closed" /\ ~slow) => Of({"exit"}) = {}

\* Once the input has ended listen resolves (reference.ts 100-112), though a frame is
\* cut short, though the client reads no more.
ListenEnds == input # "open" ~> outcome # "none"

\* Every shutdown that is dispatched is answered while the program lives (server.ts
\* 186-195): a defect of a unit of work never stops the queue (server.ts 93-95).
ShutdownEnds == \A i \in Messages :
  (i \in Of({"shutdown"}) /\ handler[i] # "none") ~> (reply[i] # "none" \/ scope = "closed")

-----------------------------------------------------------------------------
(***************************************************************************)
(* Why these hold, whatever the number of messages: dispatch, the starts   *)
(* of handlers and the queue keep the order the messages were sent in, so  *)
(* each of them reaches what was sent earlier first; and nothing enters    *)
(* the reader behind the sentinel.                                         *)
(***************************************************************************)
Handled == Of({"note", "ask", "shutdown"})
Dispatched == {i \in Messages : handler[i] # "none"}
Begun == {i \in Messages : handler[i] \notin {"none", "ready"}}

WireInv ==
  /\ \A n \in 1 .. Len(wire) : \A m \in 1 .. n - 1 :
       wire[m] # Sentinel /\ (wire[n] # Sentinel => wire[m] < wire[n])
  /\ \A n \in 1 .. Len(wire) : \A i \in Dispatched : wire[n] # Sentinel => i < wire[n]
  /\ \A n \in 1 .. Len(wire) : wire[n] = Sentinel => input # "open"
  /\ scope = "open" => \A i \in Of(Kind) : \/ \E n \in 1 .. Len(wire) : wire[n] = i
                                           \/ i \in Dispatched
                                           \/ i \in Of({"exit"}) /\ outcome # "none"

HandlerInv ==
  /\ Dispatched \subseteq Handled
  /\ \A i \in Dispatched : \A j \in 1 .. i - 1 : j \in Handled => j \in Dispatched
  /\ \A i \in Begun : \A j \in 1 .. i - 1 : j \in Handled => j \in Begun
  /\ \A i \in Of({"note"}) : handler[i] \in {"none", "ready", "over"}
  /\ \A i \in Messages : handler[i] = "asking" => i \in Of({"ask"})
  /\ \A i \in Messages : handler[i] \in {"draining", "settling"} => i \in Of({"shutdown"})
  /\ scope = "open" => \A i \in Of({"ask", "shutdown"}) : handler[i] = "over" => reply[i] # "none"

WorkInv ==
  /\ \A n \in 1 .. Len(work) : work[n] \in Begun /\ \A m \in 1 .. n - 1 : work[m] < work[n]
  /\ \A n \in 1 .. Len(work) : work[n] \in Of({"shutdown"}) => handler[work[n]] = "draining"
  /\ \A i \in Messages : handler[i] = "settling" => \A n \in 1 .. Len(work) : i < work[n]
  /\ slot = "idle" => owed = {} /\ running = {}
  /\ slot = "pending" => running = {}

DrainInv ==
  /\ input = "open" => outcome # "closed" /\ \A d \in {"fallback", "sentinel"} : drain[d].at = "over"
  /\ scope = "closed" => outcome # "none" /\ wire = <<>>
  /\ ~slow => \A d \in {"fallback", "sentinel"} :
       /\ drain[d].at \in {"emptying", "writing"} => wire = <<>>
       /\ drain[d].at = "writing" => InProgress = {} /\ WritesInFlight \subseteq drain[d].awaits
  /\ ExitWins

ServerInv == TypeOK /\ WireInv /\ HandlerInv /\ WorkInv /\ DrainInv
=============================================================================
