------------------------------ MODULE Extension ------------------------------
(***************************************************************************)
(* The VS Code extension (vscode/src) and the requests it makes of the     *)
(* language server (lsp/src/features/concepts.ts, commands.ts, edits.ts).  *)
(* Restarts are tasks of one serial queue; the concept tree fetches with a *)
(* debounce and a generation; the server's sessions are rebuilt meanwhile, *)
(* and an edit it computed reaches a document the user goes on typing in.  *)
(***************************************************************************)
EXTENDS Integers, Sequences, FiniteSets, SequencesExt

CONSTANTS
  Workspaces,   \* what the folders may hold: sequences of [setting, bin]
  Bundled,      \* the launch that comes with the extension
  MinServer,    \* the server version the extension was built against
  Roots,        \* bundle roots of the workspace
  Cases,        \* bound: what the folders hold at first, with how many changes
                \* of the workspace (a deactivation is one), updates of the
                \* server's sessions and steps of the user may follow
  MaxRequests   \* bound: the fetches of the tree in flight at once

VARIABLES
  folders, budget,    \* the workspace now; what may still happen
  disposed,           \* the extension was deactivated
  queue, task,        \* the serial queue: waiting tasks, and the running one
  attempt,            \* numbers the clients ever built
  live, watching,     \* the clients whose server runs, the clients with watchers
  strayed,            \* the clients whose own stop failed while falling through
  client, watchers,   \* the extension's variables
  actions,            \* the context key okfit.hasActions
  provider,           \* the concept tree
  requests,           \* its fetches in flight
  notes,              \* bundleChanged notifications under way, by client
  loaded,             \* the server's: for each session a root ever had, its loads
  slot, leaving,      \* the root's folder at the registry; its old session's disposal
  owed, telling,      \* the sessions that owe a revalidate; those about to report one
  tried,              \* history: the sessions that have had a revalidate
  warmed, stale,      \* roots marked warm; history: marked for a session replaced by then
  doc, mail, memory,  \* the document, its events under way, the server's copy
  edit                \* one edit command

restart == <<folders, disposed, queue, task, attempt, live, watching, strayed, client, watchers, actions>>
tree == <<provider, requests, notes>>
server == <<loaded, slot, leaving, owed, telling, tried, warmed, stale>>
editing == <<doc, mail, memory, edit>>
vars == <<budget, restart, tree, server, editing>>

Spend(what) == budget[what] > 0 /\ budget' = [budget EXCEPT ![what] = @ - 1]

----------------------------------------------------------------------------
(* resolve-server.ts, server-version.ts: the launches to try, in order. *)

(* A workspace's server version: its own package, else the one its plugin   *)
(* brings, nested or beside it; 0 is unknown.                               *)
Version(bin) ==
  IF bin.lsp # 0 THEN bin.lsp
  ELSE CASE bin.owner = "plugin" -> IF bin.nested # 0 THEN bin.nested ELSE bin.sibling
         [] bin.owner = "lsp" -> bin.own
         [] OTHER -> 0
Distinct(launches) ==
  FoldLeft(LAMBDA out, l : IF \E i \in DOMAIN out : out[i].real = l.real THEN out ELSE Append(out, l),
           <<>>, launches)
Column(fs, field) == SelectSeq([i \in DOMAIN fs |-> fs[i][field]], LAMBDA l : l.exists)
Outdated(l) == Version(l) # 0 /\ Version(l) < MinServer
Candidates(fs) ==
  Distinct(Column(fs, "setting"))
  \o SelectSeq(Distinct(Column(fs, "bin")), LAMBDA l : ~Outdated(l)) \o <<Bundled>>
TryNext(l) == l.source = "workspace" /\ ~l.concepts

----------------------------------------------------------------------------
(* extension.ts, client.ts: start, stop and restart, one at a time. *)

Nothing == [r \in Roots |-> <<0, 0>>]
NoTask == [pc |-> "none", kind |-> "none", left |-> <<>>]
NoProvider == [of |-> 0, generation |-> 0, timer |-> FALSE, failed |-> FALSE, shown |-> Nothing]
Goto(pc) == task' = [task EXCEPT !.pc = pc]
EndTask == task' = NoTask
Launch == Head(task.left)
IsLast == Len(task.left) = 1

(* A changed setting or folder queues a restart, whatever is running. *)
Change(fs) ==
  /\ Spend("changes") /\ fs # folders /\ ~disposed
  /\ folders' = fs
  /\ queue' = Append(queue, "restart")
  /\ UNCHANGED <<disposed, task, attempt, live, watching, strayed, client, watchers, actions, tree, server, editing>>

Deactivate ==
  /\ Spend("changes") /\ ~disposed /\ disposed' = TRUE
  /\ queue' = Append(queue, "stop")
  /\ UNCHANGED <<folders, task, attempt, live, watching, strayed, client, watchers, actions,
                 tree, server, editing>>

(* startClient up to its wait: the launches, a client and its watchers. *)
Starting(kind, left) ==
  /\ task' = [pc |-> "starting", kind |-> kind, left |-> left]
  /\ attempt' = attempt + 1
FreeAlways == TRUE
Free == task.pc = "none"
Take ==
  /\ Free /\ queue # <<>>
  /\ queue' = Tail(queue)
  /\ IF Head(queue) = "start"
     THEN Starting("start", Candidates(folders)) /\ watching' = watching \cup {attempt + 1}
     ELSE task' = [pc |-> "stop", kind |-> Head(queue), left |-> <<>>] /\ UNCHANGED <<attempt, watching>>
  /\ UNCHANGED <<folders, budget, disposed, live, strayed, client, watchers, actions, tree, server, editing>>

(* stopServer up to its wait: the tree is gone, the client is still known. *)
DisposeTree ==
  /\ task.pc = "stop"
  /\ actions' = FALSE /\ provider' = NoProvider
  /\ Goto("stopping")
  /\ UNCHANGED <<folders, budget, disposed, queue, attempt, live, watching, strayed, client, watchers,
                 requests, notes, server, editing>>

(* stopQuietly: whether or not the stop succeeds, the watchers go; what was *)
(* asked of the client is rejected, with nobody left to hear it.            *)
Stopped ==
  /\ task.pc = "stopping"
  /\ requests' = {} /\ notes' = {}
  /\ live' = live \ {client}
  /\ client' = 0 /\ watchers' = 0
  /\ IF task.kind = "stop"
     THEN EndTask /\ watching' = watching \ {watchers} /\ UNCHANGED attempt
     ELSE /\ Starting(task.kind, Candidates(folders))
          /\ watching' = (watching \ {watchers}) \cup {attempt + 1}
  /\ UNCHANGED <<folders, budget, disposed, queue, strayed, actions, provider, server, editing>>

(* The launch that does not start is abandoned with its watchers; the last *)
(* one fails the task.                                                     *)
Abandon == watching \ {attempt}
TryTheNext == watching' = Abandon \cup {attempt + 1} /\ Starting(task.kind, Tail(task.left))
StartFails ==
  /\ task.pc = "starting" /\ ~Launch.starts
  /\ IF IsLast THEN EndTask /\ watching' = Abandon /\ UNCHANGED attempt ELSE TryTheNext
  /\ UNCHANGED <<folders, budget, disposed, queue, live, strayed, client, watchers, actions,
                 tree, server, editing>>

StartsTooOld ==
  /\ task.pc = "starting" /\ Launch.starts /\ ~IsLast /\ TryNext(Launch)
  /\ live' = live \cup {attempt} /\ Goto("dropping")
  /\ UNCHANGED <<folders, budget, disposed, queue, attempt, watching, strayed, client, watchers, actions,
                 tree, server, editing>>

(* Its stop may fail: the error leaves startClient before the watchers go. *)
Drop ==
  /\ task.pc = "dropping"
  /\ live' = live \ {attempt}
  /\ \/ TryTheNext /\ UNCHANGED strayed
     \/ UNCHANGED <<watching, attempt>> /\ EndTask /\ strayed' = strayed \cup {attempt}
  /\ UNCHANGED <<folders, budget, disposed, queue, client, watchers, actions, tree, server, editing>>

(* The client is kept, its server holding no bundle yet; with the capability*)
(* the tree is built and fetches.                                          *)
Fetch(of, generation) ==
  [of |-> of, generation |-> generation, pc |-> "sent", left |-> {}, at |-> "none",
   sessions |-> [r \in Roots |-> 0], answer |-> Nothing]
Starts ==
  /\ task.pc = "starting" /\ Launch.starts /\ (IsLast \/ ~TryNext(Launch))
  /\ live' = live \cup {attempt}
  /\ client' = attempt /\ watchers' = attempt /\ actions' = Launch.actions
  /\ EndTask
  /\ IF Launch.concepts
     THEN /\ provider' = [NoProvider EXCEPT !.of = attempt, !.generation = 1]
          /\ requests' = requests \cup {Fetch(attempt, 1)}
     ELSE UNCHANGED <<provider, requests>>
  /\ slot' = [r \in Roots |-> "unbuilt"] /\ leaving' = [r \in Roots |-> "none"]
  /\ owed' = [r \in Roots |-> {}] /\ telling' = [r \in Roots |-> {}] /\ warmed' = {} /\ stale' = {}
  /\ UNCHANGED <<folders, budget, disposed, queue, attempt, watching, strayed, notes, loaded, tried, editing>>

----------------------------------------------------------------------------
(* tree/provider.ts: a fetch per quiet burst, the latest one applied. *)

Hear(c) ==
  /\ c \in notes
  /\ notes' = notes \ {c}
  /\ provider' = IF provider.of = c THEN [provider EXCEPT !.timer = TRUE] ELSE provider
  /\ UNCHANGED <<budget, restart, requests, server, editing>>

Refresh ==
  /\ provider.timer /\ Cardinality(requests) < MaxRequests
  /\ provider' = [provider EXCEPT !.timer = FALSE, !.generation = @ + 1]
  /\ requests' = requests \cup {Fetch(provider.of, provider.generation + 1)}
  /\ UNCHANGED <<budget, restart, notes, server, editing>>

(* The request may fail before it looks at a session, or its answer be lost.*)
Reject(q) ==
  /\ q.of \in live /\ q.pc \in {"sent", "answered"} /\ Spend("updates")
  /\ requests' = requests \ {q}
  /\ provider' = IF provider.of = q.of THEN [provider EXCEPT !.failed = TRUE] ELSE provider
  /\ UNCHANGED <<restart, notes, server, editing>>

ShouldApplyAny(q) == provider.of = q.of
ShouldApply(q) == provider.of = q.of /\ provider.generation = q.generation
Apply(q) ==
  /\ q.pc = "answered"
  /\ requests' = requests \ {q}
  /\ provider' = IF ShouldApply(q)
                 THEN [provider EXCEPT !.shown = q.answer, !.failed = FALSE] ELSE provider
  /\ UNCHANGED <<budget, restart, notes, server, editing>>

----------------------------------------------------------------------------
(* lsp/src/features/concepts.ts: the request, and the sessions under it. *)

Serving(q) == q \in requests /\ q.of \in live
Step(q, next) == requests' = (requests \ {q}) \cup {next}
Session(r) == IF slot[r] = "live" THEN Len(loaded[r]) ELSE 0
Bundle(r, s) == IF s = 0 THEN <<0, 0>> ELSE IF loaded[r][s] = 0 THEN <<0, 0>> ELSE <<s, loaded[r][s]>>
Notify == notes' = IF client \in live THEN notes \cup {client} ELSE notes

(* The folders that were never resolved get their sessions, and the request *)
(* goes through the sessions there are.                                     *)
ReadSessions(q) ==
  /\ Serving(q) /\ q.pc = "sent"
  /\ loaded' = [r \in Roots |-> IF slot[r] = "unbuilt" THEN Append(loaded[r], 0) ELSE loaded[r]]
  /\ slot' = [r \in Roots |-> IF slot[r] = "unbuilt" THEN "live" ELSE slot[r]]
  /\ Step(q, [q EXCEPT !.pc = "warming", !.left = {r \in Roots : slot[r] # "away"},
                       !.sessions = [r \in Roots |-> Session(r)']])
  /\ UNCHANGED <<budget, restart, provider, notes, leaving, owed, telling, tried, warmed, stale, editing>>

(* One that has no bundle is marked warm, if its root is not yet ...        *)
Done(q) == Step(q, [q EXCEPT !.pc = "warming", !.at = "none", !.left = @ \ {q.at}])
Look(q, r) ==
  /\ Serving(q) /\ q.pc = "warming" /\ r \in q.left
  /\ Step(q, IF Bundle(r, q.sessions[r]) = <<0, 0>> THEN [q EXCEPT !.pc = "marking", !.at = r]
             ELSE [q EXCEPT !.left = @ \ {r}])
  /\ UNCHANGED <<budget, restart, provider, notes, server, editing>>
Mark(q) ==
  /\ Serving(q) /\ q.pc = "marking"
  /\ IF q.at \in warmed
     THEN Done(q) /\ UNCHANGED <<warmed, stale>>
     ELSE /\ Step(q, [q EXCEPT !.pc = "scheduling"])
          /\ warmed' = warmed \cup {q.at}
          /\ stale' = IF q.sessions[q.at] = Session(q.at) THEN stale ELSE stale \cup {q.at}
  /\ UNCHANGED <<budget, restart, provider, notes, loaded, slot, leaving, owed, telling, tried, editing>>

(* ... then scheduled and waited for: a closed one takes nothing, and its   *)
(* wait is over at once.                                                    *)
Old(r) == IF slot[r] = "live" THEN Len(loaded[r]) - 1 ELSE Len(loaded[r])
Owes(r, s) == [owed EXCEPT ![r] = @ \cup {s}]
Open(r, s) == s # 0 /\ (s = Session(r) \/ (leaving[r] = "closing" /\ s = Old(r)))
Schedule(q) ==
  /\ Serving(q) /\ q.pc = "scheduling"
  /\ owed' = IF Open(q.at, q.sessions[q.at]) THEN Owes(q.at, q.sessions[q.at]) ELSE owed
  /\ Step(q, [q EXCEPT !.pc = "settling"])
  /\ UNCHANGED <<budget, restart, provider, notes, loaded, slot, leaving, telling, tried, warmed, stale, editing>>
Settle(q) ==
  /\ Serving(q) /\ q.pc = "settling" /\ q.sessions[q.at] \notin owed[q.at] \cup telling[q.at]
  /\ Done(q)
  /\ UNCHANGED <<budget, restart, provider, notes, server, editing>>

AnswerConcepts(q) ==
  /\ Serving(q) /\ q.pc = "warming" /\ q.left = {}
  /\ Step(q, [Fetch(q.of, q.generation) EXCEPT !.pc = "answered",
                                               !.answer = [r \in Roots |-> Bundle(r, q.sessions[r])]])
  /\ UNCHANGED <<budget, restart, provider, notes, server, editing>>

(* A document event: its folder gets a session, which then owes a revalidate.*)
Revalidate(r) ==
  /\ client \in live /\ slot[r] # "away" /\ Spend("updates")
  /\ loaded' = IF slot[r] = "unbuilt" THEN [loaded EXCEPT ![r] = Append(@, 0)] ELSE loaded
  /\ slot' = [slot EXCEPT ![r] = "live"]
  /\ owed' = Owes(r, Session(r)')
  /\ UNCHANGED <<restart, provider, requests, notes, leaving, telling, tried, warmed, stale, editing>>

(* A session's revalidate, whose load may fail; either way it is reported.  *)
Load(r, s) ==
  /\ client \in live /\ s \in owed[r] \ telling[r]
  /\ owed' = [owed EXCEPT ![r] = @ \ {s}]
  /\ telling' = [telling EXCEPT ![r] = @ \cup {s}] /\ tried' = [tried EXCEPT ![r] = @ \cup {s}]
  /\ loaded' = loaded \/ loaded' = [loaded EXCEPT ![r][s] = @ + 1]
  /\ UNCHANGED <<budget, restart, provider, requests, notes, slot, leaving, warmed, stale, editing>>
Tell(r, s) ==
  /\ client \in live /\ s \in telling[r]
  /\ telling' = [telling EXCEPT ![r] = @ \ {s}] /\ Notify
  /\ UNCHANGED <<budget, restart, provider, requests, loaded, slot, leaving, owed, tried, warmed, stale, editing>>

(* A changed config swaps in a fresh session; a folder may leave, and come  *)
(* back once its session is disposed of.                                    *)
Leaves(r, to) == leaving' = [leaving EXCEPT ![r] = to]
Rebuild(r) ==
  /\ client \in live /\ slot[r] = "live" /\ leaving[r] = "none" /\ Spend("updates")
  /\ loaded' = [loaded EXCEPT ![r] = Append(@, 0)]
  /\ Leaves(r, "closing")
  /\ UNCHANGED <<restart, provider, requests, notes, slot, owed, telling, tried, warmed, stale, editing>>
FolderLeaves(r) ==
  /\ client \in live /\ slot[r] = "live" /\ leaving[r] = "none" /\ Spend("updates")
  /\ slot' = [slot EXCEPT ![r] = "away"]
  /\ Leaves(r, "closing")
  /\ UNCHANGED <<restart, provider, requests, notes, loaded, owed, telling, tried, warmed, stale, editing>>
FolderReturns(r) ==
  /\ client \in live /\ slot[r] = "away" /\ leaving[r] = "none" /\ Spend("updates")
  /\ slot' = [slot EXCEPT ![r] = "unbuilt"]
  /\ UNCHANGED <<restart, provider, requests, notes, loaded, leaving, owed, telling, tried, warmed, stale, editing>>

(* The old one's scope is closed, the client told, and the mark forgotten;  *)
(* after a rebuild the fresh one is scheduled.                              *)
CloseOld(r) ==
  /\ client \in live /\ leaving[r] = "closing"
  /\ owed' = [owed EXCEPT ![r] = @ \ {Old(r)}] /\ telling' = [telling EXCEPT ![r] = @ \ {Old(r)}]
  /\ Leaves(r, "dropping")
  /\ UNCHANGED <<budget, restart, provider, requests, notes, loaded, slot, tried, warmed, stale, editing>>
Dropped(r) ==
  /\ client \in live /\ leaving[r] = "dropping"
  /\ Notify
  /\ Leaves(r, "forgetting")
  /\ UNCHANGED <<budget, restart, provider, requests, loaded, slot, owed, telling, tried, warmed, stale, editing>>
ForgetNothing(r) == UNCHANGED <<warmed, stale>>
Forget(r) == warmed' = warmed \ {r} /\ stale' = stale \ {r}
ForgetWarmup(r) ==
  /\ client \in live /\ leaving[r] = "forgetting"
  /\ Forget(r)
  /\ Leaves(r, IF slot[r] = "live" THEN "scheduling" ELSE "none")
  /\ UNCHANGED <<budget, restart, provider, requests, notes, loaded, slot, owed, telling, tried, editing>>
Reschedule(r) ==
  /\ client \in live /\ leaving[r] = "scheduling"
  /\ owed' = Owes(r, Session(r))
  /\ Leaves(r, "none")
  /\ UNCHANGED <<budget, restart, provider, requests, notes, loaded, slot, telling, tried, warmed, stale, editing>>

----------------------------------------------------------------------------
(* commands.ts, save-after-apply.ts; the server's commands.ts and edits.ts. *)

NoEdit == [pc |-> "none", on |-> 0, stopping |-> FALSE, base |-> 0, version |-> 0, text |-> 0]
Known(m) == m.version # 0

(* External: the user opens, types, closes; the server hears in order. *)
Type ==
  /\ Spend("steps")
  /\ LET open == [doc EXCEPT !.typed = @ + 1, !.version = @ + 1, !.text = doc.typed + 1]
     IN doc' = open /\ mail' = Append(mail, [version |-> open.version, text |-> open.text])
  /\ UNCHANGED <<restart, tree, server, memory, edit>>
Close ==
  /\ Spend("steps") /\ doc.version # 0 /\ doc.closes = 0
  /\ doc' = [doc EXCEPT !.version = 0, !.closes = 1, !.text = doc.disk]
  /\ mail' = Append(mail, [version |-> 0, text |-> doc.disk])
  /\ UNCHANGED <<restart, tree, server, memory, edit>>
Deliver ==
  /\ mail # <<>>
  /\ memory' = Head(mail) /\ mail' = Tail(mail)
  /\ UNCHANGED <<budget, restart, tree, server, doc, edit>>

(* A command goes to the client the extension knows at that moment. *)
Invoke ==
  /\ Spend("steps") /\ edit.pc = "none" /\ client # 0
  /\ edit' = [NoEdit EXCEPT !.pc = "asked", !.on = client, !.stopping = (task.pc = "stopping")]
  /\ UNCHANGED <<restart, tree, server, doc, mail, memory>>

(* editTarget: the open buffer with its version, else the loaded text. *)
EditTarget ==
  /\ edit.pc = "asked" /\ edit.on \in live
  /\ edit' = [edit EXCEPT !.pc = "resolving", !.base = memory.text, !.version = memory.version]
  /\ UNCHANGED <<budget, restart, tree, server, doc, mail, memory>>

(* The actor is looked up, and the edit sent with the target's version. *)
SentVersionLate == memory.version
SentVersion == edit.version
ResolveActor ==
  /\ edit.pc = "resolving"
  /\ \/ edit' = [edit EXCEPT !.pc = "sent", !.version = SentVersion]
     \/ edit' = [NoEdit EXCEPT !.pc = "failed"]
  /\ UNCHANGED <<budget, restart, tree, server, doc, mail, memory>>

(* The editor refuses a version that is not the buffer's; an edit without   *)
(* one is applied to what is there.  Applied, it is saved.                  *)
ApplyEdit ==
  /\ edit.pc = "sent"
  /\ IF edit.version # 0 /\ edit.version # doc.version
     THEN edit' = [NoEdit EXCEPT !.pc = "refused"] /\ UNCHANGED <<doc, mail>>
     ELSE /\ edit' = [edit EXCEPT !.pc = "applied", !.text = doc.text]
          /\ doc' = [doc EXCEPT !.version = @ + 1]
          /\ mail' = Append(mail, [version |-> doc.version + 1, text |-> doc.text])
  /\ UNCHANGED <<budget, restart, tree, server, memory>>
SaveAfterApply ==
  /\ edit.pc = "applied"
  /\ doc' = [doc EXCEPT !.disk = doc.text]
  /\ edit' = [NoEdit EXCEPT !.pc = "saved"]
  /\ UNCHANGED <<budget, restart, tree, server, mail, memory>>
EditRejected ==
  /\ edit.pc \in {"asked", "resolving", "sent"} /\ edit.on \notin live
  /\ edit' = [NoEdit EXCEPT !.pc = "failed"]
  /\ UNCHANGED <<budget, restart, tree, server, doc, mail, memory>>

----------------------------------------------------------------------------
Init ==
  /\ (\E c \in Cases : folders = c.folders /\ budget = c.budget) /\ disposed = FALSE
  /\ queue = <<"start">> /\ task = NoTask
  /\ attempt = 0 /\ live = {} /\ watching = {} /\ strayed = {}
  /\ client = 0 /\ watchers = 0 /\ actions = FALSE
  /\ provider = NoProvider /\ requests = {} /\ notes = {}
  /\ loaded = [r \in Roots |-> <<>>] /\ slot = [r \in Roots |-> "unbuilt"] /\ leaving = [r \in Roots |-> "none"]
  /\ owed = [r \in Roots |-> {}] /\ telling = owed /\ tried = owed /\ warmed = {} /\ stale = {}
  /\ doc = [version |-> 0, text |-> 0, disk |-> 0, typed |-> 0, closes |-> 0]
  /\ mail = <<>> /\ memory = [version |-> 0, text |-> 0]
  /\ edit = NoEdit

Restarting ==
  \/ \E fs \in Workspaces : Change(fs)
  \/ Deactivate \/ Take \/ DisposeTree \/ Stopped
  \/ StartFails \/ StartsTooOld \/ Drop \/ Starts
Fetching ==
  \/ \E c \in notes : Hear(c)
  \/ Refresh
  \/ \E q \in requests : Reject(q) \/ Apply(q)
  \/ \E q \in requests : ReadSessions(q) \/ Mark(q) \/ Schedule(q) \/ Settle(q) \/ AnswerConcepts(q)
  \/ \E q \in requests, r \in Roots : Look(q, r)
Serve ==
  \/ \E r \in Roots : \/ \E s \in owed[r] : Load(r, s)
                      \/ \E s \in telling[r] : Tell(r, s)
  \/ \E r \in Roots : \/ Revalidate(r) \/ Rebuild(r) \/ FolderLeaves(r) \/ FolderReturns(r)
                      \/ CloseOld(r) \/ Dropped(r) \/ ForgetWarmup(r) \/ Reschedule(r)
Editing ==
  \/ Type \/ Close \/ Deliver \/ Invoke
  \/ EditTarget \/ ResolveActor \/ ApplyEdit \/ SaveAfterApply \/ EditRejected

Next == Restarting \/ Fetching \/ Serve \/ Editing

Spec == Init /\ [][Next]_vars

----------------------------------------------------------------------------
(* At most one server runs, and between two tasks exactly the one the       *)
(* extension knows, with its watchers and no others but those of a launch   *)
(* whose own stop failed; after deactivation there is none (extension.ts:45).*)
OwnsWhatRuns ==
  /\ Cardinality(live) <= 1
  /\ task.pc = "none" =>
       /\ live = {client} \ {0} /\ watching = ({watchers} \ {0}) \cup strayed
       /\ actions => client # 0
       /\ disposed /\ queue = <<>> => live = {}

(* When nothing is under way, the tree shows what the server holds, unless  *)
(* its last fetch failed, however the fetches overtook one another          *)
(* (provider.ts:32).                                                        *)
Quiet ==
  /\ task.pc = "none" /\ provider.of \in live /\ ~provider.timer /\ ~provider.failed
  /\ provider.of \notin notes /\ \A q \in requests : q.of # provider.of
  /\ \A r \in Roots : telling[r] = {} /\ leaving[r] \notin {"closing", "dropping"}
TreeSettles == Quiet => \A r \in Roots : provider.shown[r] = Bundle(r, Session(r))

(* With no fetch under way, the live session of every root has had its      *)
(* revalidate or owes it, a rebuilt or returned one too (concepts.ts:114),  *)
(* unless a fetch that began before the root's last disposal marked it      *)
(* after.                                                                   *)
Cold(r) == slot[r] = "live" /\ Session(r) \notin tried[r] \cup owed[r] /\ leaving[r] = "none"
WarmedUp == requests = {} /\ client # 0 => \A r \in Roots \ stale : ~Cold(r)

(* The same without the exception, as concepts.ts:114-119 has it: a root    *)
(* that gets a new session gets a fresh attempt.                            *)
WarmsAgain == requests = {} /\ client # 0 => \A r \in Roots : ~Cold(r)

(* An edit computed from an open buffer reaches only that very text, as long*)
(* as the document was not closed in between (edits.ts:318).                *)
EditLands == edit.pc = "applied" /\ edit.version # 0 /\ doc.closes = 0 => edit.text = edit.base

----------------------------------------------------------------------------
(* Why at most one server runs: client and watchers are one, and what runs  *)
(* and watches is settled by where the task is.                             *)
Pcs == {"none", "stop", "stopping", "starting", "dropping"}
Kinds == {"none", "start", "restart", "stop"}
RestartType ==
  /\ task = [pc |-> task.pc, kind |-> task.kind, left |-> task.left]
  /\ task.pc \in Pcs /\ task.kind \in Kinds /\ queue \in Seq(Kinds \ {"none"})
  /\ disposed \in BOOLEAN
  /\ attempt \in Nat /\ client \in 0 .. attempt /\ watchers = client
  /\ live \subseteq 1 .. attempt /\ watching \subseteq 1 .. attempt
  /\ strayed \subseteq watching /\ client \notin strayed
StartOnce == \A i \in 1 .. Len(queue) : queue[i] = "start" => i = 1 /\ attempt = 0 /\ task.pc = "none"
Settled ==
  task.pc \in {"none", "stop", "stopping"} =>
    /\ live = {client} \ {0} /\ watching = ({watchers} \ {0}) \cup strayed
    /\ actions => client # 0 /\ task.pc # "stopping"
Launching ==
  task.pc \in {"starting", "dropping"} =>
    /\ attempt \in Nat \ {0} /\ attempt \notin strayed /\ watching = {attempt} \cup strayed
    /\ client = 0 /\ ~actions
    /\ live = IF task.pc = "dropping" THEN {attempt} ELSE {}
StopsAtLast ==
  disposed => IF queue # <<>> THEN queue[Len(queue)] = "stop"
              ELSE \/ task.pc \in {"stop", "stopping"} /\ task.kind = "stop"
                   \/ task.pc = "none" /\ live = {}
RestartInv == RestartType /\ StartOnce /\ Settled /\ Launching /\ StopsAtLast

(* Why the tree settles: all that is under way is of the client, and unless *)
(* a refresh is due the latest fetch will show what the server holds.       *)
SessionsType ==
  /\ loaded \in [Roots -> Seq(Nat)]
  /\ slot \in [Roots -> {"unbuilt", "live", "away"}]
  /\ leaving \in [Roots -> {"none", "closing", "dropping", "forgetting", "scheduling"}]
  /\ owed \in [Roots -> SUBSET Nat] /\ telling \in [Roots -> SUBSET Nat] /\ tried \in [Roots -> SUBSET Nat]
  /\ \A r \in Roots :
       /\ slot[r] = "live" => loaded[r] # <<>>
       /\ slot[r] = "unbuilt" => leaving[r] = "none"
       /\ leaving[r] = "scheduling" => slot[r] = "live"
       /\ owed[r] \cup telling[r] \subseteq 1 .. Len(loaded[r])
       /\ \A s \in 1 .. Len(loaded[r]) : loaded[r][s] # 0 => s \in tried[r]
  /\ warmed \subseteq Roots /\ stale \subseteq warmed
ProviderType ==
  /\ provider = [of |-> provider.of, generation |-> provider.generation, timer |-> provider.timer,
                 failed |-> provider.failed, shown |-> provider.shown]
  /\ provider.generation \in Nat
FetchType(q) ==
  /\ q = [of |-> q.of, generation |-> q.generation, pc |-> q.pc, left |-> q.left, at |-> q.at,
          sessions |-> q.sessions, answer |-> q.answer]
  /\ q.generation \in Nat /\ q.left \subseteq Roots
  /\ q.pc \in {"sent", "warming", "marking", "scheduling", "settling", "answered"}
  /\ q.pc \in {"marking", "scheduling", "settling"} => q.at \in q.left
  /\ \A r \in Roots : q.sessions[r] \in 0 .. Len(loaded[r]) /\ (r \in q.left => q.sessions[r] # 0)
TreeType == SessionsType /\ ProviderType /\ \A q \in requests : FetchType(q)
OfTheClient ==
  /\ provider.of \in {0, client} /\ (provider.timer => provider.of # 0) /\ notes \subseteq {client} \ {0}
  /\ \A q \in requests : q.of = client /\ q.of # 0
  /\ client = 0 \/ task.pc = "stopping" => provider = NoProvider
  /\ \A q \in requests : q.of = provider.of => q.generation <= provider.generation
Latest(q) == q.of = provider.of /\ q.generation = provider.generation
Due == \/ provider.timer \/ provider.of \in notes
       \/ \E r \in Roots : telling[r] # {} \/ leaving[r] \in {"closing", "dropping"}
WillShow(q) ==
  CASE q.pc = "sent" -> TRUE
    [] q.pc = "answered" -> \A r \in Roots : q.answer[r] = Bundle(r, Session(r))
    [] OTHER -> \A r \in Roots : Bundle(r, q.sessions[r]) = Bundle(r, Session(r))
Settling ==
  provider.of \in live =>
    /\ Due \/ provider.failed \/ (\E q \in requests : Latest(q))
         \/ \A r \in Roots : provider.shown[r] = Bundle(r, Session(r))
    /\ Due \/ \A q \in requests : Latest(q) => WillShow(q)
TreeInv == TreeType /\ OfTheClient /\ Settling

(* Why every root gets its attempt: a mark is forgotten with the session it *)
(* was made for, and until a cold session is scheduled a fetch is at it.    *)
Warms(q, r) ==
  /\ q.sessions[r] = Session(r) /\ r \in q.left /\ q.pc \notin {"sent", "answered"}
  /\ IF r \in warmed THEN q.pc = "scheduling" /\ q.at = r ELSE q.pc \in {"warming", "marking"} \/ q.at # r
WarmInv ==
  client # 0 => \A r \in Roots \ stale :
    /\ slot[r] # "live" /\ leaving[r] = "none" => r \notin warmed
    /\ Cold(r) => \E q \in requests : Warms(q, r)

(* Why an edit lands on its text: until the document is closed a version    *)
(* names one text, in the buffer, on its way and at the server.             *)
EditType ==
  /\ doc = [version |-> doc.version, text |-> doc.text, disk |-> doc.disk, typed |-> doc.typed,
            closes |-> doc.closes]
  /\ edit = [pc |-> edit.pc, on |-> edit.on, stopping |-> edit.stopping, base |-> edit.base,
             version |-> edit.version, text |-> edit.text]
  /\ doc.version \in Nat /\ mail \in Seq([version : Nat, text : Int]) /\ doc.text \in Int
  /\ doc.typed \in Int /\ doc.disk \in Int
  /\ memory \in [version : Nat, text : Int] /\ edit.version \in Nat
OneText(version, text) == version <= doc.version /\ (version = doc.version => text = doc.text)
EditInv ==
  /\ EditType
  /\ doc.closes = 0 =>
       /\ OneText(memory.version, memory.text)
       /\ \A i \in 1 .. Len(mail) : OneText(mail[i].version, mail[i].text)
       /\ edit.pc \in {"resolving", "sent"} /\ edit.version # 0 => OneText(edit.version, edit.base)
       /\ edit.pc = "applied" /\ edit.version # 0 => edit.text = edit.base

(* No command reaches a client that is being stopped (extension.ts:206).    *)
StoppedIsUnreachable == ~edit.stopping
=============================================================================
