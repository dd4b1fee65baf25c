---------------------------- MODULE Diagnostics ----------------------------
(***************************************************************************)
(* How diagnostics reach the editor: document events and watched-file      *)
(* changes through the server's work queue                                 *)
(* (packages/lsp/src/server.ts, features/diagnostics.ts), the session of   *)
(* one bundle root with its overlay and its published set                  *)
(* (packages/engine/src/session/BundleSession.ts), the open-document       *)
(* memory (packages/lsp/src/session/documents.ts) and the publisher.       *)
(*                                                                         *)
(* One workspace folder, one bundle root. The registry is reduced to what  *)
(* the queue's worker sees of it (module Registry has the rest), and a     *)
(* session's scheduler to a pending flag and one run at a time (module     *)
(* Scheduler has the rest).                                                *)
(***************************************************************************)
EXTENDS Naturals, Sequences

CONSTANTS
  Docs,       \* Documents under the bundle root.
  NoDoc,
  Handles,    \* Identities of sessions. Bounds the sessions referred to at once.
  NoHandle,
  MaxActs     \* Bound: what the editor and the disk do.

ASSUME DiagnosticsAssumption ==
  /\ NoDoc \notin Docs
  /\ Handles \intersect {NoHandle, "unbuilt", "failed"} = {}
  /\ MaxActs \in Nat

VARIABLES
  buffer,      \* The editor's open buffers.
  disk,        \* The documents on disk.
  valid,       \* Whether the config on disk loads.
  acts,        \* What the editor and the disk have done so far.
  shown,       \* The documents the editor displays diagnostics for.
  work,        \* The server's queue of notification work.
  live,        \* The folder's slot: "unbuilt", "failed" or the live session.
  session,     \* Every session.
  memory,      \* DocumentMemory.
  remembered,  \* The publisher's URIs last published non-empty for the root.
  worker,      \* The fiber draining the queue.
  request,     \* The session a request's fiber holds.
  early        \* History: the documents a fresh session reported last before its rebuild returned.

vars == <<buffer, disk, valid, acts, shown, work, live, session, memory, remembered,
          worker, request, early>>
outside == <<buffer, disk, valid, acts>>

-----------------------------------------------------------------------------
\* A text either earns a diagnostic or does not; no text is an absent one.
Text == {"good", "bad"}
Absent == "absent"

NoOverlay == [d \in Docs |-> Absent]

\* A session as the registry builds it, and one whose scope is closed.
Fresh == [open |-> TRUE, overlay |-> NoOverlay, published |-> {}, owed |-> FALSE,
          run |-> "none", todo |-> {}, found |-> {}, failed |-> FALSE, sending |-> NoDoc]
Gone == [Fresh EXCEPT !.open = FALSE]

Idle == [at |-> "idle", old |-> NoHandle, uris |-> {}]

HasSession == live \in Handles

Unused == {h \in Handles : session[h] = Gone /\ h \notin {live, request, worker.old}}

\* A session the registry builds; which identity it gets tells nothing.
Installs(s) == LET h == CHOOSE h \in Unused : TRUE IN
  /\ Unused # {}
  /\ live' = h
  /\ session' = [session EXCEPT ![h] = s]

Message(kind, d, text) == [kind |-> kind, doc |-> d, text |-> text]

Scheduled(h) == [session EXCEPT ![h].owed = @ \/ session[h].open]

-----------------------------------------------------------------------------
(***************************************************************************)
(* The editor, the disk and the notifications they cause, in order.        *)
(***************************************************************************)
Act(message) ==
  /\ acts < MaxActs
  /\ acts' = acts + 1
  /\ work' = Append(work, message)
  /\ UNCHANGED <<shown, live, session, memory, remembered, worker, request, early>>

EditorOpens(d) ==
  /\ buffer[d] = Absent
  /\ buffer' = [buffer EXCEPT ![d] = disk[d]]
  /\ Act(Message("open", d, disk[d]))
  /\ UNCHANGED <<disk, valid>>

EditorChanges(d, text) ==
  /\ buffer[d] \in Text \ {text}
  /\ buffer' = [buffer EXCEPT ![d] = text]
  /\ Act(Message("change", d, text))
  /\ UNCHANGED <<disk, valid>>

EditorSaves(d) ==
  /\ buffer[d] # Absent
  /\ disk' = [disk EXCEPT ![d] = buffer[d]]
  /\ Act(Message("save", d, Absent))
  /\ UNCHANGED <<buffer, valid>>

EditorCloses(d) ==
  /\ buffer[d] # Absent
  /\ buffer' = [buffer EXCEPT ![d] = Absent]
  /\ Act(Message("close", d, Absent))
  /\ UNCHANGED <<disk, valid>>

DiskChanges(d, text) ==
  /\ disk[d] # text
  /\ disk' = [disk EXCEPT ![d] = text]
  /\ Act(Message("files", NoDoc, Absent))
  /\ UNCHANGED <<buffer, valid>>

ConfigChanges(loads) ==
  /\ valid' = loads
  /\ Act(Message("config", NoDoc, Absent))
  /\ UNCHANGED <<buffer, disk>>

-----------------------------------------------------------------------------
(***************************************************************************)
(* A document event.                                                       *)
(***************************************************************************)
DocumentKinds == {"open", "change", "save", "close"}

HeadIs(kinds) == work # <<>> /\ Head(work).kind \in kinds

\* sessionFor builds an unbuilt folder, and a failed one on the full-tier triggers.
NeedsBuild == \/ live = "unbuilt"
              \/ live = "failed" /\ HeadIs({"open", "save"})

\* A build: the folder is live at a new session or its config does not load.
Build == \/ /\ ~valid
            /\ live' = "failed"
            /\ UNCHANGED session
         \/ valid /\ Installs(Fresh)

BuildOwner ==
  /\ worker.at = "idle"
  /\ HeadIs(DocumentKinds)
  /\ NeedsBuild
  /\ Build
  /\ worker' = [worker EXCEPT !.at = "looked"]
  /\ UNCHANGED <<outside, shown, work, memory, remembered, request, early>>

Recorded(e) == CASE e.kind \in {"open", "change"} -> [memory EXCEPT ![e.doc] = e.text]
                 [] e.kind = "close" -> [memory EXCEPT ![e.doc] = Absent]
                 [] e.kind = "save" -> memory

Overlaid(e) == CASE e.kind \in {"open", "change"} -> [session[live].overlay EXCEPT ![e.doc] = e.text]
                 [] e.kind = "close" -> [session[live].overlay EXCEPT ![e.doc] = Absent]
                 [] e.kind = "save" -> session[live].overlay

\* onDocumentEvent: without a session the event is ignored.
OnDocumentEvent ==
  /\ HeadIs(DocumentKinds)
  /\ worker.at = "looked" \/ (worker.at = "idle" /\ ~NeedsBuild)
  /\ IF HasSession
     THEN /\ session' = [session EXCEPT ![live].overlay = Overlaid(Head(work)), ![live].owed = TRUE]
          /\ memory' = Recorded(Head(work))
     ELSE UNCHANGED <<session, memory>>
  /\ work' = Tail(work)
  /\ worker' = Idle
  /\ UNCHANGED <<outside, shown, live, remembered, request, early>>

-----------------------------------------------------------------------------
(***************************************************************************)
(* onWatchedFiles: a config change rebuilds the session, anything else     *)
(* schedules it; either way a failed folder is retried.                    *)
(***************************************************************************)
OnWatchedFiles ==
  /\ worker.at = "idle"
  /\ HeadIs({"files", "config"})
  /\ work' = Tail(work)
  /\ IF HasSession /\ HeadIs({"config"})
     THEN worker' = [Idle EXCEPT !.at = "rebuilding", !.old = live]
     ELSE worker' = [Idle EXCEPT !.at = "retrying"]
  /\ session' = IF HasSession /\ HeadIs({"files"}) THEN Scheduled(live) ELSE session
  /\ UNCHANGED <<outside, shown, live, memory, remembered, request, early>>

\* rebuild: the config is resolved and the fresh session swapped in ...
Swap ==
  /\ worker.at = "rebuilding"
  /\ Build
  /\ worker' = [worker EXCEPT !.at = "closing"]
  /\ UNCHANGED <<outside, shown, work, memory, remembered, request, early>>

\* ... then the old one's scope is closed, which waits for its run to be over ...
CloseOld ==
  /\ worker.at = "closing"
  /\ session' = [session EXCEPT ![worker.old].open = FALSE, ![worker.old].owed = FALSE]
  /\ worker' = [worker EXCEPT !.at = "awaiting"]
  /\ UNCHANGED <<outside, shown, work, live, memory, remembered, request, early>>

\* The fresh session is live, and rebuild has not returned.
Rebuilding == worker.at \in {"closing", "awaiting", "clearing"}

\* The URIs to take back: what was last published non-empty.
ToClear == remembered

\* ... and onDispose takes the root's memory ...
Clear ==
  /\ worker.at = "awaiting"
  /\ session[worker.old].run = "none"
  /\ worker' = [worker EXCEPT !.at = "clearing", !.uris = ToClear]
  /\ remembered' = {}
  /\ UNCHANGED <<outside, shown, work, live, session, memory, request, early>>

\* ... to send each URI an empty set.
SendClear(d) ==
  /\ worker.at = "clearing"
  /\ d \in worker.uris
  /\ shown' = shown \ {d}
  /\ worker' = [worker EXCEPT !.uris = @ \ {d}]
  /\ UNCHANGED <<outside, work, live, session, memory, remembered, request, early>>

Cleared ==
  /\ worker.at = "clearing"
  /\ worker.uris = {}
  /\ session' = [session EXCEPT ![worker.old] = Gone]
  /\ worker' = [Idle EXCEPT !.at = IF HasSession THEN "reopening" ELSE "retrying"]
  /\ UNCHANGED <<outside, shown, work, live, memory, remembered, request, early>>

\* The open documents are carried into the fresh session, which is then scheduled.
Reopen ==
  /\ worker.at = "reopening"
  /\ session' = [session EXCEPT ![live].overlay = memory, ![live].owed = TRUE]
  /\ worker' = [Idle EXCEPT !.at = "retrying"]
  /\ UNCHANGED <<outside, shown, work, live, memory, remembered, request, early>>

\* retryFailed: a failed folder is built again and scheduled if it now builds.
RetryFailed ==
  /\ worker.at = "retrying"
  /\ worker' = Idle
  /\ IF live = "failed" /\ valid
     THEN Installs([Fresh EXCEPT !.owed = TRUE])
     ELSE UNCHANGED <<live, session>>
  /\ UNCHANGED <<outside, shown, work, memory, remembered, request, early>>

-----------------------------------------------------------------------------
(***************************************************************************)
(* A session's run: revalidate, then publish what changed, file by file.   *)
(***************************************************************************)
\* The overlay shadows the disk.
TextOf(h, d) == IF session[h].overlay[d] # Absent THEN session[h].overlay[d] ELSE disk[d]

Found(h) == {d \in Docs : TextOf(h, d) = "bad"}

With(set, d, in) == IF in THEN set \union {d} ELSE set \ {d}

\* Faulty: what the run takes stays owed.
BeginRunOwing(h) ==
  /\ session[h].open
  /\ session[h].owed
  /\ session[h].run = "none"
  /\ session' = [session EXCEPT ![h].run = "reading", ![h].todo = Docs]
  /\ UNCHANGED <<outside, shown, work, live, memory, remembered, worker, request, early>>

BeginRun(h) ==
  /\ session[h].open
  /\ session[h].owed
  /\ session[h].run = "none"
  /\ session' = [session EXCEPT ![h].owed = FALSE, ![h].run = "reading", ![h].todo = Docs]
  /\ UNCHANGED <<outside, shown, work, live, memory, remembered, worker, request, early>>

\* revalidate loads the bundle one document after the other ...
Read(h, d) ==
  /\ session[h].run = "reading"
  /\ d \in session[h].todo
  /\ session' = [session EXCEPT ![h].todo = @ \ {d}, ![h].found = With(@, d, TextOf(h, d) = "bad")]
  /\ UNCHANGED <<outside, shown, work, live, memory, remembered, worker, request, early>>

\* ... which may fail: that is logged and nothing is published ...
Fail(h) ==
  /\ session[h].run = "reading"
  /\ session' = [session EXCEPT ![h].run = "none", ![h].todo = {}, ![h].found = {}, ![h].failed = TRUE]
  /\ UNCHANGED <<outside, shown, work, live, memory, remembered, worker, request, early>>

\* Faulty: a document whose diagnostics went away is not reported.
ChangedOnlyNew(previous, next) == next \ previous

\* diffDiagnostics: what is new, and what went away.
Changed(previous, next) == (next \ previous) \union (previous \ next)

\* ... or is diffed with the published set, which it replaces in the same step.
Revalidate(h) ==
  /\ session[h].run = "reading"
  /\ session[h].todo = {}
  /\ session' = [session EXCEPT ![h].run = "publishing",
                                ![h].todo = Changed(session[h].published, session[h].found),
                                ![h].published = session[h].found,
                                ![h].found = {},
                                ![h].failed = FALSE]
  /\ UNCHANGED <<outside, shown, work, live, memory, remembered, worker, request, early>>

Send(h, d) ==
  /\ session[h].run = "publishing"
  /\ session[h].sending = NoDoc
  /\ d \in session[h].todo
  /\ shown' = With(shown, d, d \in session[h].published)
  /\ session' = [session EXCEPT ![h].todo = @ \ {d}, ![h].sending = d]
  /\ early' = IF Rebuilding THEN early \union (IF h = live THEN {d} ELSE {}) ELSE early \ {d}
  /\ UNCHANGED <<outside, work, live, memory, remembered, worker, request>>

Remember(h) ==
  /\ session[h].sending # NoDoc
  /\ remembered' = With(remembered, session[h].sending, session[h].sending \in session[h].published)
  /\ session' = [session EXCEPT ![h].sending = NoDoc]
  /\ UNCHANGED <<outside, shown, work, live, memory, worker, request, early>>

EndRun(h) ==
  /\ session[h].run = "publishing"
  /\ session[h].todo = {}
  /\ session[h].sending = NoDoc
  /\ session' = [session EXCEPT ![h].run = "none"]
  /\ UNCHANGED <<outside, shown, work, live, memory, remembered, worker, request, early>>

\* Faulty: the step may be interrupted between sending and remembering.
InterruptibleAlways(h) == TRUE

\* Sending a file's diagnostics and remembering it cannot be interrupted in between.
Interruptible(h) == session[h].sending = NoDoc

\* A closed scope interrupts the run.
Abort(h) ==
  /\ ~session[h].open
  /\ session[h].run # "none"
  /\ Interruptible(h)
  /\ session' = [session EXCEPT ![h].run = "none", ![h].todo = {}, ![h].found = {}, ![h].sending = NoDoc]
  /\ UNCHANGED <<outside, shown, work, live, memory, remembered, worker, request, early>>

-----------------------------------------------------------------------------
(***************************************************************************)
(* A request (okfit/concepts, okfit.lsp.revalidate) takes the live session *)
(* and schedules it, on a fiber of its own.                                *)
(***************************************************************************)
Ask ==
  /\ request = NoHandle
  /\ HasSession
  /\ request' = live
  /\ UNCHANGED <<outside, shown, work, live, session, memory, remembered, worker, early>>

RequestSchedules ==
  /\ request # NoHandle
  /\ session' = Scheduled(request)
  /\ request' = NoHandle
  /\ UNCHANGED <<outside, shown, work, live, memory, remembered, worker, early>>

-----------------------------------------------------------------------------
Init ==
  /\ buffer = NoOverlay
  /\ disk \in [Docs -> Text]
  /\ valid = TRUE
  /\ acts = 0
  /\ shown = {}
  /\ work = <<>>
  /\ live = "unbuilt"
  /\ session = [h \in Handles |-> Gone]
  /\ memory = NoOverlay
  /\ remembered = {}
  /\ worker = Idle
  /\ request = NoHandle
  /\ early = {}

Editor == \E d \in Docs : \/ EditorOpens(d)
                          \/ EditorSaves(d)
                          \/ EditorCloses(d)
                          \/ \E text \in Text : EditorChanges(d, text) \/ DiskChanges(d, text)

WorkerStep == \/ BuildOwner
              \/ OnDocumentEvent
              \/ OnWatchedFiles
              \/ Swap
              \/ CloseOld
              \/ Clear
              \/ Cleared
              \/ Reopen
              \/ RetryFailed
              \/ \E d \in Docs : SendClear(d)

Run(h) == \/ BeginRun(h)
          \/ Fail(h)
          \/ Revalidate(h)
          \/ Remember(h)
          \/ EndRun(h)
          \/ Abort(h)
          \/ \E d \in Docs : Read(h, d) \/ Send(h, d)

Next == \/ Editor
        \/ \E loads \in BOOLEAN : ConfigChanges(loads)
        \/ WorkerStep
        \/ \E h \in Handles : Run(h)
        \/ Ask
        \/ RequestSchedules

\* The queue is drained, a session that is owed a run gets it and ends it, and so does
\* a request.
Fairness == /\ WF_vars(WorkerStep)
            /\ WF_vars(RequestSchedules)
            /\ \A h \in Handles : WF_vars(Run(h))

Spec == Init /\ [][Next]_vars /\ Fairness

-----------------------------------------------------------------------------
Session == [open : BOOLEAN, overlay : [Docs -> Text \union {Absent}], published : SUBSET Docs,
            owed : BOOLEAN, run : {"none", "reading", "publishing"}, todo : SUBSET Docs,
            found : SUBSET Docs, failed : BOOLEAN, sending : Docs \union {NoDoc}]

Notification == {m \in [kind : DocumentKinds \union {"files", "config"}, doc : Docs \union {NoDoc},
                        text : Text \union {Absent}] : /\ m.kind \in DocumentKinds => m.doc \in Docs
                                                       /\ m.kind = "close" => m.text = Absent}

\* The types of the state.
TypeOK ==
  /\ buffer \in [Docs -> Text \union {Absent}]
  /\ disk \in [Docs -> Text]
  /\ valid \in BOOLEAN
  /\ acts \in 0 .. MaxActs
  /\ shown \subseteq Docs
  /\ work \in Seq(Notification) /\ Len(work) <= acts
  /\ live \in Handles \union {"unbuilt", "failed"}
  /\ session \in [Handles -> Session]
  /\ memory \in [Docs -> Text \union {Absent}]
  /\ remembered \subseteq Docs
  /\ worker \in [at : {"idle", "looked", "rebuilding", "closing", "awaiting", "clearing",
                       "reopening", "retrying"},
                 old : Handles \union {NoHandle}, uris : SUBSET Docs]
  /\ request \in Handles \union {NoHandle}
  /\ early \subseteq Docs

\* Whatever the editor displays can be taken back: it is remembered, being cleared, or
\* was sent this instant and is about to be remembered. A diagnostic nobody remembers
\* would stay in the editor for ever. Requests schedule a fresh session whenever they
\* like; only of a document it reported before its rebuild returned can the memory,
\* which the old session shares, be wrong.
NothingStranded ==
  shown \ early \subseteq remembered \union worker.uris \union {session[h].sending : h \in Handles}

\* Nothing is queued, owed or running.
Settled == /\ work = <<>>
           /\ worker = Idle
           /\ \A h \in Handles : ~session[h].owed /\ session[h].run = "none"

\* Once everything is settled the editor displays exactly what the live session last
\* published, which is what it finds in its view of the bundle unless its last
\* revalidate failed, and nothing for a folder without a session: each change of a
\* file's diagnostics was reported once, in order, whatever was edited while a bundle
\* was loaded. The exception are the documents a fresh session reported before its
\* rebuild returned.
ShownIsFound ==
  Settled =>
    /\ shown \ early = IF HasSession THEN session[live].published \ early ELSE {}
    /\ HasSession /\ ~session[live].failed => session[live].published = Found(live)

\* rebuild's documentation has its callers schedule nothing on the fresh session until
\* it has resolved, so that the clear of the old one wipes none of its reports. A request
\* does not wait for rebuild, so this does not hold.
NoneWiped ==
  Settled /\ HasSession => session[live].published \subseteq shown

\* Everything queued is eventually handled and every run ends: once requests stop, the
\* server settles.
Settles == <>[][~RequestSchedules]_vars => <>[]Settled

\* The documentation of onWatchedFiles and of the open-document memory: every open
\* document is carried into the session, with its buffer's current text, and no closed
\* one is.
BuffersCarried ==
  Settled /\ HasSession => session[live].overlay = buffer

\* While the config loads, that holds across any number of rebuilds.
BuffersCarriedWhileValid == []valid => []BuffersCarried

-----------------------------------------------------------------------------
(***************************************************************************)
(* Why these hold, for any documents, sessions and number of acts. Only    *)
(* the live session and, while a rebuild takes it down, the old one are    *)
(* there; both may publish then, and what the fresh one publishes is early. *)
(***************************************************************************)
SessionInv ==
  /\ IF Rebuilding \/ worker.at = "rebuilding" THEN worker.old \in Handles ELSE worker.old = NoHandle
  /\ worker.at = "rebuilding" => worker.old = live
  /\ Rebuilding => worker.old # live
  /\ worker.at = "reopening" => HasSession
  /\ worker.at = "looked" => live # "unbuilt"
  /\ worker.at # "clearing" => worker.uris = {}
  /\ \A h \in Handles : /\ session[h].run = "none" => session[h].todo = {}
                        /\ session[h].run # "reading" => session[h].found = {}
                        /\ session[h].run # "publishing" => session[h].sending = NoDoc
                        /\ h = live => session[h].open
                        /\ h # live /\ h # worker.old => session[h] = Gone
  /\ worker.at \in {"awaiting", "clearing"} => ~session[worker.old].open /\ ~session[worker.old].owed
  /\ worker.at = "clearing" => session[worker.old].run = "none"

\* What a session has yet to send of what it published.
Untold(h) == IF session[h].run = "publishing" THEN session[h].todo ELSE {}

\* What the editor displays is what the session that publishes has told it.
ShownInv ==
  /\ NothingStranded
  /\ \A h \in Handles : LET d == session[h].sending IN
       d \notin early \union {NoDoc} => (d \in shown <=> d \in session[h].published)
  /\ worker.at = "clearing" => remembered \subseteq early
  /\ IF Rebuilding
     THEN HasSession => /\ session[live].published \ Untold(live) \subseteq early
                        /\ session[live].sending \in early \union {NoDoc}
     ELSE IF HasSession
          THEN \A d \in Docs \ (Untold(live) \union early) : d \in shown <=> d \in session[live].published
          ELSE shown \subseteq early

\* A session that owes no run and has none to come has read what there is to find, or
\* published it.
FoundInv ==
  (/\ HasSession
   /\ worker.at \in {"idle", "retrying"}
   /\ ~session[live].owed
   /\ \A i \in 1 .. Len(work) : work[i].kind \notin {"save", "files"})
  => IF session[live].run = "reading"
     THEN \A d \in Docs \ session[live].todo : d \in session[live].found <=> d \in Found(live)
     ELSE session[live].failed \/ session[live].published = Found(live)

\* While the config loads, the memory of open documents is behind the buffers only by
\* the events still queued, and the session behind the memory only during a rebuild.
Queued(d) == {i \in 1 .. Len(work) : work[i].kind \in {"open", "change", "close"} /\ work[i].doc = d}
CarriedInv ==
  /\ live # "failed"
  /\ live = "unbuilt" => memory = NoOverlay
  /\ HasSession /\ ~Rebuilding /\ worker.at # "reopening" => session[live].overlay = memory
  /\ \A d \in Docs : IF Queued(d) = {} THEN memory[d] = buffer[d]
       ELSE \A i \in Queued(d) : (\A j \in Queued(d) : j <= i) => work[i].text = buffer[d]
=============================================================================
