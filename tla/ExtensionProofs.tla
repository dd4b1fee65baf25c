--------------------------- MODULE ExtensionProofs ---------------------------
(* Theorems about Extension, for any workspaces, launches and bundle roots. *)
EXTENDS Extension, FiniteSetTheorems, SequenceTheorems, TLAPS

----------------------------------------------------------------------------
(* Which part of the state each part of the extension touches. *)
LEMMA FetchingFrame == Fetching => UNCHANGED <<restart, editing>>
BY DEF Fetching, Hear, Refresh, Reject, Apply, ReadSessions, Look, Mark, Schedule, Settle,
       AnswerConcepts

LEMMA ServeFrame == Serve => UNCHANGED <<restart, provider, requests, editing>>
BY DEF Serve, Load, Tell, Revalidate, Rebuild, FolderLeaves, FolderReturns, CloseOld, Dropped,
       ForgetWarmup, Reschedule

LEMMA EditingFrame == Editing => UNCHANGED <<restart, tree, server>>
BY DEF Editing, Type, Close, Deliver, Invoke, EditTarget, ResolveActor, ApplyEdit, SaveAfterApply,
       EditRejected, restart, tree, server, editing

LEMMA RestartingFrame == Restarting => UNCHANGED editing
BY DEF Restarting, Change, Deactivate, Take, DisposeTree, Stopped, StartFails, StartsTooOld, Drop,
       Starts, restart, tree, server, editing

----------------------------------------------------------------------------
(* Restarts: what runs is what the extension knows. *)
LEMMA RestartInit == Init => RestartInv
<1>. SUFFICES ASSUME Init
              PROVE  RestartInv
  OBVIOUS
<1>1. RestartType
  <2>1. <<"start">> \in Seq(Kinds \ {"none"})
    BY DEF Kinds
  <2>2. /\ NoTask = [pc |-> NoTask.pc, kind |-> NoTask.kind, left |-> NoTask.left]
        /\ NoTask.pc \in Pcs /\ NoTask.kind \in Kinds
    BY DEF NoTask, Pcs, Kinds
  <2>3. /\ task = NoTask /\ queue = <<"start">> /\ disposed = FALSE /\ attempt = 0
        /\ live = {} /\ watching = {} /\ strayed = {} /\ client = 0 /\ watchers = 0
    BY DEF Init
  <2>4. /\ task = [pc |-> task.pc, kind |-> task.kind, left |-> task.left]
        /\ task.pc \in Pcs /\ task.kind \in Kinds
    BY <2>2, <2>3
  <2>5. queue \in Seq(Kinds \ {"none"}) /\ disposed \in BOOLEAN
    BY <2>1, <2>3
  <2>6. /\ attempt \in Nat /\ client \in 0 .. attempt /\ watchers = client
        /\ live \subseteq 1 .. attempt /\ watching \subseteq 1 .. attempt
        /\ strayed \subseteq watching /\ client \notin strayed
    BY <2>3
  <2>. QED
    BY <2>4, <2>5, <2>6 DEF RestartType
<1>2. StartOnce
  BY DEF Init, StartOnce, NoTask
<1>3. Settled /\ Launching /\ StopsAtLast
  BY DEF Init, Settled, Launching, StopsAtLast, NoTask
<1>. QED
  BY <1>1, <1>2, <1>3 DEF RestartInv

LEMMA RestartKept ==
  ASSUME RestartInv, UNCHANGED restart
  PROVE  RestartInv'
BY DEF restart, RestartInv, RestartType, StartOnce, Settled, Launching, StopsAtLast

\* A task is queued behind the others.
LEMMA Queued ==
  ASSUME RestartInv, NEW kind \in {"restart", "stop"}, queue' = Append(queue, kind),
         UNCHANGED <<task, attempt, live, watching, strayed, client, watchers, actions>>,
         disposed' \in BOOLEAN, disposed' => kind = "stop"
  PROVE  RestartInv'
<1>1. /\ queue' \in Seq(Kinds \ {"none"}) /\ queue' # <<>> /\ Len(queue') = Len(queue) + 1
      /\ queue'[Len(queue')] = kind
      /\ \A i \in 1 .. Len(queue) : queue'[i] = queue[i]
  BY DEF RestartInv, RestartType, Kinds
<1>2. RestartType'
  BY <1>1 DEF RestartInv, RestartType
<1>3. StartOnce'
  <2>1. \A i \in 1 .. Len(queue') : i \in 1 .. Len(queue) \/ i = Len(queue')
    BY <1>1 DEF RestartInv, RestartType
  <2>. QED
    BY <1>1, <2>1 DEF RestartInv, StartOnce
<1>4. Settled' /\ Launching'
  BY DEF RestartInv, Settled, Launching
<1>5. StopsAtLast'
  BY <1>1 DEF StopsAtLast
<1>. QED
  BY <1>2, <1>3, <1>4, <1>5 DEF RestartInv

LEMMA TakeRestarts ==
  ASSUME RestartInv, Take
  PROVE  RestartInv'
<1>1. /\ queue # <<>> /\ queue \in Seq(Kinds \ {"none"}) /\ queue' = Tail(queue)
      /\ task.pc = "none" /\ disposed' = disposed
      /\ UNCHANGED <<live, strayed, client, watchers, actions>>
  BY DEF Take, Free, RestartInv, RestartType
<1>2. /\ queue' \in Seq(Kinds \ {"none"}) /\ Len(queue') = Len(queue) - 1
      /\ \A i \in 1 .. Len(queue') : queue'[i] = queue[i + 1]
      /\ Head(queue) = queue[1] /\ Head(queue) \in Kinds \ {"none"}
  BY <1>1
<1>3. StartOnce'
  <2>1. \A i \in 1 .. Len(queue') : i + 1 \in 1 .. Len(queue) /\ i + 1 # 1
    BY <1>1, <1>2
  <2>. QED
    BY <1>2, <2>1 DEF RestartInv, StartOnce
<1>4. queue' # <<>> => queue'[Len(queue')] = queue[Len(queue)]
  BY <1>1, <1>2
<1>5. queue' = <<>> <=> Len(queue) = 1
  BY <1>1, <1>2, EmptySeq
<1>6. CASE Head(queue) = "start"
  <2>1. attempt = 0 /\ client = 0 /\ live = {} /\ watching = {} /\ strayed = {} /\ ~actions
    <3>1. attempt = 0
      BY <1>1, <1>2, <1>6 DEF RestartInv, StartOnce
    <3>. QED
      BY <1>1, <3>1 DEF RestartInv, RestartType, Settled
  <2>2. /\ attempt' = 1 /\ watching' = {1}
        /\ task' = [pc |-> "starting", kind |-> "start", left |-> Candidates(folders)]
    BY <1>6, <2>1 DEF Take, Starting
  <2>. HIDE DEF Candidates
  <2>3. task'.pc = "starting" /\ task'.kind = "start" /\ task'.left = Candidates(folders)
    BY <2>2
  <2>4. RestartType'
    BY <1>1, <1>2, <2>1, <2>2, <2>3 DEF RestartInv, RestartType, Pcs, Kinds
  <2>5. Settled' /\ Launching'
    BY <1>1, <2>1, <2>2, <2>3 DEF Settled, Launching
  <2>6. StopsAtLast'
    <3>1. queue[Len(queue)] = "stop" => queue' # <<>>
      BY <1>1, <1>2, <1>5, <1>6
    <3>. QED
      BY <1>1, <1>4, <3>1 DEF RestartInv, StopsAtLast
  <2>. QED
    BY <1>3, <2>4, <2>5, <2>6 DEF RestartInv
<1>7. CASE Head(queue) # "start"
  <2>1. /\ attempt' = attempt /\ watching' = watching
        /\ task' = [pc |-> "stop", kind |-> Head(queue), left |-> <<>>]
    BY <1>7 DEF Take
  <2>2. task'.pc = "stop" /\ task'.kind = Head(queue) /\ task'.left = <<>>
    BY <2>1
  <2>3. RestartType'
    BY <1>1, <1>2, <2>1, <2>2 DEF RestartInv, RestartType, Pcs, Kinds
  <2>4. Settled' /\ Launching'
    BY <1>1, <2>1, <2>2 DEF RestartInv, Settled, Launching
  <2>5. StopsAtLast'
    <3>1. queue' = <<>> => Head(queue) = queue[Len(queue)]
      BY <1>2, <1>5
    <3>. QED
      BY <1>1, <1>4, <2>2, <3>1 DEF RestartInv, StopsAtLast
  <2>. QED
    BY <1>3, <2>3, <2>4, <2>5 DEF RestartInv
<1>. QED
  BY <1>6, <1>7

\* A step of the task that leaves the queue alone and is after the first "start".
LEMMA TaskMoves ==
  ASSUME RestartInv, task.pc # "none", queue' = queue, disposed' = disposed
  PROVE  /\ StartOnce'
         /\ task'.pc \in {"stop", "stopping"} /\ task'.kind = task.kind /\ task.pc \in {"stop", "stopping"}
              => StopsAtLast'
         /\ task.pc \in {"starting", "dropping"} => StopsAtLast'
<1>1. \A i \in 1 .. Len(queue) : queue[i] # "start"
  BY DEF RestartInv, StartOnce
<1>. QED
  BY <1>1 DEF RestartInv, StartOnce, StopsAtLast

LEMMA DisposeTreeRestarts ==
  ASSUME RestartInv, DisposeTree
  PROVE  RestartInv'
<1>1. /\ task.pc = "stop" /\ task' = [task EXCEPT !.pc = "stopping"] /\ actions' = FALSE
      /\ UNCHANGED <<disposed, queue, attempt, live, watching, strayed, client, watchers>>
  BY DEF DisposeTree, Goto
<1>2. /\ task' = [pc |-> "stopping", kind |-> task.kind, left |-> task.left]
      /\ task'.pc = "stopping" /\ task'.kind = task.kind /\ task'.left = task.left
  BY <1>1 DEF RestartInv, RestartType
<1>3. RestartType'
  BY <1>1, <1>2 DEF RestartInv, RestartType, Pcs
<1>4. StartOnce' /\ StopsAtLast'
  BY <1>1, <1>2, TaskMoves
<1>5. Settled' /\ Launching'
  BY <1>1, <1>2 DEF RestartInv, Settled, Launching
<1>. QED
  BY <1>3, <1>4, <1>5 DEF RestartInv

LEMMA StoppedRestarts ==
  ASSUME RestartInv, Stopped
  PROVE  RestartInv'
<1>1. /\ task.pc = "stopping" /\ live' = live \ {client} /\ client' = 0 /\ watchers' = 0
      /\ UNCHANGED <<disposed, queue, strayed, actions>>
  BY DEF Stopped
<1>2. /\ live' = {} /\ watching \ {watchers} = strayed /\ ~actions
      /\ attempt \in Nat /\ strayed \subseteq 1 .. attempt
  BY <1>1 DEF RestartInv, RestartType, Settled
<1>3. CASE task.kind = "stop"
  <2>1. task' = NoTask /\ watching' = strayed /\ attempt' = attempt
    BY <1>2, <1>3 DEF Stopped, EndTask
  <2>2. task'.pc = "none" /\ task'.kind = "none" /\ task'.left = <<>>
    BY <2>1 DEF NoTask
  <2>3. RestartType'
    BY <1>1, <1>2, <2>1, <2>2 DEF RestartInv, RestartType, Pcs, Kinds, NoTask
  <2>4. Settled' /\ Launching'
    BY <1>1, <1>2, <2>1, <2>2 DEF Settled, Launching
  <2>5. StartOnce'
    BY <1>1, TaskMoves
  <2>6. StopsAtLast'
    BY <1>1, <1>2, <2>2 DEF RestartInv, StopsAtLast
  <2>. QED
    BY <2>3, <2>4, <2>5, <2>6 DEF RestartInv
<1>4. CASE task.kind # "stop"
  <2>1. /\ task' = [pc |-> "starting", kind |-> task.kind, left |-> Candidates(folders)]
        /\ attempt' = attempt + 1 /\ watching' = strayed \cup {attempt + 1}
    BY <1>2, <1>4 DEF Stopped, Starting
  <2>2. /\ task'.pc = "starting" /\ task'.kind = task.kind /\ task'.left = Candidates(folders)
    BY <2>1
  <2>3. RestartType'
    BY <1>1, <1>2, <2>1, <2>2 DEF RestartInv, RestartType, Pcs
  <2>4. Settled' /\ Launching'
    BY <1>1, <1>2, <2>1, <2>2 DEF Settled, Launching
  <2>5. StartOnce'
    BY <1>1, TaskMoves
  <2>6. StopsAtLast'
    BY <1>1, <1>4 DEF RestartInv, StopsAtLast
  <2>. QED
    BY <2>3, <2>4, <2>5, <2>6 DEF RestartInv
<1>. QED
  BY <1>3, <1>4

\* A launch under way and what it comes to: nothing, the next launch, or the client.
LEMMA LaunchMeans ==
  ASSUME RestartInv, task.pc \in {"starting", "dropping"}
  PROVE  /\ attempt \in Nat \ {0} /\ attempt \notin strayed /\ watching = {attempt} \cup strayed
         /\ client = 0 /\ watchers = 0 /\ ~actions /\ strayed \subseteq 1 .. attempt
         /\ live = IF task.pc = "dropping" THEN {attempt} ELSE {}
         /\ Abandon = strayed
BY DEF RestartInv, RestartType, Launching, Abandon

LEMMA LaunchNext ==
  ASSUME RestartInv, task.pc \in {"starting", "dropping"}, TryTheNext, live' = {},
         UNCHANGED <<disposed, queue, strayed, client, watchers, actions>>
  PROVE  RestartInv'
<1>1. /\ task' = [pc |-> "starting", kind |-> task.kind, left |-> Tail(task.left)]
      /\ attempt' = attempt + 1 /\ watching' = strayed \cup {attempt + 1}
  BY LaunchMeans DEF TryTheNext, Starting
<1>2. /\ task'.pc = "starting" /\ task'.kind = task.kind /\ task'.left = Tail(task.left)
  BY <1>1
<1>3. RestartType'
  BY <1>1, <1>2, LaunchMeans DEF RestartInv, RestartType, Pcs
<1>4. Settled' /\ Launching'
  BY <1>1, <1>2, LaunchMeans DEF Settled, Launching
<1>. QED
  BY <1>3, <1>4, TaskMoves DEF RestartInv

LEMMA LaunchEnds ==
  ASSUME RestartInv, task.pc \in {"starting", "dropping"}, EndTask, live' = {}, attempt' = attempt,
         \/ watching' = Abandon /\ strayed' = strayed
         \/ watching' = watching /\ strayed' = strayed \cup {attempt},
         UNCHANGED <<disposed, queue, client, watchers, actions>>
  PROVE  RestartInv'
<1>1. task' = NoTask /\ task'.pc = "none" /\ task'.kind = "none" /\ task'.left = <<>>
  BY DEF EndTask, NoTask
<1>2. watching' = strayed' /\ strayed' \subseteq 1 .. attempt /\ 0 \notin strayed'
  BY LaunchMeans
<1>3. RestartType'
  BY <1>1, <1>2, LaunchMeans DEF RestartInv, RestartType, Pcs, Kinds, NoTask
<1>4. Settled' /\ Launching'
  BY <1>1, <1>2, LaunchMeans DEF Settled, Launching
<1>. QED
  BY <1>3, <1>4, TaskMoves DEF RestartInv

LEMMA StartsTooOldRestarts ==
  ASSUME RestartInv, StartsTooOld
  PROVE  RestartInv'
<1>1. /\ task.pc = "starting" /\ task' = [task EXCEPT !.pc = "dropping"] /\ live' = live \cup {attempt}
      /\ UNCHANGED <<disposed, queue, attempt, watching, strayed, client, watchers, actions>>
  BY DEF StartsTooOld, Goto
<1>2. /\ task' = [pc |-> "dropping", kind |-> task.kind, left |-> task.left]
      /\ task'.pc = "dropping" /\ task'.kind = task.kind /\ task'.left = task.left
  BY <1>1 DEF RestartInv, RestartType
<1>3. live' = {attempt}
  BY <1>1, LaunchMeans
<1>4. RestartType'
  BY <1>1, <1>2, <1>3, LaunchMeans DEF RestartInv, RestartType, Pcs
<1>5. Settled' /\ Launching'
  BY <1>1, <1>2, <1>3, LaunchMeans DEF Settled, Launching
<1>. QED
  BY <1>1, <1>4, <1>5, TaskMoves DEF RestartInv

LEMMA StartsRestarts ==
  ASSUME RestartInv, Starts
  PROVE  RestartInv'
<1>1. /\ task.pc = "starting" /\ task' = NoTask /\ live' = live \cup {attempt}
      /\ client' = attempt /\ watchers' = attempt
      /\ UNCHANGED <<disposed, queue, attempt, watching, strayed>>
  BY DEF Starts, EndTask
<1>2. task'.pc = "none" /\ task'.kind = "none" /\ task'.left = <<>>
  BY <1>1 DEF NoTask
<1>3. live' = {attempt}
  BY <1>1, LaunchMeans
<1>4. RestartType'
  BY <1>1, <1>2, <1>3, LaunchMeans DEF RestartInv, RestartType, Pcs, Kinds, NoTask
<1>5. Settled' /\ Launching'
  BY <1>1, <1>2, <1>3, LaunchMeans DEF Settled, Launching
<1>. QED
  BY <1>1, <1>4, <1>5, TaskMoves DEF RestartInv

LEMMA RestartStep == RestartInv /\ [Next]_vars => RestartInv'
<1>. SUFFICES ASSUME RestartInv, [Next]_vars
              PROVE  RestartInv'
  OBVIOUS
<1>1. CASE UNCHANGED restart
  BY <1>1, RestartKept
<1>2. ASSUME NEW fs \in Workspaces, Change(fs)
      PROVE  RestartInv'
  BY <1>2, Queued DEF Change, RestartInv, RestartType
<1>3. CASE Deactivate
  BY <1>3, Queued DEF Deactivate
<1>4. CASE StartFails
  <2>1. live' = {}
    BY <1>4, LaunchMeans DEF StartFails
  <2>2. CASE IsLast
    BY <1>4, <2>1, <2>2, LaunchEnds DEF StartFails
  <2>3. CASE ~IsLast
    BY <1>4, <2>1, <2>3, LaunchNext DEF StartFails
  <2>. QED
    BY <2>2, <2>3
<1>5. CASE Drop
  <2>1. live' = {}
    BY <1>5, LaunchMeans DEF Drop
  <2>. QED
    BY <1>5, <2>1, LaunchEnds, LaunchNext DEF Drop
<1>. QED
  BY <1>1, <1>2, <1>3, <1>4, <1>5, FetchingFrame, EditingFrame, TakeRestarts, DisposeTreeRestarts,
     StoppedRestarts, StartsTooOldRestarts, StartsRestarts, ServeFrame DEF Next, Restarting, vars

\* At most one server runs, and between two tasks it is the one the extension knows, with its
\* watchers and no others but those a failed stop left; after the last stop there is none.
THEOREM RunsOnlyWhatItOwns == Spec => []OwnsWhatRuns
<1>1. RestartInv => OwnsWhatRuns
  <2>. SUFFICES ASSUME RestartInv
                PROVE  OwnsWhatRuns
    OBVIOUS
  <2>1. live = {} \/ \E c : live = {c}
    BY DEF RestartInv, RestartType, Pcs, Settled, Launching
  <2>2. Cardinality(live) <= 1
    <3>1. Cardinality({}) = 0 /\ \A c : Cardinality({c}) = 1
      BY FS_EmptySet, FS_Singleton
    <3>2. CASE live = {}
      BY <3>1, <3>2
    <3>3. ASSUME NEW c, live = {c}
          PROVE  Cardinality(live) <= 1
      <4>1. Cardinality(live) = 1
        BY <3>1, <3>3
      <4>. QED
        BY <4>1
    <3>. QED
      BY <2>1, <3>2, <3>3
  <2>3. task.pc = "none" => /\ live = {client} \ {0} /\ watching = ({watchers} \ {0}) \cup strayed
                            /\ actions => client # 0
    BY DEF RestartInv, Settled
  <2>4. task.pc = "none" /\ disposed /\ queue = <<>> => live = {}
    BY DEF RestartInv, StopsAtLast
  <2>. QED
    BY <2>2, <2>3, <2>4 DEF OwnsWhatRuns
<1>. QED
  BY <1>1, RestartInit, RestartStep, PTL DEF Spec

----------------------------------------------------------------------------
(* Edits: a version names one text. *)
Message == [version : Nat, text : Int]

LEMMA EditInit == Init => EditInv
<1>. SUFFICES ASSUME Init
              PROVE  EditInv
  OBVIOUS
<1>1. /\ doc = [version |-> 0, text |-> 0, disk |-> 0, typed |-> 0, closes |-> 0]
      /\ mail = <<>> /\ memory = [version |-> 0, text |-> 0] /\ edit = NoEdit
  BY DEF Init
<1>2. /\ doc.version = 0 /\ doc.text = 0 /\ doc.disk = 0 /\ doc.typed = 0 /\ doc.closes = 0
      /\ memory.version = 0 /\ memory.text = 0
      /\ edit.pc = "none" /\ edit.on = 0 /\ edit.stopping = FALSE
      /\ edit.base = 0 /\ edit.version = 0 /\ edit.text = 0
  BY <1>1 DEF NoEdit
<1>3. /\ doc = [version |-> doc.version, text |-> doc.text, disk |-> doc.disk, typed |-> doc.typed,
                closes |-> doc.closes]
      /\ edit = [pc |-> edit.pc, on |-> edit.on, stopping |-> edit.stopping, base |-> edit.base,
                 version |-> edit.version, text |-> edit.text]
      /\ memory \in [version : Nat, text : Int]
  BY <1>1, <1>2 DEF NoEdit
<1>4. mail \in Seq([version : Nat, text : Int]) /\ Len(mail) = 0
  BY <1>1
<1>. QED
  BY <1>2, <1>3, <1>4 DEF EditInv, EditType, OneText

LEMMA EditKept ==
  ASSUME EditInv, UNCHANGED editing
  PROVE  EditInv'
BY DEF editing, EditInv, EditType, OneText

\* The buffer says something new: what it says goes out to the server.
LEMMA Says ==
  ASSUME EditInv, NEW m \in Message, mail' = Append(mail, m), memory' = memory,
         NEW typed \in Int, NEW disk \in Int, NEW closes,
         doc' = [version |-> m.version, text |-> m.text, disk |-> disk, typed |-> typed, closes |-> closes],
         closes = 0 => doc.closes = 0 /\ m.version = doc.version + 1,
         \/ edit' = edit
         \/ /\ edit' = [edit EXCEPT !.pc = "applied", !.text = doc.text]
            /\ edit.pc = "sent"
            /\ edit.version # 0 => edit.version = doc.version
  PROVE  EditInv'
<1>1. /\ doc'.version = m.version /\ doc'.text = m.text /\ doc'.disk = disk /\ doc'.typed = typed
      /\ doc'.closes = closes
  OBVIOUS
<1>2. /\ m.version \in Nat /\ m.text \in Int
      /\ mail \in Seq(Message) /\ mail' \in Seq(Message) /\ Len(mail') = Len(mail) + 1
      /\ mail'[Len(mail')] = m /\ \A i \in 1 .. Len(mail) : mail'[i] = mail[i]
  BY DEF Message, EditInv, EditType
<1>3. /\ edit' = [pc |-> edit'.pc, on |-> edit'.on, stopping |-> edit'.stopping, base |-> edit'.base,
                  version |-> edit'.version, text |-> edit'.text]
      /\ edit'.version = edit.version /\ edit'.base = edit.base /\ edit.version \in Nat
      /\ edit' = edit \/ (edit'.pc = "applied" /\ edit'.text = doc.text)
  <2>1. /\ edit = [pc |-> edit.pc, on |-> edit.on, stopping |-> edit.stopping, base |-> edit.base,
                   version |-> edit.version, text |-> edit.text]
        /\ edit.version \in Nat
    BY DEF EditInv, EditType
  <2>2. CASE edit' = edit
    BY <2>1, <2>2
  <2>3. CASE edit' = [edit EXCEPT !.pc = "applied", !.text = doc.text]
    <3>1. edit' = [pc |-> "applied", on |-> edit.on, stopping |-> edit.stopping, base |-> edit.base,
                   version |-> edit.version, text |-> doc.text]
      BY <2>1, <2>3
    <3>. QED
      BY <2>1, <3>1
  <2>. QED
    BY <2>2, <2>3
<1>4. EditType'
  BY <1>1, <1>2, <1>3 DEF EditInv, EditType, Message
<1>5. ASSUME closes = 0
      PROVE  /\ OneText(memory.version, memory.text)'
             /\ \A i \in 1 .. Len(mail') : OneText(mail[i].version, mail[i].text)'
             /\ edit'.pc \in {"resolving", "sent"} /\ edit'.version # 0 => OneText(edit.version, edit.base)'
             /\ edit'.pc = "applied" /\ edit'.version # 0 => edit'.text = edit'.base
  <2>1. doc.closes = 0 /\ doc'.version = doc.version + 1 /\ doc.version \in Nat
    BY <1>1, <1>5 DEF EditInv, EditType
  <2>2. \A v \in Nat, t \in Int : OneText(v, t) => v < doc'.version
    BY <2>1 DEF OneText
  <2>3. OneText(memory.version, memory.text)'
    BY <2>1, <2>2 DEF EditInv, EditType, OneText
  <2>4. ASSUME NEW i \in 1 .. Len(mail')
        PROVE  OneText(mail[i].version, mail[i].text)'
    <3>1. CASE i = Len(mail')
      <4>1. mail'[i] = m
        BY <1>2, <3>1
      <4>2. mail'[i].version = doc'.version /\ mail'[i].text = doc'.text /\ doc'.version \in Nat
        BY <1>1, <1>2, <4>1
      <4>. QED
        BY <4>2 DEF OneText
    <3>2. CASE i # Len(mail')
      <4>1. i \in 1 .. Len(mail) /\ mail'[i] = mail[i] /\ mail[i] \in Message
        BY <1>2, <3>2
      <4>2. mail[i].version \in Nat /\ mail[i].text \in Int
        BY <4>1 DEF Message
      <4>3. OneText(mail[i].version, mail[i].text)
        BY <2>1, <4>1 DEF EditInv
      <4>4. mail[i].version < doc'.version
        BY <2>1, <4>2, <4>3 DEF OneText
      <4>. QED
        BY <2>1, <4>1, <4>2, <4>4 DEF OneText
    <3>. QED
      BY <3>1, <3>2
  <2>5. edit'.pc \in {"resolving", "sent"} /\ edit'.version # 0 => OneText(edit.version, edit.base)'
    BY <1>3, <2>1 DEF EditInv, OneText
  <2>6. edit'.pc = "applied" /\ edit'.version # 0 => edit'.text = edit'.base
    <3>1. CASE edit' = edit
      BY <2>1, <3>1 DEF EditInv
    <3>2. CASE /\ edit' = [edit EXCEPT !.pc = "applied", !.text = doc.text]
               /\ edit.pc = "sent"
               /\ edit.version # 0 => edit.version = doc.version
      <4>1. edit.version # 0 => edit.base = doc.text
        BY <2>1, <3>2 DEF EditInv, OneText
      <4>2. edit'.text = doc.text
        BY <3>2 DEF EditInv, EditType
      <4>. QED
        BY <1>3, <4>1, <4>2
    <3>. QED
      BY <3>1, <3>2
  <2>. QED
    BY <2>3, <2>4, <2>5, <2>6
<1>. QED
  BY <1>1, <1>4, <1>5 DEF EditInv

\* The command moves on, and what it knows of the text stays true.
LEMMA CommandMoves ==
  ASSUME EditInv, UNCHANGED <<doc, mail, memory>>,
         edit' = [pc |-> edit'.pc, on |-> edit'.on, stopping |-> edit'.stopping, base |-> edit'.base,
                  version |-> edit'.version, text |-> edit'.text],
         edit'.pc # "applied",
         \/ edit'.version = edit.version /\ edit'.base = edit.base /\ edit.pc \in {"resolving", "sent"}
         \/ edit'.version = memory.version /\ edit'.base = memory.text
         \/ edit'.version = 0
  PROVE  EditInv'
<1>1. edit'.version \in Nat
  BY DEF EditInv, EditType
<1>2. EditType'
  BY <1>1 DEF EditInv, EditType
<1>3. doc.closes = 0 /\ edit'.version # 0 => OneText(edit'.version, edit'.base)
  BY DEF EditInv
<1>. QED
  BY <1>2, <1>3 DEF EditInv, OneText

LEMMA EditingStep ==
  ASSUME EditInv, Editing
  PROVE  EditInv'
<1>1. /\ doc = [version |-> doc.version, text |-> doc.text, disk |-> doc.disk, typed |-> doc.typed,
                closes |-> doc.closes]
      /\ edit = [pc |-> edit.pc, on |-> edit.on, stopping |-> edit.stopping, base |-> edit.base,
                 version |-> edit.version, text |-> edit.text]
      /\ doc.version \in Nat /\ doc.text \in Int /\ doc.typed \in Int /\ doc.disk \in Int
      /\ memory.version \in Nat /\ memory.text \in Int /\ edit.version \in Nat
  BY DEF EditInv, EditType
<1>2. CASE Type
  <2>. DEFINE m == [version |-> doc.version + 1, text |-> doc.typed + 1]
  <2>1. /\ doc' = [version |-> m.version, text |-> m.text, disk |-> doc.disk, typed |-> doc.typed + 1,
                   closes |-> doc.closes]
        /\ mail' = Append(mail, m) /\ memory' = memory /\ edit' = edit
    BY <1>1, <1>2 DEF Type
  <2>2. m \in Message /\ doc.typed + 1 \in Int /\ m.version = doc.version + 1
    BY <1>1 DEF Message
  <2>. HIDE DEF m
  <2>. QED
    BY <1>1, <2>1, <2>2, Says
<1>3. CASE Close
  <2>. DEFINE m == [version |-> 0, text |-> doc.disk]
  <2>1. /\ doc' = [version |-> m.version, text |-> m.text, disk |-> doc.disk, typed |-> doc.typed,
                   closes |-> 1]
        /\ mail' = Append(mail, m) /\ memory' = memory /\ edit' = edit
    BY <1>1, <1>3 DEF Close
  <2>2. m \in Message
    BY <1>1 DEF Message
  <2>. HIDE DEF m
  <2>. QED
    BY <1>1, <2>1, <2>2, Says
<1>4. CASE Deliver
  <2>1. /\ mail # <<>> /\ mail \in Seq(Message) /\ memory' = Head(mail) /\ mail' = Tail(mail)
        /\ doc' = doc /\ edit' = edit
    BY <1>4 DEF Deliver, EditInv, EditType, Message
  <2>2. /\ memory' \in Message /\ mail' \in Seq(Message)
        /\ memory' = mail[1] /\ 1 \in 1 .. Len(mail)
        /\ \A i \in 1 .. Len(mail') : mail'[i] = mail[i + 1] /\ i + 1 \in 1 .. Len(mail)
    BY <2>1
  <2>3. EditType'
    BY <2>1, <2>2 DEF EditInv, EditType, Message
  <2>4. ASSUME doc.closes = 0
        PROVE  /\ OneText(memory.version, memory.text)'
               /\ \A i \in 1 .. Len(mail') : OneText(mail[i].version, mail[i].text)'
    BY <2>1, <2>2, <2>4 DEF EditInv, OneText
  <2>. QED
    BY <2>1, <2>3, <2>4 DEF EditInv, OneText
<1>5. CASE Invoke
  <2>1. /\ edit' = [NoEdit EXCEPT !.pc = "asked", !.on = client, !.stopping = (task.pc = "stopping")]
        /\ UNCHANGED <<doc, mail, memory>>
    BY <1>5 DEF Invoke
  <2>2. /\ edit' = [pc |-> edit'.pc, on |-> edit'.on, stopping |-> edit'.stopping, base |-> edit'.base,
                    version |-> edit'.version, text |-> edit'.text]
        /\ edit'.pc = "asked" /\ edit'.version = 0
    BY <2>1 DEF NoEdit
  <2>. QED
    BY <2>1, <2>2, CommandMoves
<1>6. CASE EditTarget
  <2>1. /\ edit' = [edit EXCEPT !.pc = "resolving", !.base = memory.text, !.version = memory.version]
        /\ UNCHANGED <<doc, mail, memory>>
    BY <1>6 DEF EditTarget
  <2>2. /\ edit' = [pc |-> edit'.pc, on |-> edit'.on, stopping |-> edit'.stopping, base |-> edit'.base,
                    version |-> edit'.version, text |-> edit'.text]
        /\ edit'.pc = "resolving" /\ edit'.version = memory.version /\ edit'.base = memory.text
    BY <1>1, <2>1
  <2>. QED
    BY <2>1, <2>2, CommandMoves
<1>7. ASSUME NEW pc \in {"failed", "refused", "saved"}, edit' = [NoEdit EXCEPT !.pc = pc]
      PROVE  /\ edit' = [pc |-> edit'.pc, on |-> edit'.on, stopping |-> edit'.stopping,
                         base |-> edit'.base, version |-> edit'.version, text |-> edit'.text]
             /\ edit'.pc # "applied" /\ edit'.version = 0
  BY <1>7 DEF NoEdit
<1>8. CASE ResolveActor
  <2>1. CASE edit' = [edit EXCEPT !.pc = "sent", !.version = edit.version]
    <3>1. /\ edit' = [pc |-> edit'.pc, on |-> edit'.on, stopping |-> edit'.stopping, base |-> edit'.base,
                      version |-> edit'.version, text |-> edit'.text]
          /\ edit'.pc = "sent" /\ edit'.version = edit.version /\ edit'.base = edit.base
      BY <1>1, <2>1
    <3>. QED
      BY <1>8, <3>1, CommandMoves DEF ResolveActor
  <2>2. CASE edit' = [NoEdit EXCEPT !.pc = "failed"]
    BY <1>7, <1>8, <2>2, CommandMoves DEF ResolveActor
  <2>. QED
    BY <1>8, <2>1, <2>2 DEF ResolveActor, SentVersion
<1>9. CASE ApplyEdit
  <2>1. CASE edit.version # 0 /\ edit.version # doc.version
    BY <1>7, <1>9, <2>1, CommandMoves DEF ApplyEdit
  <2>2. CASE ~(edit.version # 0 /\ edit.version # doc.version)
    <3>. DEFINE m == [version |-> doc.version + 1, text |-> doc.text]
    <3>1. /\ doc' = [version |-> m.version, text |-> m.text, disk |-> doc.disk, typed |-> doc.typed,
                     closes |-> doc.closes]
          /\ mail' = Append(mail, m) /\ memory' = memory
          /\ edit' = [edit EXCEPT !.pc = "applied", !.text = doc.text] /\ edit.pc = "sent"
      BY <1>1, <1>9, <2>2 DEF ApplyEdit
    <3>2. m \in Message /\ m.version = doc.version + 1
      BY <1>1 DEF Message
    <3>. HIDE DEF m
    <3>. QED
      BY <1>1, <2>2, <3>1, <3>2, Says
  <2>. QED
    BY <2>1, <2>2
<1>10. CASE SaveAfterApply
  <2>1. /\ doc' = [version |-> doc.version, text |-> doc.text, disk |-> doc.text, typed |-> doc.typed,
                   closes |-> doc.closes]
        /\ edit' = [NoEdit EXCEPT !.pc = "saved"] /\ mail' = mail /\ memory' = memory
    BY <1>1, <1>10 DEF SaveAfterApply
  <2>2. /\ doc'.version = doc.version /\ doc'.text = doc.text /\ doc'.disk = doc.text
        /\ doc'.typed = doc.typed /\ doc'.closes = doc.closes
    BY <2>1
  <2>3. EditType'
    BY <1>1, <1>7, <2>1, <2>2 DEF EditInv, EditType
  <2>. QED
    BY <1>7, <2>1, <2>2, <2>3 DEF EditInv, OneText
<1>11. CASE EditRejected
  BY <1>7, <1>11, CommandMoves DEF EditRejected
<1>. QED
  BY <1>2, <1>3, <1>4, <1>5, <1>6, <1>8, <1>9, <1>10, <1>11 DEF Editing

LEMMA EditStep == EditInv /\ [Next]_vars => EditInv'
BY EditKept, EditingStep, RestartingFrame, FetchingFrame, ServeFrame DEF Next, vars

\* An edit computed from an open buffer is applied to that very text or refused, whatever is
\* typed while the actor is looked up, until the document is closed.
THEOREM EditsLandOnTheirText == Spec => []EditLands
<1>1. EditInv => EditLands
  BY DEF EditInv, EditLands
<1>. QED
  BY <1>1, EditInit, EditStep, PTL DEF Spec

----------------------------------------------------------------------------
(* The tree: the latest fetch shows what the server holds. *)
LEMMA Lengths ==
  ASSUME SessionsType, NEW r \in Roots
  PROVE  /\ loaded[r] \in Seq(Nat) /\ Len(loaded[r]) \in Nat
         /\ IF slot[r] = "live" THEN Session(r) = Len(loaded[r]) /\ Session(r) > 0 ELSE Session(r) = 0
         /\ Session(r) \in 0 .. Len(loaded[r]) /\ Session(r) \in Nat
<1>1. loaded[r] \in Seq(Nat) /\ Len(loaded[r]) \in Nat /\ (loaded[r] # <<>> => Len(loaded[r]) > 0)
  BY EmptySeq DEF SessionsType
<1>. QED
  BY <1>1 DEF SessionsType, Session

\* Sessions are only ever added.
Grows == \A r \in Roots : Len(loaded'[r]) \in Nat /\ Len(loaded'[r]) >= Len(loaded[r])
\* What a session holds, as far as it can be seen.
SameBundles ==
  \A r \in Roots : /\ \A s \in 0 .. Len(loaded[r]) : Bundle(r, s)' = Bundle(r, s)
                   /\ Bundle(r, Session(r))' = Bundle(r, Session(r))

LEMMA SessionsKept == SessionsType /\ UNCHANGED server => SessionsType'
BY DEF SessionsType, server

LEMMA BundlesKept ==
  ASSUME SessionsType, UNCHANGED <<loaded, slot>>
  PROVE  Grows /\ SameBundles
<1>1. \A r \in Roots : Len(loaded[r]) \in Nat
  BY Lengths
<1>. QED
  BY <1>1 DEF Grows, SameBundles, Bundle, Session

LEMMA FetchKept ==
  ASSUME SessionsType, Grows, NEW q, FetchType(q)
  PROVE  FetchType(q)'
<1>1. \A r \in Roots : /\ Len(loaded[r]) \in Nat /\ Len(loaded'[r]) \in Nat
                       /\ Len(loaded'[r]) >= Len(loaded[r])
  BY Lengths DEF Grows
<1>2. \A r \in Roots : q.sessions[r] \in 0 .. Len(loaded'[r])
  BY <1>1 DEF FetchType
<1>. QED
  BY <1>2 DEF FetchType

LEMMA NewFetch ==
  ASSUME SessionsType, NEW of, NEW generation \in Nat
  PROVE  LET q == Fetch(of, generation)
         IN  /\ FetchType(q)
             /\ q.of = of /\ q.generation = generation /\ q.pc = "sent" /\ q.left = {}
<1>. DEFINE q == Fetch(of, generation)
<1>1. /\ q.of = of /\ q.generation = generation /\ q.pc = "sent" /\ q.left = {}
      /\ q.sessions = [r \in Roots |-> 0]
      /\ q = [of |-> q.of, generation |-> q.generation, pc |-> q.pc, left |-> q.left, at |-> q.at,
              sessions |-> q.sessions, answer |-> q.answer]
  BY DEF Fetch
<1>. HIDE DEF q
<1>2. \A r \in Roots : q.sessions[r] = 0 /\ 0 \in 0 .. Len(loaded[r])
  BY <1>1, Lengths
<1>3. FetchType(q)
  BY <1>1, <1>2 DEF FetchType
<1>. QED
  BY <1>1, <1>3 DEF q

LEMMA NewProvider ==
  ASSUME provider' = NoProvider
  PROVE  ProviderType' /\ provider'.of = 0 /\ ~provider'.timer
<1>1. /\ provider' = [of |-> provider'.of, generation |-> provider'.generation,
                      timer |-> provider'.timer, failed |-> provider'.failed, shown |-> provider'.shown]
      /\ provider'.of = 0 /\ provider'.generation = 0 /\ provider'.timer = FALSE
      /\ provider'.failed = FALSE
  BY DEF NoProvider
<1>. QED
  BY <1>1 DEF ProviderType

LEMMA TreeInit == Init => TreeInv /\ WarmInv
<1>. SUFFICES ASSUME Init
              PROVE  TreeInv /\ WarmInv
  OBVIOUS
<1>1. /\ provider = NoProvider /\ requests = {} /\ notes = {} /\ live = {} /\ client = 0
      /\ loaded = [r \in Roots |-> <<>>] /\ slot = [r \in Roots |-> "unbuilt"]
      /\ leaving = [r \in Roots |-> "none"] /\ owed = [r \in Roots |-> {}]
      /\ telling = [r \in Roots |-> {}] /\ tried = [r \in Roots |-> {}] /\ warmed = {} /\ stale = {}
  BY DEF Init
<1>2. SessionsType
  <2>1. <<>> \in Seq(Nat) /\ Len(<<>>) = 0
    OBVIOUS
  <2>2. \A r \in Roots : /\ loaded[r] = <<>> /\ slot[r] = "unbuilt" /\ leaving[r] = "none"
                         /\ owed[r] = {} /\ telling[r] = {}
    BY <1>1
  <2>3. /\ loaded \in [Roots -> Seq(Nat)] /\ owed \in [Roots -> SUBSET Nat]
        /\ telling \in [Roots -> SUBSET Nat] /\ tried \in [Roots -> SUBSET Nat]
    BY <1>1, <2>1
  <2>4. /\ slot \in [Roots -> {"unbuilt", "live", "away"}]
        /\ leaving \in [Roots -> {"none", "closing", "dropping", "forgetting", "scheduling"}]
    BY <1>1
  <2>5. \A r \in Roots : \A s \in 1 .. Len(loaded[r]) : FALSE
    BY <2>1, <2>2
  <2>. QED
    BY <1>1, <2>2, <2>3, <2>4, <2>5 DEF SessionsType
<1>3. /\ provider = [of |-> provider.of, generation |-> provider.generation,
                     timer |-> provider.timer, failed |-> provider.failed, shown |-> provider.shown]
      /\ provider.of = 0 /\ provider.generation = 0 /\ provider.timer = FALSE
      /\ provider.failed = FALSE
  BY <1>1 DEF NoProvider
<1>4. TreeType
  BY <1>1, <1>2, <1>3 DEF TreeType, ProviderType
<1>5. OfTheClient /\ Settling
  BY <1>1, <1>3 DEF OfTheClient, Settling
<1>6. WarmInv
  BY <1>1 DEF WarmInv
<1>. QED
  BY <1>4, <1>5, <1>6 DEF TreeInv

\* A tree on a live server is the client's, and so is every fetch.
LEMMA TheClient ==
  ASSUME RestartInv, OfTheClient
  PROVE  /\ client \in live => client # 0
         /\ provider.of \in live => provider.of = client /\ client \in live
         /\ \A q \in requests : q.of = client /\ client # 0
BY DEF RestartInv, RestartType, OfTheClient, Settled, Launching, Pcs

\* Nothing moves that the tree is made from.
LEMMA TreeKept ==
  ASSUME TreeInv, UNCHANGED <<tree, server, client>>,
         task'.pc = "stopping" => task.pc = "stopping",
         provider.of \in live' => provider.of \in live
  PROVE  TreeInv'
<1>1. SessionsType' /\ Grows /\ SameBundles
  BY SessionsKept, BundlesKept DEF TreeInv, TreeType, server
<1>2. TreeType'
  BY <1>1, FetchKept DEF TreeInv, TreeType, ProviderType, tree
<1>3. OfTheClient'
  BY DEF TreeInv, OfTheClient, tree
<1>4. Settling'
  BY DEF TreeInv, Settling, Due, Latest, WillShow, Bundle, Session, tree, server
<1>. QED
  BY <1>2, <1>3, <1>4 DEF TreeInv

LEMMA StartsTree ==
  ASSUME RestartInv, TreeInv, Starts
  PROVE  TreeInv'
<1>1. /\ task.pc = "starting" /\ task' = NoTask /\ live' = live \cup {attempt} /\ client' = attempt
      /\ slot' = [r \in Roots |-> "unbuilt"] /\ leaving' = [r \in Roots |-> "none"]
      /\ owed' = [r \in Roots |-> {}] /\ telling' = [r \in Roots |-> {}] /\ warmed' = {} /\ stale' = {}
      /\ UNCHANGED <<notes, loaded, tried>>
  BY DEF Starts, EndTask
<1>2. /\ attempt \in Nat \ {0} /\ client = 0 /\ live' = {attempt} /\ task'.pc = "none"
  BY <1>1, LaunchMeans DEF NoTask
<1>3. provider = NoProvider /\ requests = {} /\ notes = {}
  BY <1>2 DEF TreeInv, OfTheClient
<1>4. \/ provider' = NoProvider /\ requests' = {}
      \/ /\ provider' = [NoProvider EXCEPT !.of = attempt, !.generation = 1]
         /\ requests' = {Fetch(attempt, 1)}
  BY <1>3 DEF Starts
<1>5. SessionsType'
  <2>1. /\ slot' \in [Roots -> {"unbuilt", "live", "away"}]
        /\ leaving' \in [Roots -> {"none", "closing", "dropping", "forgetting", "scheduling"}]
        /\ owed' \in [Roots -> SUBSET Nat] /\ telling' \in [Roots -> SUBSET Nat]
    BY <1>1
  <2>2. \A r \in Roots : /\ slot'[r] = "unbuilt" /\ leaving'[r] = "none" /\ owed'[r] = {}
                         /\ telling'[r] = {}
    BY <1>1
  <2>. QED
    BY <1>1, <2>1, <2>2 DEF TreeInv, TreeType, SessionsType
<1>6. CASE provider' = NoProvider /\ requests' = {}
  <2>1. provider'.of \notin live' /\ ProviderType' /\ ~provider'.timer /\ provider'.of = 0
    BY <1>2, <1>6, NewProvider
  <2>2. TreeType'
    BY <1>5, <1>6, <2>1 DEF TreeType
  <2>3. OfTheClient'
    BY <1>1, <1>2, <1>3, <1>6, <2>1 DEF OfTheClient
  <2>. QED
    BY <2>1, <2>2, <2>3 DEF TreeInv, Settling
<1>7. CASE /\ provider' = [NoProvider EXCEPT !.of = attempt, !.generation = 1]
           /\ requests' = {Fetch(attempt, 1)}
  <2>1. /\ provider'.of = attempt /\ provider'.generation = 1 /\ provider'.timer = FALSE
        /\ provider'.failed = FALSE
        /\ provider' = [of |-> provider'.of, generation |-> provider'.generation,
                        timer |-> provider'.timer, failed |-> provider'.failed, shown |-> provider'.shown]
    BY <1>7 DEF NoProvider
  <2>2. Grows /\ SessionsType
    BY <1>1, Lengths DEF TreeInv, TreeType, Grows
  <2>3. /\ \A q \in requests' :
             /\ FetchType(q)
             /\ q.of = attempt /\ q.generation = 1 /\ q.pc = "sent" /\ q.left = {}
        /\ \E q \in requests' : q.of = attempt /\ q.generation = 1
    BY <1>7, <2>2, NewFetch
  <2>4. TreeType'
    <3>1. ProviderType'
      BY <2>1 DEF ProviderType
    <3>2. \A q \in requests' : FetchType(q)'
      BY <2>2, <2>3, FetchKept
    <3>. QED
      BY <1>5, <3>1, <3>2 DEF TreeType
  <2>5. OfTheClient'
    BY <1>1, <1>2, <1>3, <2>1, <2>3 DEF OfTheClient
  <2>6. Settling'
    BY <2>1, <2>3 DEF Settling, Latest, WillShow
  <2>. QED
    BY <2>4, <2>5, <2>6 DEF TreeInv
<1>. QED
  BY <1>4, <1>6, <1>7

LEMMA RestartingTree ==
  ASSUME RestartInv, TreeInv, Restarting
  PROVE  TreeInv'
<1>1. CASE (\E fs \in Workspaces : Change(fs)) \/ Deactivate
  BY <1>1, TreeKept DEF Change, Deactivate
<1>2. CASE Take
  <2>1. task'.pc # "stopping"
    BY <1>2 DEF Take, Starting
  <2>. QED
    BY <1>2, <2>1, TreeKept DEF Take
<1>3. CASE DisposeTree
  <2>1. /\ provider' = NoProvider
        /\ UNCHANGED <<live, client, requests, notes, server>>
    BY <1>3 DEF DisposeTree
  <2>2. provider'.of = 0 /\ 0 \notin live'
    BY <2>1, NewProvider DEF RestartInv, RestartType
  <2>3. SessionsType' /\ Grows
    BY <2>1, SessionsKept, BundlesKept DEF TreeInv, TreeType, server
  <2>4. TreeType'
    BY <2>1, <2>3, NewProvider, FetchKept DEF TreeInv, TreeType
  <2>5. OfTheClient'
    BY <2>1, NewProvider DEF TreeInv, OfTheClient
  <2>. QED
    BY <2>2, <2>4, <2>5 DEF TreeInv, Settling
<1>4. CASE Stopped
  <2>1. /\ provider' = provider /\ task.pc = "stopping" /\ requests' = {} /\ notes' = {} /\ client' = 0
        /\ live' \subseteq live /\ UNCHANGED server
    BY <1>4 DEF Stopped
  <2>2. provider = NoProvider /\ 0 \notin live'
    BY <2>1 DEF TreeInv, OfTheClient, RestartInv, RestartType
  <2>3. TreeType'
    BY <2>1, SessionsKept DEF TreeInv, TreeType, ProviderType
  <2>4. OfTheClient'
    BY <2>1, <2>2, NewProvider DEF OfTheClient
  <2>. QED
    BY <2>1, <2>2, <2>3, <2>4, NewProvider DEF TreeInv, Settling
<1>5. CASE StartFails \/ StartsTooOld \/ Drop
  <2>1. /\ task.pc \in {"starting", "dropping"} /\ UNCHANGED <<tree, server, client>>
    BY <1>5 DEF StartFails, StartsTooOld, Drop
  <2>2. provider = NoProvider
    BY <2>1, LaunchMeans DEF TreeInv, OfTheClient
  <2>3. provider.of \notin live'
    <3>1. live' \subseteq live \cup {attempt}
      BY <1>5 DEF StartFails, StartsTooOld, Drop
    <3>. QED
      BY <2>1, <2>2, <3>1, LaunchMeans DEF NoProvider
  <2>4. task'.pc # "stopping"
    <3>1. task = [pc |-> task.pc, kind |-> task.kind, left |-> task.left]
      BY DEF RestartInv, RestartType
    <3>. QED
      BY <1>5, <3>1
         DEF StartFails, StartsTooOld, Drop, Goto, EndTask, NoTask, TryTheNext, Starting
  <2>. QED
    BY <2>1, <2>3, <2>4, TreeKept
<1>. QED
  BY <1>1, <1>2, <1>3, <1>4, <1>5, StartsTree DEF Restarting

----------------------------------------------------------------------------
(* A fetch leaves, ends, and goes from step to step. *)
LEMMA HearTree ==
  ASSUME RestartInv, TreeInv, NEW c \in notes, Hear(c)
  PROVE  TreeInv'
<1>1. /\ notes' = notes \ {c} /\ UNCHANGED <<restart, requests, server>>
      /\ client' = client /\ live' = live /\ task' = task
  BY DEF Hear, restart
<1>2. /\ provider'.of = provider.of /\ provider'.generation = provider.generation
      /\ provider'.failed = provider.failed /\ provider'.shown = provider.shown
      /\ ProviderType' /\ (Due' <=> Due) /\ (provider.of # c => provider' = provider)
      /\ provider'.timer => provider.timer \/ provider.of = c
  <2>0. UNCHANGED <<telling, leaving>>
    BY <1>1 DEF server
  <2>1. CASE provider.of = c
    <3>1. /\ provider' = [of |-> provider.of, generation |-> provider.generation, timer |-> TRUE,
                          failed |-> provider.failed, shown |-> provider.shown]
          /\ provider.generation \in Nat
      BY <2>1 DEF Hear, TreeInv, TreeType, ProviderType
    <3>2. provider'.of = provider.of /\ provider'.generation = provider.generation
          /\ provider'.failed = provider.failed /\ provider'.shown = provider.shown
          /\ provider'.timer
      BY <3>1
    <3>3. ProviderType'
      BY <3>1, <3>2 DEF ProviderType
    <3>. QED
      BY <1>1, <2>0, <2>1, <3>2, <3>3 DEF Due
  <2>2. CASE provider.of # c
    <3>1. provider' = provider
      BY <2>2 DEF Hear
    <3>. QED
      BY <1>1, <2>0, <2>2, <3>1 DEF Due, TreeInv, TreeType, ProviderType
  <2>. QED
    BY <2>1, <2>2
<1>3. SessionsType' /\ Grows
  BY <1>1, SessionsKept, BundlesKept DEF TreeInv, TreeType, server
<1>4. TreeType'
  BY <1>1, <1>2, <1>3, FetchKept DEF TreeInv, TreeType
<1>5. OfTheClient'
  BY <1>1, <1>2 DEF TreeInv, OfTheClient, NoProvider
<1>6. Settling'
  BY <1>1, <1>2 DEF TreeInv, Settling, Latest, WillShow, Bundle, Session, server
<1>. QED
  BY <1>4, <1>5, <1>6 DEF TreeInv

LEMMA RefreshTree ==
  ASSUME RestartInv, TreeInv, Refresh
  PROVE  TreeInv'
<1>. DEFINE new == Fetch(provider.of, provider.generation + 1)
<1>1. /\ provider.timer /\ requests' = requests \cup {new} /\ UNCHANGED <<restart, notes, server>>
      /\ client' = client /\ live' = live /\ task' = task
  BY DEF Refresh, restart
<1>2. /\ provider' = [of |-> provider.of, generation |-> provider.generation + 1, timer |-> FALSE,
                      failed |-> provider.failed, shown |-> provider.shown]
      /\ provider.generation \in Nat
  BY DEF Refresh, TreeInv, TreeType, ProviderType
<1>3. /\ provider'.of = provider.of /\ provider'.generation = provider.generation + 1
      /\ provider'.failed = provider.failed /\ provider'.shown = provider.shown /\ ~provider'.timer
  BY <1>2
<1>4. ProviderType'
  BY <1>2, <1>3 DEF ProviderType
<1>5. /\ FetchType(new) /\ new.of = provider.of /\ new.generation = provider.generation + 1
      /\ new.pc = "sent" /\ new \in requests'
  BY <1>1, <1>2, NewFetch DEF TreeInv, TreeType
<1>. HIDE DEF new
<1>6. TreeType'
  <2>1. SessionsType' /\ Grows
    BY <1>1, SessionsKept, BundlesKept DEF TreeInv, TreeType, server
  <2>. QED
    BY <1>1, <1>4, <1>5, <2>1, FetchKept DEF TreeInv, TreeType
<1>7. provider.of = client /\ client # 0 /\ task.pc # "stopping"
  BY <1>1 DEF TreeInv, OfTheClient, NoProvider
<1>8. \A q \in requests : q.of = provider.of => q.generation <= provider.generation /\ q.generation \in Nat
  BY DEF TreeInv, TreeType, OfTheClient, FetchType
<1>9. OfTheClient'
  BY <1>1, <1>2, <1>3, <1>5, <1>7, <1>8 DEF TreeInv, OfTheClient
<1>10. \A q \in requests' : q.of = provider'.of /\ q.generation = provider'.generation <=> q = new
  BY <1>1, <1>2, <1>3, <1>5, <1>8
<1>11. Settling'
  BY <1>5, <1>10 DEF Settling, Latest, WillShow
<1>. QED
  BY <1>6, <1>9, <1>11 DEF TreeInv

\* The answer to a fetch, or its failure: the fetch is gone, and the tree may be another.
LEMMA FetchEnds ==
  ASSUME RestartInv, TreeInv, NEW q \in requests, requests' = requests \ {q},
         UNCHANGED <<restart, notes, server>>,
         provider'.of = provider.of, provider'.generation = provider.generation,
         provider'.timer = provider.timer, ProviderType',
         provider' = provider \/ provider.of = q.of
  PROVE  /\ TreeType' /\ OfTheClient'
         /\ (Due' <=> Due) /\ \A p \in requests : Latest(p)' <=> Latest(p)
         /\ \A p \in requests : WillShow(p)' <=> WillShow(p)
<1>1. client' = client /\ live' = live /\ task' = task
  BY DEF restart
<1>2. SessionsType' /\ Grows
  BY SessionsKept, BundlesKept DEF TreeInv, TreeType, server
<1>3. TreeType'
  BY <1>2, FetchKept DEF TreeInv, TreeType
<1>4. q.of # 0 /\ q.of = client
  BY DEF TreeInv, OfTheClient
<1>5. client = 0 \/ task.pc = "stopping" => provider' = provider
  BY <1>4 DEF TreeInv, OfTheClient, NoProvider
<1>6. OfTheClient'
  BY <1>1, <1>5 DEF TreeInv, OfTheClient
<1>7. Due' <=> Due
  BY DEF Due, server
<1>8. \A p \in requests : Latest(p)' <=> Latest(p)
  BY DEF Latest
<1>9. \A p \in requests : WillShow(p)' <=> WillShow(p)
  BY DEF WillShow, Bundle, Session, server
<1>. QED
  BY <1>3, <1>6, <1>7, <1>8, <1>9

LEMMA RejectTree ==
  ASSUME RestartInv, TreeInv, NEW q \in requests, Reject(q)
  PROVE  TreeInv'
<1>1. /\ requests' = requests \ {q} /\ UNCHANGED <<restart, notes, server>> /\ q.of \in live
      /\ client' = client /\ live' = live
  BY DEF Reject, restart
<1>2. CASE provider.of = q.of
  <2>1. /\ provider' = [of |-> provider.of, generation |-> provider.generation, timer |-> provider.timer,
                        failed |-> TRUE, shown |-> provider.shown]
        /\ provider.generation \in Nat
    BY <1>2 DEF Reject, TreeInv, TreeType, ProviderType
  <2>2. /\ provider'.of = provider.of /\ provider'.generation = provider.generation
        /\ provider'.timer = provider.timer /\ provider'.failed
    BY <2>1
  <2>3. ProviderType'
    BY <2>1, <2>2 DEF ProviderType
  <2>4. /\ TreeType' /\ OfTheClient'
        /\ (Due' <=> Due) /\ \A p \in requests : Latest(p)' <=> Latest(p)
        /\ \A p \in requests : WillShow(p)' <=> WillShow(p)
    BY <1>1, <1>2, <2>2, <2>3, FetchEnds
  <2>5. Settling'
    BY <1>1, <2>2, <2>4 DEF TreeInv, Settling
  <2>. QED
    BY <2>4, <2>5 DEF TreeInv
<1>3. CASE provider.of # q.of
  <2>1. provider' = provider /\ ProviderType'
    BY <1>3 DEF Reject, TreeInv, TreeType, ProviderType
  <2>2. TreeType' /\ OfTheClient'
    BY <1>1, <2>1, FetchEnds
  <2>3. provider'.of \notin live'
    BY <1>1, <1>3, <2>1, TheClient DEF TreeInv
  <2>. QED
    BY <2>2, <2>3 DEF TreeInv, Settling
<1>. QED
  BY <1>2, <1>3

LEMMA ApplyTree ==
  ASSUME RestartInv, TreeInv, NEW q \in requests, Apply(q)
  PROVE  TreeInv'
<1>1. /\ requests' = requests \ {q} /\ UNCHANGED <<restart, notes, server>> /\ q.pc = "answered"
      /\ client' = client /\ live' = live
  BY DEF Apply, restart
<1>2. CASE Latest(q)
  <2>1. /\ provider' = [of |-> provider.of, generation |-> provider.generation, timer |-> provider.timer,
                        failed |-> FALSE, shown |-> q.answer]
        /\ provider.generation \in Nat
    BY <1>2 DEF Apply, Latest, ShouldApply, TreeInv, TreeType, ProviderType
  <2>2. /\ provider'.of = provider.of /\ provider'.generation = provider.generation
        /\ provider'.timer = provider.timer /\ ~provider'.failed /\ provider'.shown = q.answer
    BY <2>1
  <2>3. ProviderType'
    BY <2>1, <2>2 DEF ProviderType
  <2>4. /\ TreeType' /\ OfTheClient'
        /\ (Due' <=> Due) /\ \A p \in requests : Latest(p)' <=> Latest(p)
        /\ \A p \in requests : WillShow(p)' <=> WillShow(p)
    BY <1>1, <1>2, <2>2, <2>3, FetchEnds DEF Latest
  <2>5. ASSUME provider.of \in live, ~Due
        PROVE  \A r \in Roots : provider'.shown[r] = Bundle(r, Session(r))'
    BY <1>1, <1>2, <2>2, <2>5 DEF TreeInv, Settling, WillShow, Bundle, Session, server
  <2>6. Settling'
    BY <1>1, <2>2, <2>4, <2>5 DEF TreeInv, Settling
  <2>. QED
    BY <2>4, <2>6 DEF TreeInv
<1>3. CASE ~Latest(q)
  <2>1. provider' = provider /\ ProviderType'
    BY <1>3 DEF Apply, Latest, ShouldApply, TreeInv, TreeType, ProviderType
  <2>2. /\ TreeType' /\ OfTheClient'
        /\ (Due' <=> Due) /\ \A p \in requests : Latest(p)' <=> Latest(p)
        /\ \A p \in requests : WillShow(p)' <=> WillShow(p)
    BY <1>1, <2>1, FetchEnds
  <2>3. Settling'
    BY <1>1, <1>3, <2>1, <2>2 DEF TreeInv, Settling, Bundle, Session, server
  <2>. QED
    BY <2>2, <2>3 DEF TreeInv
<1>. QED
  BY <1>2, <1>3

LEMMA ShowsKept ==
  ASSUME SameBundles, NEW p, FetchType(p), WillShow(p)
  PROVE  WillShow(p)'
<1>1. \A r \in Roots : /\ Bundle(r, p.sessions[r])' = Bundle(r, p.sessions[r])
                       /\ Bundle(r, Session(r))' = Bundle(r, Session(r))
  BY DEF SameBundles, FetchType
<1>. QED
  BY <1>1 DEF WillShow

LEMMA FetchMoves ==
  ASSUME RestartInv, TreeInv, NEW q \in requests, NEW next, FetchType(next)', Step(q, next),
         next.of = q.of, next.generation = q.generation,
         UNCHANGED <<restart, provider, notes, leaving, telling>>,
         SessionsType', Grows, SameBundles,
         provider.of \in live /\ ~Due /\ Latest(q) => WillShow(next)'
  PROVE  TreeInv'
<1>1. client' = client /\ live' = live /\ task' = task
  BY DEF restart
<1>2. /\ \A p \in requests' : p = next \/ p \in requests
      /\ next \in requests' /\ \A p \in requests : p = q \/ p \in requests'
  BY DEF Step
<1>3. TreeType'
  <2>1. \A p \in requests : FetchType(p)'
    BY FetchKept DEF TreeInv, TreeType
  <2>. QED
    BY <1>2, <2>1 DEF TreeInv, TreeType, ProviderType
<1>4. OfTheClient'
  BY <1>1, <1>2 DEF TreeInv, OfTheClient
<1>5. (Due' <=> Due) /\ \A p : Latest(p)' <=> Latest(p)
  BY DEF Due, Latest
<1>6. Latest(next) <=> Latest(q)
  BY DEF Latest
<1>7. \A p \in requests : WillShow(p) => WillShow(p)'
  BY ShowsKept DEF TreeInv, TreeType
<1>8. \A r \in Roots : Bundle(r, Session(r))' = Bundle(r, Session(r))
  BY DEF SameBundles
<1>9. ASSUME provider.of \in live
      PROVE  /\ Due' \/ provider'.failed \/ (\E p \in requests' : Latest(p)')
                  \/ \A r \in Roots : provider'.shown[r] = Bundle(r, Session(r))'
             /\ Due' \/ \A p \in requests' : Latest(p)' => WillShow(p)'
  <2>1. Due \/ \A p \in requests : Latest(p) => WillShow(p)
    BY <1>9 DEF TreeInv, Settling
  <2>2. Due' \/ \A p \in requests' : Latest(p)' => WillShow(p)'
    BY <1>2, <1>5, <1>6, <1>7, <1>9, <2>1
  <2>3. \/ Due \/ provider.failed \/ (\E p \in requests : Latest(p))
        \/ \A r \in Roots : provider.shown[r] = Bundle(r, Session(r))
    BY <1>9 DEF TreeInv, Settling
  <2>4. CASE \E p \in requests : Latest(p)
    BY <1>2, <1>5, <1>6, <2>2, <2>4
  <2>5. CASE \A r \in Roots : provider.shown[r] = Bundle(r, Session(r))
    <3>1. \A r \in Roots : provider'.shown[r] = Bundle(r, Session(r))'
      BY <1>8, <2>5
    <3>. QED
      BY <2>2, <3>1
  <2>. QED
    BY <1>5, <2>2, <2>3, <2>4, <2>5
<1>10. Settling'
  BY <1>1, <1>9 DEF Settling
<1>. QED
  BY <1>3, <1>4, <1>10 DEF TreeInv

\* A fetch goes on with the sessions it has.
AtWork == {"warming", "marking", "scheduling", "settling"}
LEMMA FetchGoesOn ==
  ASSUME RestartInv, TreeInv, NEW q \in requests, NEW next, FetchType(next), Step(q, next),
         next.of = q.of, next.generation = q.generation, next.sessions = q.sessions,
         q.pc \in AtWork, next.pc \in AtWork,
         UNCHANGED <<restart, provider, notes, loaded, slot, leaving, telling>>, SessionsType'
  PROVE  TreeInv'
<1>1. Grows /\ SameBundles /\ SessionsType
  BY BundlesKept DEF TreeInv, TreeType
<1>2. FetchType(next)'
  BY <1>1, FetchKept
<1>3. ASSUME provider.of \in live, ~Due, Latest(q)
      PROVE  WillShow(next)'
  <2>1. WillShow(q)
    BY <1>3 DEF TreeInv, Settling
  <2>2. WillShow(next)
    BY <2>1 DEF WillShow, AtWork
  <2>. QED
    BY <1>1, <2>2, ShowsKept
<1>. QED
  BY <1>1, <1>2, <1>3, FetchMoves

LEMMA Fields ==
  ASSUME TreeInv, NEW q \in requests
  PROVE  /\ FetchType(q)
         /\ q = [of |-> q.of, generation |-> q.generation, pc |-> q.pc, left |-> q.left, at |-> q.at,
                 sessions |-> q.sessions, answer |-> q.answer]
BY DEF TreeInv, TreeType, FetchType

\* A fetch that is done with its root.
LEMMA DoneWith ==
  ASSUME TreeInv, NEW q \in requests, Done(q)
  PROVE  \E next : /\ Step(q, next) /\ FetchType(next) /\ next.of = q.of /\ next.generation = q.generation
                   /\ next.sessions = q.sessions /\ next.pc = "warming" /\ next.left = q.left \ {q.at}
<1>2. PICK next : /\ next = [q EXCEPT !.pc = "warming", !.at = "none", !.left = q.left \ {q.at}]
                  /\ Step(q, next)
  BY DEF Done
<1>0. q = [of |-> q.of, generation |-> q.generation, pc |-> q.pc, left |-> q.left, at |-> q.at,
           sessions |-> q.sessions, answer |-> q.answer]
  BY Fields
<1>1. next = [of |-> q.of, generation |-> q.generation, pc |-> "warming", left |-> q.left \ {q.at},
              at |-> "none", sessions |-> q.sessions, answer |-> q.answer]
  BY <1>0, <1>2
<1>3. /\ next.of = q.of /\ next.generation = q.generation /\ next.sessions = q.sessions
      /\ next.pc = "warming" /\ next.left = q.left \ {q.at} /\ next.at = "none" /\ next.answer = q.answer
  BY <1>1
<1>4. FetchType(next)
  BY <1>1, <1>3, Fields DEF FetchType
<1>. QED
  BY <1>2, <1>3, <1>4

\* A fetch that looks at its next root.
LEMMA Looked ==
  ASSUME TreeInv, NEW q \in requests, NEW r \in Roots, Look(q, r)
  PROVE  \E next :
           /\ Step(q, next) /\ FetchType(next) /\ next.of = q.of /\ next.generation = q.generation
           /\ next.sessions = q.sessions
           /\ IF Bundle(r, q.sessions[r]) = <<0, 0>> THEN next.pc = "marking" /\ next.left = q.left
              ELSE next.pc = "warming" /\ next.left = q.left \ {r}
<1>1. r \in q.left /\ q.pc = "warming"
  BY DEF Look
<1>2. CASE Bundle(r, q.sessions[r]) = <<0, 0>>
  <2>2. PICK next : next = [q EXCEPT !.pc = "marking", !.at = r] /\ Step(q, next)
    BY <1>2 DEF Look
  <2>0. q = [of |-> q.of, generation |-> q.generation, pc |-> q.pc, left |-> q.left, at |-> q.at,
             sessions |-> q.sessions, answer |-> q.answer]
    BY Fields
  <2>1. next = [of |-> q.of, generation |-> q.generation, pc |-> "marking", left |-> q.left,
                at |-> r, sessions |-> q.sessions, answer |-> q.answer]
    BY <2>0, <2>2
  <2>3. /\ next.of = q.of /\ next.generation = q.generation /\ next.sessions = q.sessions
        /\ next.pc = "marking" /\ next.left = q.left /\ next.at = r /\ next.answer = q.answer
    BY <2>1
  <2>4. FetchType(next)
    BY <1>1, <2>1, <2>3, Fields DEF FetchType
  <2>. QED
    BY <1>2, <2>2, <2>3, <2>4
<1>3. CASE Bundle(r, q.sessions[r]) # <<0, 0>>
  <2>. DEFINE next == [q EXCEPT !.left = @ \ {r}]
  <2>1. next = [of |-> q.of, generation |-> q.generation, pc |-> q.pc, left |-> q.left \ {r},
                at |-> q.at, sessions |-> q.sessions, answer |-> q.answer]
    BY Fields
  <2>2. Step(q, next)
    BY <1>3 DEF Look
  <2>. HIDE DEF next
  <2>3. /\ next.of = q.of /\ next.generation = q.generation /\ next.sessions = q.sessions
        /\ next.pc = q.pc /\ next.left = q.left \ {r} /\ next.at = q.at /\ next.answer = q.answer
    BY <2>1
  <2>4. FetchType(next)
    BY <1>1, <2>1, <2>3, Fields DEF FetchType
  <2>. QED
    BY <1>1, <1>3, <2>2, <2>3, <2>4
<1>. QED
  BY <1>2, <1>3

\* The same fetch, at another step of its root.
LEMMA MovesTo ==
  ASSUME TreeInv, NEW q \in requests, q.pc \in {"marking", "scheduling"}, NEW pc \in {"scheduling", "settling"}
  PROVE  LET next == [q EXCEPT !.pc = pc]
         IN  /\ FetchType(next) /\ next.of = q.of /\ next.generation = q.generation
             /\ next.sessions = q.sessions /\ next.pc = pc /\ next.left = q.left /\ next.at = q.at
<1>. DEFINE next == [q EXCEPT !.pc = pc]
<1>1. next = [of |-> q.of, generation |-> q.generation, pc |-> pc, left |-> q.left,
              at |-> q.at, sessions |-> q.sessions, answer |-> q.answer]
  BY Fields
<1>. HIDE DEF next
<1>2. /\ next.of = q.of /\ next.generation = q.generation /\ next.sessions = q.sessions
      /\ next.pc = pc /\ next.left = q.left /\ next.at = q.at /\ next.answer = q.answer
  BY <1>1
<1>3. FetchType(next)
  BY <1>1, <1>2, Fields DEF FetchType
<1>. QED
  BY <1>2, <1>3 DEF next

LEMMA ReadSessionsTree ==
  ASSUME RestartInv, TreeInv, NEW q \in requests, ReadSessions(q)
  PROVE  /\ TreeInv' /\ Grows
         /\ \E next : /\ Step(q, next) /\ next.pc = "warming" /\ next.left = {r \in Roots : slot[r] # "away"}
                      /\ \A r \in Roots : next.sessions[r] = Session(r)'
<1>1. /\ loaded' = [r \in Roots |-> IF slot[r] = "unbuilt" THEN Append(loaded[r], 0) ELSE loaded[r]]
      /\ slot' = [r \in Roots |-> IF slot[r] = "unbuilt" THEN "live" ELSE slot[r]]
      /\ UNCHANGED <<restart, provider, notes, leaving, owed, telling, tried, warmed, stale>>
  BY DEF ReadSessions
<1>2. SessionsType
  BY DEF TreeInv, TreeType
<1>. DEFINE current == [r \in Roots |-> Session(r)'] was == {r \in Roots : slot[r] # "away"}
<1>3. \A r \in Roots : loaded[r] \in Seq(Nat) /\ Len(loaded[r]) \in Nat
  BY <1>2, Lengths
<1>4. \A r \in Roots : IF slot[r] = "unbuilt"
                       THEN /\ loaded'[r] = Append(loaded[r], 0) /\ Len(loaded'[r]) = Len(loaded[r]) + 1
                            /\ loaded'[r] \in Seq(Nat) /\ slot'[r] = "live"
                            /\ loaded'[r][Len(loaded'[r])] = 0
                            /\ \A s \in 1 .. Len(loaded[r]) : loaded'[r][s] = loaded[r][s]
                       ELSE loaded'[r] = loaded[r] /\ slot'[r] = slot[r]
  BY <1>1, <1>3
<1>5. Grows
  BY <1>3, <1>4 DEF Grows
<1>6. SessionsType'
  <2>1. loaded' \in [Roots -> Seq(Nat)]
    <3>1. \A r \in Roots : loaded'[r] \in Seq(Nat)
      BY <1>3, <1>4
    <3>. QED
      BY <1>1, <3>1
  <2>2. slot' \in [Roots -> {"unbuilt", "live", "away"}]
    BY <1>1, <1>2 DEF SessionsType
  <2>3. ASSUME NEW r \in Roots
        PROVE  /\ slot'[r] = "live" => loaded'[r] # <<>>
               /\ slot'[r] # "unbuilt"
               /\ leaving[r] = "scheduling" => slot'[r] = "live"
               /\ owed[r] \cup telling[r] \subseteq 1 .. Len(loaded'[r])
               /\ \A s \in 1 .. Len(loaded'[r]) : loaded'[r][s] # 0 => s \in tried[r]
    <3>1. /\ slot[r] = "live" => loaded[r] # <<>>
          /\ leaving[r] = "scheduling" => slot[r] = "live"
          /\ owed[r] \cup telling[r] \subseteq 1 .. Len(loaded[r])
          /\ \A s \in 1 .. Len(loaded[r]) : loaded[r][s] # 0 => s \in tried[r]
      BY <1>2 DEF SessionsType
    <3>2. CASE slot[r] = "unbuilt"
      <4>1. /\ loaded'[r] = Append(loaded[r], 0) /\ Len(loaded'[r]) = Len(loaded[r]) + 1
            /\ Len(loaded[r]) \in Nat /\ slot'[r] = "live" /\ loaded'[r][Len(loaded'[r])] = 0
            /\ \A s \in 1 .. Len(loaded[r]) : loaded'[r][s] = loaded[r][s]
            /\ loaded[r] \in Seq(Nat)
        BY <1>3, <1>4, <3>2
      <4>2. loaded'[r] # <<>>
        <5>1. Len(loaded'[r]) # 0 /\ Len(<<>>) = 0
          BY <4>1
        <5>. QED
          BY <5>1
      <4>3. owed[r] \cup telling[r] \subseteq 1 .. Len(loaded'[r])
        BY <3>1, <4>1
      <4>4. \A s \in 1 .. Len(loaded'[r]) : s \in 1 .. Len(loaded[r]) \/ s = Len(loaded'[r])
        BY <4>1
      <4>. QED
        BY <3>1, <3>2, <4>1, <4>2, <4>3, <4>4
    <3>3. CASE slot[r] # "unbuilt"
      BY <1>4, <3>1, <3>3
    <3>. QED
      BY <3>2, <3>3
  <2>. QED
    BY <1>1, <1>2, <2>1, <2>2, <2>3 DEF SessionsType
<1>7. SameBundles
  <2>. SUFFICES ASSUME NEW r \in Roots
                PROVE  /\ \A s \in 0 .. Len(loaded[r]) : Bundle(r, s)' = Bundle(r, s)
                       /\ Bundle(r, Session(r))' = Bundle(r, Session(r))
    BY DEF SameBundles
  <2>1. \A s \in 0 .. Len(loaded[r]) : s = 0 \/ s \in 1 .. Len(loaded[r])
    BY <1>3
  <2>2. \A s \in 0 .. Len(loaded[r]) : Bundle(r, s)' = Bundle(r, s)
    BY <1>4, <2>1 DEF Bundle
  <2>3. CASE slot[r] = "unbuilt"
    <3>1. Session(r) = 0 /\ Session(r)' = Len(loaded'[r]) /\ loaded'[r][Len(loaded'[r])] = 0
      BY <1>4, <2>3 DEF Session
    <3>2. Bundle(r, Session(r)) = <<0, 0>> /\ Bundle(r, Session(r))' = <<0, 0>>
      BY <3>1 DEF Bundle
    <3>. QED
      BY <2>2, <3>2
  <2>4. CASE slot[r] # "unbuilt"
    BY <1>4, <2>2, <2>4 DEF Bundle, Session
  <2>. QED
    BY <2>3, <2>4
<1>8. PICK next : /\ next = [q EXCEPT !.pc = "warming", !.left = was, !.sessions = current]
                  /\ Step(q, next)
  BY DEF ReadSessions
<1>9. FetchType(q)
  BY Fields
<1>10. \A r \in Roots : current[r] = Session(r)'
  OBVIOUS
<1>11. was \subseteq Roots /\ \A r \in was : slot[r] # "away"
  OBVIOUS
<1>12. was = {r \in Roots : slot[r] # "away"}
  OBVIOUS
<1>. HIDE DEF current, was
<1>13. next = [of |-> q.of, generation |-> q.generation, pc |-> "warming", left |-> was, at |-> q.at,
               sessions |-> current, answer |-> q.answer]
  BY <1>8, <1>9 DEF FetchType
<1>14. /\ next.of = q.of /\ next.generation = q.generation /\ next.pc = "warming" /\ next.left = was
       /\ next.at = q.at /\ next.sessions = current /\ next.answer = q.answer
  BY <1>13
<1>15. \A r \in Roots : current[r] \in 0 .. Len(loaded'[r]) /\ (r \in was => current[r] # 0)
  <2>. SUFFICES ASSUME NEW r \in Roots
                PROVE  current[r] \in 0 .. Len(loaded'[r]) /\ (r \in was => current[r] # 0)
    OBVIOUS
  <2>1. IF slot'[r] = "live" THEN Session(r)' = Len(loaded'[r]) /\ Session(r)' > 0 ELSE Session(r)' = 0
    <3>1. loaded'[r] # <<>> => Len(loaded'[r]) > 0
      BY <1>3, <1>4, EmptySeq
    <3>. QED
      BY <1>6, <3>1 DEF SessionsType, Session
  <2>2. r \in was => slot'[r] = "live"
    BY <1>2, <1>4, <1>11 DEF SessionsType
  <2>3. Len(loaded'[r]) \in Nat
    BY <1>3, <1>4
  <2>. QED
    BY <1>10, <2>1, <2>2, <2>3
<1>16. FetchType(next)'
  BY <1>9, <1>11, <1>13, <1>14, <1>15 DEF FetchType
<1>17. WillShow(next)'
  BY <1>10, <1>14 DEF WillShow
<1>18. TreeInv'
  BY <1>1, <1>5, <1>6, <1>7, <1>8, <1>14, <1>16, <1>17, FetchMoves
<1>. QED
  BY <1>5, <1>8, <1>10, <1>12, <1>14, <1>18

LEMMA LookTree ==
  ASSUME RestartInv, TreeInv, NEW q \in requests, NEW r \in Roots, Look(q, r)
  PROVE  TreeInv'
<1>1. /\ q.pc = "warming" /\ UNCHANGED <<restart, provider, notes, server>>
  BY DEF Look
<1>2. SessionsType'
  BY <1>1, SessionsKept DEF TreeInv, TreeType
<1>. QED
  BY <1>1, <1>2, Looked, FetchGoesOn DEF AtWork, server

LEMMA MarkTree ==
  ASSUME RestartInv, TreeInv, NEW q \in requests, Mark(q)
  PROVE  TreeInv'
<1>1. /\ q.pc = "marking" /\ UNCHANGED <<restart, provider, notes, loaded, slot, leaving, owed, telling, tried>>
      /\ q.at \in Roots /\ SessionsType
  BY Fields DEF Mark, FetchType, TreeInv, TreeType
<1>2. CASE q.at \in warmed
  <2>1. Done(q) /\ UNCHANGED <<warmed, stale>>
    BY <1>2 DEF Mark
  <2>2. SessionsType'
    BY <1>1, <2>1, SessionsKept DEF server
  <2>. QED
    BY <1>1, <2>1, <2>2, DoneWith, FetchGoesOn DEF AtWork
<1>3. CASE q.at \notin warmed
  <2>1. /\ Step(q, [q EXCEPT !.pc = "scheduling"]) /\ warmed' = warmed \cup {q.at}
        /\ stale' \subseteq stale \cup {q.at}
    BY <1>3 DEF Mark
  <2>2. SessionsType'
    BY <1>1, <2>1 DEF SessionsType
  <2>. QED
    BY <1>1, <2>1, <2>2, MovesTo, FetchGoesOn DEF AtWork
<1>. QED
  BY <1>2, <1>3

LEMMA Owed ==
  ASSUME SessionsType, NEW r \in Roots, NEW s \in 1 .. Len(loaded[r]), owed' = Owes(r, s)
  PROVE  /\ owed' \in [Roots -> SUBSET Nat] /\ s \in owed'[r]
         /\ \A x \in Roots : owed[x] \subseteq owed'[x] /\ owed'[x] \subseteq 1 .. Len(loaded[x])
         /\ \A x \in Roots \ {r} : owed'[x] = owed[x]
<1>1. s \in Nat
  BY Lengths
<1>. QED
  BY <1>1 DEF SessionsType, Owes

LEMMA OpenIsThere ==
  ASSUME SessionsType, NEW r \in Roots, NEW s, Open(r, s), s \in 0 .. Len(loaded[r])
  PROVE  s \in 1 .. Len(loaded[r])
BY Lengths DEF Open

LEMMA ScheduleTree ==
  ASSUME RestartInv, TreeInv, NEW q \in requests, Schedule(q)
  PROVE  /\ TreeInv'
         /\ \A r \in Roots : owed[r] \subseteq owed'[r]
         /\ Open(q.at, q.sessions[q.at]) => q.sessions[q.at] \in owed'[q.at]
<1>1. /\ q.pc = "scheduling"
      /\ UNCHANGED <<restart, provider, notes, loaded, slot, leaving, telling, tried, warmed, stale>>
      /\ q.at \in Roots /\ SessionsType /\ Step(q, [q EXCEPT !.pc = "settling"])
      /\ q.sessions[q.at] \in 0 .. Len(loaded[q.at])
  BY Fields DEF Schedule, FetchType, TreeInv, TreeType
<1>2. /\ owed' \in [Roots -> SUBSET Nat]
      /\ \A x \in Roots : owed[x] \subseteq owed'[x] /\ owed'[x] \subseteq 1 .. Len(loaded[x])
      /\ Open(q.at, q.sessions[q.at]) => q.sessions[q.at] \in owed'[q.at]
  <2>1. CASE Open(q.at, q.sessions[q.at])
    <3>1. owed' = Owes(q.at, q.sessions[q.at])
      BY <2>1 DEF Schedule
    <3>2. q.sessions[q.at] \in 1 .. Len(loaded[q.at])
      BY <1>1, <2>1, OpenIsThere
    <3>. QED
      BY <1>1, <3>1, <3>2, Owed
  <2>2. CASE ~Open(q.at, q.sessions[q.at])
    BY <1>1, <2>2 DEF Schedule, SessionsType
  <2>. QED
    BY <2>1, <2>2
<1>3. SessionsType'
  BY <1>1, <1>2 DEF SessionsType
<1>4. TreeInv'
  BY <1>1, <1>3, MovesTo, FetchGoesOn DEF AtWork
<1>. QED
  BY <1>2, <1>4

LEMMA SettleTree ==
  ASSUME RestartInv, TreeInv, NEW q \in requests, Settle(q)
  PROVE  TreeInv'
<1>1. /\ q.pc = "settling" /\ Done(q) /\ UNCHANGED <<restart, provider, notes, server>>
  BY DEF Settle
<1>2. SessionsType'
  BY <1>1, SessionsKept DEF TreeInv, TreeType
<1>. QED
  BY <1>1, <1>2, DoneWith, FetchGoesOn DEF AtWork, server

LEMMA AnswerTree ==
  ASSUME RestartInv, TreeInv, NEW q \in requests, AnswerConcepts(q)
  PROVE  TreeInv'
<1>. DEFINE held == [r \in Roots |-> Bundle(r, q.sessions[r])]
<1>1. PICK fresh, next :
      /\ fresh = Fetch(q.of, q.generation)
      /\ next = [fresh EXCEPT !.pc = "answered", !.answer = held]
      /\ Step(q, next)
  BY DEF AnswerConcepts
<1>2. /\ UNCHANGED <<restart, provider, notes, server>>
      /\ q.pc = "warming" /\ q.left = {} /\ q.of \in live
  BY DEF AnswerConcepts, Serving
<1>3. SessionsType /\ FetchType(q) /\ q.generation \in Nat
  BY Fields DEF TreeInv, TreeType, FetchType
<1>4. \A r \in Roots : held[r] = Bundle(r, q.sessions[r])
  OBVIOUS
<1>. HIDE DEF held
<1>. DEFINE none == [r \in Roots |-> 0]
<1>5. \A r \in Roots : none[r] = 0 /\ 0 \in 0 .. Len(loaded[r])
  BY <1>3, Lengths
<1>6. /\ fresh = [of |-> fresh.of, generation |-> fresh.generation, pc |-> fresh.pc, left |-> fresh.left,
                   at |-> fresh.at, sessions |-> fresh.sessions, answer |-> fresh.answer]
      /\ fresh.of = q.of /\ fresh.generation = q.generation /\ fresh.left = {} /\ fresh.at = "none"
      /\ fresh.sessions = none
  BY <1>1 DEF Fetch
<1>. HIDE DEF none
<1>7. next = [of |-> fresh.of, generation |-> fresh.generation, pc |-> "answered", left |-> fresh.left,
              at |-> fresh.at, sessions |-> fresh.sessions, answer |-> held]
  BY <1>1, <1>6
<1>8. /\ next.of = q.of /\ next.generation = q.generation /\ next.pc = "answered" /\ next.left = {}
      /\ next.at = "none" /\ next.sessions = none /\ next.answer = held
       /\ next = [of |-> next.of, generation |-> next.generation, pc |-> next.pc, left |-> next.left,
                  at |-> next.at, sessions |-> next.sessions, answer |-> next.answer]
  BY <1>6, <1>7
<1>9. FetchType(next)
  BY <1>3, <1>5, <1>8 DEF FetchType
<1>10. SessionsType' /\ Grows /\ SameBundles
  BY <1>2, <1>3, SessionsKept, BundlesKept DEF server
<1>11. FetchType(next)'
  BY <1>3, <1>9, <1>10, FetchKept
<1>12. ASSUME provider.of \in live, ~Due, Latest(q)
       PROVE  WillShow(next)'
  <2>1. WillShow(q)
    BY <1>12 DEF TreeInv, Settling
  <2>2. WillShow(next)
    BY <1>2, <1>4, <1>8, <2>1 DEF WillShow
  <2>. QED
    BY <1>9, <1>10, <2>2, ShowsKept
<1>. QED
  BY <1>1, <1>2, <1>8, <1>10, <1>11, <1>12, FetchMoves DEF server

LEMMA FetchingTree ==
  ASSUME RestartInv, TreeInv, Fetching
  PROVE  TreeInv'
BY HearTree, RefreshTree, RejectTree, ApplyTree, ReadSessionsTree, LookTree, MarkTree, ScheduleTree,
   SettleTree, AnswerTree DEF Fetching

----------------------------------------------------------------------------
(* The server goes its own way: a refresh is due, or it holds what it held. *)
LEMMA ServedTree ==
  ASSUME RestartInv, TreeInv, UNCHANGED <<restart, provider, requests>>, SessionsType', Grows,
         notes' \subseteq notes \cup ({client} \cap live),
         (provider.of \in live => Due') \/ (SameBundles /\ (Due => Due'))
  PROVE  TreeInv'
<1>1. client' = client /\ live' = live /\ task' = task
  BY DEF restart
<1>2. TreeType'
  BY FetchKept DEF TreeInv, TreeType, ProviderType
<1>3. OfTheClient'
  BY <1>1, TheClient DEF TreeInv, OfTheClient
<1>4. CASE provider.of \in live => Due'
  <2>1. Settling'
    BY <1>1, <1>4 DEF Settling
  <2>. QED
    BY <1>2, <1>3, <2>1 DEF TreeInv
<1>5. CASE SameBundles /\ (Due => Due')
  <2>1. \A p : Latest(p)' <=> Latest(p)
    BY DEF Latest
  <2>2. \A p \in requests : WillShow(p) => WillShow(p)'
    BY <1>5, ShowsKept DEF TreeInv, TreeType
  <2>3. \A r \in Roots : Bundle(r, Session(r))' = Bundle(r, Session(r))
    BY <1>5 DEF SameBundles
  <2>4. ASSUME \A r \in Roots : provider.shown[r] = Bundle(r, Session(r))
        PROVE  \A r \in Roots : provider'.shown[r] = Bundle(r, Session(r))'
    BY <2>3, <2>4
  <2>5. Settling'
    BY <1>1, <1>5, <2>1, <2>2, <2>4 DEF TreeInv, Settling
  <2>. QED
    BY <1>2, <1>3, <2>5 DEF TreeInv
<1>. QED
  BY <1>4, <1>5

\* What decides whether a root is to be warmed is as it was, or nothing is left to do for it.
SameHeat(r) ==
  /\ r \in stale' <=> r \in stale
  /\ slot'[r] = slot[r] /\ leaving'[r] = leaving[r]
  /\ r \in warmed' <=> r \in warmed
  /\ Session(r)' = Session(r)
  /\ Session(r) \in tried[r] \cup owed[r] => Session(r) \in tried'[r] \cup owed'[r]
Fine(r) == ~Cold(r) /\ (slot[r] # "live" /\ leaving[r] = "none" => r \notin warmed)

LEMMA LoadTree ==
  ASSUME RestartInv, TreeInv, NEW r \in Roots, NEW s \in owed[r], Load(r, s)
  PROVE  TreeInv' /\ \A x \in Roots : SameHeat(x)
<1>1. /\ owed' = [owed EXCEPT ![r] = owed[r] \ {s}]
      /\ telling' = [telling EXCEPT ![r] = telling[r] \cup {s}]
      /\ tried' = [tried EXCEPT ![r] = tried[r] \cup {s}]
      /\ UNCHANGED <<restart, provider, requests, notes, slot, leaving, warmed, stale>>
  BY DEF Load
<1>2. loaded' = loaded \/ loaded' = [loaded EXCEPT ![r] = [loaded[r] EXCEPT ![s] = loaded[r][s] + 1]]
  BY DEF Load
<1>3. SessionsType
  BY DEF TreeInv, TreeType
<1>4. loaded[r] \in Seq(Nat) /\ s \in 1 .. Len(loaded[r]) /\ s \in Nat /\ loaded[r][s] + 1 \in Nat
  BY <1>3, Lengths DEF SessionsType
<1>5. /\ loaded' \in [Roots -> Seq(Nat)]
      /\ \A x \in Roots : Len(loaded'[x]) = Len(loaded[x])
      /\ \A x \in Roots : \A i \in 1 .. Len(loaded[x]) : loaded'[x][i] = loaded[x][i] \/ (x = r /\ i = s)
  <2>1. CASE loaded' = loaded
    BY <1>3, <2>1 DEF SessionsType
  <2>2. CASE loaded' = [loaded EXCEPT ![r] = [loaded[r] EXCEPT ![s] = loaded[r][s] + 1]]
    <3>. DEFINE more == [loaded[r] EXCEPT ![s] = loaded[r][s] + 1]
    <3>1. more \in Seq(Nat) /\ Len(more) = Len(loaded[r])
      BY <1>4
    <3>2. \A i \in 1 .. Len(loaded[r]) : more[i] = loaded[r][i] \/ i = s
      BY <1>4
    <3>. HIDE DEF more
    <3>3. /\ loaded' = [loaded EXCEPT ![r] = more] /\ loaded \in [Roots -> Seq(Nat)]
      BY <1>3, <2>2 DEF SessionsType, more
    <3>4. loaded' \in [Roots -> Seq(Nat)] /\ loaded'[r] = more /\ \A x \in Roots \ {r} : loaded'[x] = loaded[x]
      BY <3>1, <3>3
    <3>. QED
      BY <3>1, <3>2, <3>4
  <2>. QED
    BY <1>2, <2>1, <2>2
<1>6. /\ owed' \in [Roots -> SUBSET Nat] /\ telling' \in [Roots -> SUBSET Nat]
      /\ tried' \in [Roots -> SUBSET Nat]
      /\ \A x \in Roots : /\ owed'[x] \cup telling'[x] \subseteq 1 .. Len(loaded[x])
                          /\ tried[x] \subseteq tried'[x] /\ owed[x] \subseteq owed'[x] \cup tried'[x]
      /\ s \in tried'[r] /\ s \in telling'[r]
  BY <1>1, <1>3, <1>4 DEF SessionsType
<1>7. \A x \in Roots : loaded[x] # <<>> => loaded'[x] # <<>>
  <2>. SUFFICES ASSUME NEW x \in Roots, loaded'[x] = <<>>
                PROVE  loaded[x] = <<>>
    OBVIOUS
  <2>1. Len(loaded[x]) = 0 /\ loaded[x] \in Seq(Nat)
    BY <1>3, <1>5, Lengths
  <2>. QED
    BY <2>1, EmptySeq
<1>8. SessionsType'
  <2>1. \A x \in Roots : \A i \in 1 .. Len(loaded'[x]) : loaded'[x][i] # 0 => i \in tried'[x]
    BY <1>3, <1>5, <1>6 DEF SessionsType
  <2>2. \A x \in Roots : owed'[x] \cup telling'[x] \subseteq 1 .. Len(loaded'[x])
    BY <1>5, <1>6
  <2>. QED
    BY <1>1, <1>3, <1>5, <1>6, <1>7, <2>1, <2>2 DEF SessionsType
<1>9. Grows
  BY <1>3, <1>5, Lengths DEF Grows
<1>10. Due'
  BY <1>6 DEF Due
<1>11. TreeInv'
  BY <1>1, <1>8, <1>9, <1>10, ServedTree
<1>12. \A x \in Roots : SameHeat(x)
  BY <1>1, <1>5, <1>6 DEF SameHeat, Session
<1>. QED
  BY <1>11, <1>12

LEMMA TellTree ==
  ASSUME RestartInv, TreeInv, NEW r \in Roots, NEW s \in telling[r], Tell(r, s)
  PROVE  TreeInv' /\ \A x \in Roots : SameHeat(x)
<1>1. /\ telling' = [telling EXCEPT ![r] = telling[r] \ {s}] /\ client \in live
      /\ notes' = notes \cup {client}
      /\ UNCHANGED <<restart, provider, requests, loaded, slot, leaving, owed, tried, warmed, stale>>
  BY DEF Tell, Notify
<1>2. SessionsType
  BY DEF TreeInv, TreeType
<1>3. SessionsType'
  BY <1>1, <1>2 DEF SessionsType
<1>4. provider.of \in live => Due'
  BY <1>1, TheClient DEF Due, TreeInv
<1>5. TreeInv'
  BY <1>1, <1>2, <1>3, <1>4, BundlesKept, ServedTree
<1>6. \A x \in Roots : SameHeat(x)
  BY <1>1 DEF SameHeat, Session
<1>. QED
  BY <1>5, <1>6

\* A root gets one session more.
LEMMA OneMore ==
  ASSUME SessionsType, NEW r \in Roots, loaded' = [loaded EXCEPT ![r] = Append(@, 0)]
  PROVE  /\ Grows /\ loaded' \in [Roots -> Seq(Nat)] /\ loaded'[r] # <<>>
         /\ Len(loaded'[r]) = Len(loaded[r]) + 1 /\ loaded'[r][Len(loaded'[r])] = 0
         /\ \A i \in 1 .. Len(loaded'[r]) : loaded'[r][i] # 0 => i \in tried[r]
         /\ \A i \in 1 .. Len(loaded[r]) : loaded'[r][i] = loaded[r][i] /\ i \in 1 .. Len(loaded'[r])
         /\ \A x \in Roots \ {r} : loaded'[x] = loaded[x]
<1>1. /\ loaded \in [Roots -> Seq(Nat)] /\ loaded[r] \in Seq(Nat)
      /\ \A x \in Roots : Len(loaded[x]) \in Nat
      /\ \A i \in 1 .. Len(loaded[r]) : loaded[r][i] # 0 => i \in tried[r]
  BY Lengths DEF SessionsType
<1>. DEFINE more == Append(loaded[r], 0)
<1>2. /\ more \in Seq(Nat) /\ Len(more) = Len(loaded[r]) + 1 /\ more[Len(more)] = 0
      /\ \A i \in 1 .. Len(loaded[r]) : more[i] = loaded[r][i] /\ i \in 1 .. Len(more)
      /\ \A i \in 1 .. Len(more) : i \in 1 .. Len(loaded[r]) \/ i = Len(more)
  BY <1>1
<1>3. more # <<>>
  <2>1. Len(more) # 0 /\ Len(<<>>) = 0
    BY <1>1, <1>2
  <2>. QED
    BY <2>1
<1>. HIDE DEF more
<1>4. loaded' = [loaded EXCEPT ![r] = more]
  BY DEF more
<1>5. loaded' \in [Roots -> Seq(Nat)] /\ loaded'[r] = more /\ \A x \in Roots \ {r} : loaded'[x] = loaded[x]
  BY <1>1, <1>2, <1>4
<1>6. Grows
  BY <1>1, <1>2, <1>5 DEF Grows
<1>. QED
  BY <1>1, <1>2, <1>3, <1>5, <1>6

LEMMA RevalidateTree ==
  ASSUME RestartInv, TreeInv, NEW r \in Roots, Revalidate(r)
  PROVE  TreeInv' /\ \A x \in Roots : SameHeat(x) \/ Fine(x)'
<1>1. /\ slot[r] # "away" /\ slot' = [slot EXCEPT ![r] = "live"] /\ owed' = Owes(r, Session(r)')
      /\ UNCHANGED <<restart, provider, requests, notes, leaving, telling, tried, warmed, stale>>
      /\ loaded' = IF slot[r] = "unbuilt" THEN [loaded EXCEPT ![r] = Append(@, 0)] ELSE loaded
  BY DEF Revalidate
<1>2. SessionsType /\ Len(loaded[r]) \in Nat
  BY Lengths DEF TreeInv, TreeType
<1>3. slot'[r] = "live" /\ \A x \in Roots \ {r} : slot'[x] = slot[x]
  BY <1>1, <1>2 DEF SessionsType
<1>4. /\ Grows /\ loaded' \in [Roots -> Seq(Nat)] /\ loaded'[r] # <<>>
      /\ \A i \in 1 .. Len(loaded'[r]) : loaded'[r][i] # 0 => i \in tried[r]
      /\ \A i \in 1 .. Len(loaded[r]) : loaded'[r][i] = loaded[r][i] /\ i \in 1 .. Len(loaded'[r])
      /\ \A x \in Roots \ {r} : loaded'[x] = loaded[x]
      /\ slot[r] = "unbuilt" => loaded'[r][Len(loaded'[r])] = 0
      /\ slot[r] # "unbuilt" => loaded'[r] = loaded[r]
  <2>1. CASE slot[r] = "unbuilt"
    BY <1>1, <1>2, <2>1, OneMore
  <2>2. CASE slot[r] # "unbuilt"
    <3>1. slot[r] = "live" /\ loaded' = loaded
      BY <1>1, <1>2, <2>2 DEF SessionsType
    <3>. QED
      BY <1>2, <2>2, <3>1, Lengths DEF SessionsType, Grows
  <2>. QED
    BY <2>1, <2>2
<1>5. Session(r)' = Len(loaded'[r]) /\ Session(r)' \in 1 .. Len(loaded'[r]) /\ Session(r)' \in Nat
  <2>1. Len(loaded'[r]) \in Nat /\ Len(loaded'[r]) > 0
    BY <1>2, <1>4, EmptySeq DEF Grows
  <2>. QED
    BY <1>3, <2>1 DEF Session
<1>6. /\ owed' \in [Roots -> SUBSET Nat] /\ Session(r)' \in owed'[r]
      /\ \A x \in Roots \ {r} : owed'[x] = owed[x]
      /\ owed'[r] = owed[r] \cup {Session(r)'}
  BY <1>1, <1>2, <1>5 DEF SessionsType, Owes
<1>7. SessionsType'
  <2>1. slot' \in [Roots -> {"unbuilt", "live", "away"}]
    BY <1>1, <1>2 DEF SessionsType
  <2>2. ASSUME NEW x \in Roots
        PROVE  /\ slot'[x] = "live" => loaded'[x] # <<>>
               /\ slot'[x] = "unbuilt" => leaving[x] = "none"
               /\ leaving[x] = "scheduling" => slot'[x] = "live"
               /\ owed'[x] \cup telling[x] \subseteq 1 .. Len(loaded'[x])
               /\ \A s \in 1 .. Len(loaded'[x]) : loaded'[x][s] # 0 => s \in tried[x]
    <3>1. CASE x = r
      <4>1. owed[r] \cup telling[r] \subseteq 1 .. Len(loaded[r])
        BY <1>2 DEF SessionsType
      <4>2. owed'[r] \cup telling[r] \subseteq 1 .. Len(loaded'[r])
        BY <1>4, <1>5, <1>6, <4>1
      <4>. QED
        BY <1>3, <1>4, <3>1, <4>2
    <3>2. CASE x # r
      <4>1. loaded'[x] = loaded[x] /\ slot'[x] = slot[x] /\ owed'[x] = owed[x]
        BY <1>3, <1>4, <1>6, <3>2
      <4>. QED
        BY <1>2, <4>1 DEF SessionsType
    <3>. QED
      BY <3>1, <3>2
  <2>. QED
    BY <1>1, <1>2, <1>4, <1>6, <2>1, <2>2 DEF SessionsType
<1>8. SameBundles
  <2>. SUFFICES ASSUME NEW x \in Roots
                PROVE  /\ \A s \in 0 .. Len(loaded[x]) : Bundle(x, s)' = Bundle(x, s)
                       /\ Bundle(x, Session(x))' = Bundle(x, Session(x))
    BY DEF SameBundles
  <2>1. CASE x # r
    BY <1>3, <1>4, <2>1 DEF Bundle, Session
  <2>2. CASE x = r
    <3>1. \A s \in 0 .. Len(loaded[r]) : s = 0 \/ s \in 1 .. Len(loaded[r])
      BY <1>2
    <3>2. \A s \in 0 .. Len(loaded[r]) : Bundle(r, s)' = Bundle(r, s)
      BY <1>4, <3>1 DEF Bundle
    <3>3. CASE slot[r] = "unbuilt"
      <4>1. Session(r) = 0 /\ loaded'[r][Session(r)'] = 0
        BY <1>4, <1>5, <3>3 DEF Session
      <4>2. Bundle(r, Session(r)) = <<0, 0>> /\ Bundle(r, Session(r))' = <<0, 0>>
        BY <4>1 DEF Bundle
      <4>. QED
        BY <2>2, <3>2, <4>2
    <3>4. CASE slot[r] # "unbuilt"
      <4>1. slot[r] = "live"
        BY <1>1, <1>2, <3>4 DEF SessionsType
      <4>2. Session(r)' = Session(r) /\ loaded'[r] = loaded[r]
        BY <1>3, <1>4, <3>4, <4>1 DEF Session
      <4>. QED
        BY <2>2, <3>2, <4>2 DEF Bundle
    <3>. QED
      BY <3>3, <3>4
  <2>. QED
    BY <2>1, <2>2
<1>9. Due => Due'
  BY <1>1 DEF Due
<1>10. TreeInv'
  BY <1>1, <1>4, <1>7, <1>8, <1>9, ServedTree
<1>11. Fine(r)'
  BY <1>3, <1>6 DEF Fine, Cold
<1>12. \A x \in Roots \ {r} : SameHeat(x)
  BY <1>1, <1>3, <1>4, <1>6 DEF SameHeat, Session
<1>. QED
  BY <1>10, <1>11, <1>12

\* A root's old session goes, or its folder comes back: one entry of slot and of leaving.
LEMMA SlotMoves ==
  ASSUME SessionsType, NEW r \in Roots, NEW at \in {"unbuilt", "live", "away"},
         NEW to \in {"none", "closing", "dropping", "forgetting", "scheduling"},
         slot' = [slot EXCEPT ![r] = at], Leaves(r, to)
  PROVE  /\ slot' \in [Roots -> {"unbuilt", "live", "away"}] /\ slot'[r] = at
         /\ leaving' \in [Roots -> {"none", "closing", "dropping", "forgetting", "scheduling"}]
         /\ leaving'[r] = to
         /\ \A x \in Roots \ {r} : slot'[x] = slot[x] /\ leaving'[x] = leaving[x]
BY DEF SessionsType, Leaves

LEMMA SlotStays ==
  ASSUME SessionsType, NEW r \in Roots, slot' = slot
  PROVE  slot' = [slot EXCEPT ![r] = slot[r]] /\ slot[r] \in {"unbuilt", "live", "away"}
BY DEF SessionsType

LEMMA RebuildTree ==
  ASSUME RestartInv, TreeInv, NEW r \in Roots, Rebuild(r)
  PROVE  TreeInv' /\ \A x \in Roots : SameHeat(x) \/ Fine(x)'
<1>1. /\ slot[r] = "live" /\ slot' = slot /\ Leaves(r, "closing")
      /\ loaded' = [loaded EXCEPT ![r] = Append(@, 0)]
      /\ UNCHANGED <<restart, provider, requests, notes, owed, telling, tried, warmed, stale>>
  BY DEF Rebuild
<1>2. SessionsType
  BY DEF TreeInv, TreeType
<1>3. /\ leaving' \in [Roots -> {"none", "closing", "dropping", "forgetting", "scheduling"}]
      /\ leaving'[r] = "closing" /\ \A x \in Roots \ {r} : leaving'[x] = leaving[x]
  BY <1>1, <1>2, SlotStays, SlotMoves
<1>4. /\ Grows /\ loaded' \in [Roots -> Seq(Nat)] /\ loaded'[r] # <<>>
      /\ \A i \in 1 .. Len(loaded'[r]) : loaded'[r][i] # 0 => i \in tried[r]
      /\ \A i \in 1 .. Len(loaded[r]) : i \in 1 .. Len(loaded'[r])
      /\ \A x \in Roots \ {r} : loaded'[x] = loaded[x]
  BY <1>1, <1>2, OneMore
<1>5. SessionsType'
  <2>1. ASSUME NEW x \in Roots
        PROVE  /\ slot[x] = "live" => loaded'[x] # <<>>
               /\ slot[x] = "unbuilt" => leaving'[x] = "none"
               /\ leaving'[x] = "scheduling" => slot[x] = "live"
               /\ owed[x] \cup telling[x] \subseteq 1 .. Len(loaded'[x])
               /\ \A s \in 1 .. Len(loaded'[x]) : loaded'[x][s] # 0 => s \in tried[x]
    <3>1. CASE x = r
      <4>1. owed[r] \cup telling[r] \subseteq 1 .. Len(loaded[r])
        BY <1>2 DEF SessionsType
      <4>. QED
        BY <1>1, <1>3, <1>4, <3>1, <4>1
    <3>2. CASE x # r
      <4>1. loaded'[x] = loaded[x] /\ leaving'[x] = leaving[x]
        BY <1>3, <1>4, <3>2
      <4>. QED
        BY <1>2, <4>1 DEF SessionsType
    <3>. QED
      BY <3>1, <3>2
  <2>. QED
    BY <1>1, <1>2, <1>3, <1>4, <2>1 DEF SessionsType
<1>6. Due'
  BY <1>3 DEF Due
<1>7. TreeInv'
  BY <1>1, <1>4, <1>5, <1>6, ServedTree
<1>8. Fine(r)'
  BY <1>3 DEF Fine, Cold
<1>9. \A x \in Roots \ {r} : SameHeat(x)
  BY <1>1, <1>3, <1>4 DEF SameHeat, Session
<1>. QED
  BY <1>7, <1>8, <1>9

LEMMA FolderLeavesTree ==
  ASSUME RestartInv, TreeInv, NEW r \in Roots, FolderLeaves(r)
  PROVE  TreeInv' /\ \A x \in Roots : SameHeat(x) \/ Fine(x)'
<1>1. /\ slot' = [slot EXCEPT ![r] = "away"] /\ Leaves(r, "closing")
      /\ UNCHANGED <<restart, provider, requests, notes, loaded, owed, telling, tried, warmed, stale>>
  BY DEF FolderLeaves
<1>2. SessionsType
  BY DEF TreeInv, TreeType
<1>3. /\ slot' \in [Roots -> {"unbuilt", "live", "away"}] /\ slot'[r] = "away"
      /\ leaving' \in [Roots -> {"none", "closing", "dropping", "forgetting", "scheduling"}]
      /\ leaving'[r] = "closing"
      /\ \A x \in Roots \ {r} : slot'[x] = slot[x] /\ leaving'[x] = leaving[x]
  BY <1>1, <1>2, SlotMoves
<1>4. SessionsType'
  BY <1>1, <1>2, <1>3 DEF SessionsType
<1>5. Grows
  BY <1>1, <1>2, Lengths DEF Grows
<1>6. Due'
  BY <1>3 DEF Due
<1>7. TreeInv'
  BY <1>1, <1>4, <1>5, <1>6, ServedTree
<1>8. Fine(r)'
  BY <1>3 DEF Fine, Cold
<1>9. \A x \in Roots \ {r} : SameHeat(x)
  BY <1>1, <1>3 DEF SameHeat, Session
<1>. QED
  BY <1>7, <1>8, <1>9

LEMMA FolderReturnsTree ==
  ASSUME RestartInv, TreeInv, NEW r \in Roots, FolderReturns(r)
  PROVE  /\ TreeInv' /\ \A x \in Roots \ {r} : SameHeat(x)
         /\ slot[r] # "live" /\ leaving[r] = "none" /\ ~Cold(r)' /\ UNCHANGED <<warmed, stale>>
<1>1. /\ slot' = [slot EXCEPT ![r] = "unbuilt"] /\ slot[r] = "away" /\ leaving[r] = "none"
      /\ UNCHANGED <<restart, provider, requests, notes, loaded, leaving, owed, telling, tried, warmed, stale>>
  BY DEF FolderReturns
<1>2. SessionsType
  BY DEF TreeInv, TreeType
<1>3. /\ slot' \in [Roots -> {"unbuilt", "live", "away"}] /\ slot'[r] = "unbuilt"
      /\ \A x \in Roots \ {r} : slot'[x] = slot[x]
  BY <1>1, <1>2 DEF SessionsType
<1>4. SessionsType'
  BY <1>1, <1>2, <1>3 DEF SessionsType
<1>5. Grows
  BY <1>1, <1>2, Lengths DEF Grows
<1>6. \A x \in Roots : Session(x)' = Session(x)
  BY <1>1, <1>3 DEF Session
<1>7. SameBundles
  BY <1>1, <1>6 DEF SameBundles, Bundle
<1>8. Due => Due'
  BY <1>1 DEF Due
<1>9. TreeInv'
  BY <1>1, <1>4, <1>5, <1>7, <1>8, ServedTree
<1>10. \A x \in Roots \ {r} : SameHeat(x)
  BY <1>1, <1>3, <1>6 DEF SameHeat
<1>. QED
  BY <1>1, <1>3, <1>9, <1>10 DEF Cold

LEMMA CloseOldTree ==
  ASSUME RestartInv, TreeInv, NEW r \in Roots, CloseOld(r)
  PROVE  TreeInv' /\ \A x \in Roots : SameHeat(x) \/ Fine(x)'
<1>1. /\ owed' = [owed EXCEPT ![r] = owed[r] \ {Old(r)}]
      /\ telling' = [telling EXCEPT ![r] = telling[r] \ {Old(r)}] /\ Leaves(r, "dropping")
      /\ leaving[r] = "closing" /\ slot' = slot
      /\ UNCHANGED <<restart, provider, requests, notes, loaded, tried, warmed, stale>>
  BY DEF CloseOld
<1>2. SessionsType
  BY DEF TreeInv, TreeType
<1>3. /\ leaving' \in [Roots -> {"none", "closing", "dropping", "forgetting", "scheduling"}]
      /\ leaving'[r] = "dropping" /\ \A x \in Roots \ {r} : leaving'[x] = leaving[x]
  BY <1>1, <1>2, SlotStays, SlotMoves
<1>4. /\ owed' \in [Roots -> SUBSET Nat] /\ telling' \in [Roots -> SUBSET Nat]
      /\ \A x \in Roots : owed'[x] \subseteq owed[x] /\ telling'[x] \subseteq telling[x]
      /\ \A x \in Roots \ {r} : owed'[x] = owed[x]
  BY <1>1, <1>2 DEF SessionsType
<1>5. SessionsType'
  BY <1>1, <1>2, <1>3, <1>4 DEF SessionsType
<1>6. Grows
  BY <1>1, <1>2, Lengths DEF Grows
<1>7. Due'
  BY <1>3 DEF Due
<1>8. TreeInv'
  BY <1>1, <1>5, <1>6, <1>7, ServedTree
<1>9. Fine(r)'
  BY <1>3 DEF Fine, Cold
<1>10. \A x \in Roots \ {r} : SameHeat(x)
  BY <1>1, <1>3, <1>4 DEF SameHeat, Session
<1>. QED
  BY <1>8, <1>9, <1>10

LEMMA DroppedTree ==
  ASSUME RestartInv, TreeInv, NEW r \in Roots, Dropped(r)
  PROVE  TreeInv' /\ \A x \in Roots : SameHeat(x) \/ Fine(x)'
<1>1. /\ Leaves(r, "forgetting") /\ leaving[r] = "dropping" /\ slot' = slot /\ client \in live
      /\ notes' = notes \cup {client}
      /\ UNCHANGED <<restart, provider, requests, loaded, owed, telling, tried, warmed, stale>>
  BY DEF Dropped, Notify
<1>2. SessionsType
  BY DEF TreeInv, TreeType
<1>3. /\ leaving' \in [Roots -> {"none", "closing", "dropping", "forgetting", "scheduling"}]
      /\ leaving'[r] = "forgetting" /\ \A x \in Roots \ {r} : leaving'[x] = leaving[x]
  BY <1>1, <1>2, SlotStays, SlotMoves
<1>4. SessionsType'
  BY <1>1, <1>2, <1>3 DEF SessionsType
<1>5. Grows
  BY <1>1, <1>2, Lengths DEF Grows
<1>6. provider.of \in live => Due'
  BY <1>1, TheClient DEF Due, TreeInv
<1>7. TreeInv'
  BY <1>1, <1>4, <1>5, <1>6, ServedTree
<1>8. Fine(r)'
  BY <1>3 DEF Fine, Cold
<1>9. \A x \in Roots \ {r} : SameHeat(x)
  BY <1>1, <1>3 DEF SameHeat, Session
<1>. QED
  BY <1>7, <1>8, <1>9

LEMMA ForgetWarmupTree ==
  ASSUME RestartInv, TreeInv, NEW r \in Roots, ForgetWarmup(r)
  PROVE  TreeInv' /\ \A x \in Roots : SameHeat(x) \/ Fine(x)'
<1>1. /\ warmed' = warmed \ {r} /\ stale' = stale \ {r} /\ leaving[r] = "forgetting" /\ slot' = slot
      /\ Leaves(r, IF slot[r] = "live" THEN "scheduling" ELSE "none")
      /\ UNCHANGED <<restart, provider, requests, notes, loaded, owed, telling, tried>>
  BY DEF ForgetWarmup, Forget
<1>2. SessionsType
  BY DEF TreeInv, TreeType
<1>3. /\ leaving' \in [Roots -> {"none", "closing", "dropping", "forgetting", "scheduling"}]
      /\ leaving'[r] = (IF slot[r] = "live" THEN "scheduling" ELSE "none")
      /\ \A x \in Roots \ {r} : leaving'[x] = leaving[x]
  <2>1. (IF slot[r] = "live" THEN "scheduling" ELSE "none")
          \in {"none", "closing", "dropping", "forgetting", "scheduling"}
    OBVIOUS
  <2>. QED
    BY <1>1, <1>2, <2>1, SlotStays, SlotMoves
<1>4. SessionsType'
  BY <1>1, <1>2, <1>3 DEF SessionsType
<1>5. Grows /\ SameBundles
  BY <1>1, <1>2, BundlesKept
<1>6. Due => Due'
  BY <1>1, <1>3 DEF Due
<1>7. TreeInv'
  BY <1>1, <1>4, <1>5, <1>6, ServedTree
<1>8. Fine(r)'
  BY <1>1, <1>3 DEF Fine, Cold
<1>9. \A x \in Roots \ {r} : SameHeat(x)
  BY <1>1, <1>3 DEF SameHeat, Session
<1>. QED
  BY <1>7, <1>8, <1>9

LEMMA RescheduleTree ==
  ASSUME RestartInv, TreeInv, NEW r \in Roots, Reschedule(r)
  PROVE  TreeInv' /\ \A x \in Roots : SameHeat(x) \/ Fine(x)'
<1>1. /\ owed' = Owes(r, Session(r)) /\ leaving[r] = "scheduling" /\ slot' = slot /\ Leaves(r, "none")
      /\ UNCHANGED <<restart, provider, requests, notes, loaded, telling, tried, warmed, stale>>
  BY DEF Reschedule
<1>2. SessionsType
  BY DEF TreeInv, TreeType
<1>3. /\ leaving' \in [Roots -> {"none", "closing", "dropping", "forgetting", "scheduling"}]
      /\ leaving'[r] = "none" /\ \A x \in Roots \ {r} : leaving'[x] = leaving[x]
  BY <1>1, <1>2, SlotStays, SlotMoves
<1>4. slot[r] = "live" /\ Session(r) \in 1 .. Len(loaded[r]) /\ Session(r)' = Session(r)
  <2>1. slot[r] = "live"
    BY <1>1, <1>2 DEF SessionsType
  <2>. QED
    BY <1>1, <1>2, <2>1, Lengths DEF Session
<1>5. /\ owed' \in [Roots -> SUBSET Nat] /\ Session(r) \in owed'[r]
      /\ \A x \in Roots : owed'[x] \subseteq 1 .. Len(loaded[x])
      /\ \A x \in Roots \ {r} : owed'[x] = owed[x]
  BY <1>1, <1>2, <1>4, Owed
<1>6. SessionsType'
  BY <1>1, <1>2, <1>3, <1>5 DEF SessionsType
<1>7. Grows /\ SameBundles
  BY <1>1, <1>2, BundlesKept
<1>8. Due => Due'
  BY <1>1, <1>3 DEF Due
<1>9. TreeInv'
  BY <1>1, <1>6, <1>7, <1>8, ServedTree
<1>10. Fine(r)'
  BY <1>1, <1>4, <1>5 DEF Fine, Cold
<1>11. \A x \in Roots \ {r} : SameHeat(x)
  BY <1>1, <1>3, <1>5 DEF SameHeat, Session
<1>. QED
  BY <1>9, <1>10, <1>11

LEMMA ServeTree ==
  ASSUME RestartInv, TreeInv, Serve
  PROVE  TreeInv'
BY LoadTree, TellTree, RevalidateTree, RebuildTree, FolderLeavesTree, FolderReturnsTree, CloseOldTree,
   DroppedTree, ForgetWarmupTree, RescheduleTree DEF Serve

LEMMA TreeStep == RestartInv /\ TreeInv /\ [Next]_vars => TreeInv'
<1>. SUFFICES ASSUME RestartInv, TreeInv, [Next]_vars
              PROVE  TreeInv'
  OBVIOUS
<1>1. CASE Editing \/ UNCHANGED vars
  <2>1. UNCHANGED <<restart, tree, server>>
    BY <1>1, EditingFrame DEF vars
  <2>. QED
    BY <2>1, TreeKept DEF restart
<1>. QED
  BY <1>1, RestartingTree, FetchingTree, ServeTree DEF Next

\* When nothing is under way the tree shows what the server holds, whatever restarts, fetches,
\* notifications and rebuilds overtook one another, unless the last fetch failed.
THEOREM TreeShowsTheServer == Spec => []TreeSettles
<1>1. TreeInv => TreeSettles
  BY DEF TreeInv, Settling, TreeSettles, Quiet, Due, Latest
<1>. QED
  BY <1>1, RestartInit, RestartStep, TreeInit, TreeStep, PTL DEF Spec

----------------------------------------------------------------------------
(* Every root is warmed: a fetch is at it, or its session has been scheduled.*)
LEMMA WarmKept ==
  ASSUME WarmInv, UNCHANGED client,
         \A r \in Roots \ stale' :
           \/ Fine(r)'
           \/ /\ SameHeat(r)
              /\ \A q \in requests : Cold(r) /\ Warms(q, r) => \E p \in requests' : Warms(p, r)'
  PROVE  WarmInv'
<1>. SUFFICES ASSUME client # 0, NEW r \in Roots \ stale'
              PROVE  /\ slot'[r] # "live" /\ leaving'[r] = "none" => r \notin warmed'
                     /\ Cold(r)' => \E p \in requests' : Warms(p, r)'
  BY DEF WarmInv
<1>1. CASE Fine(r)'
  BY <1>1 DEF Fine
<1>2. CASE /\ SameHeat(r)
           /\ \A q \in requests : Cold(r) /\ Warms(q, r) => \E p \in requests' : Warms(p, r)'
  <2>1. r \in Roots \ stale /\ (Cold(r)' => Cold(r))
    BY <1>2 DEF SameHeat, Cold
  <2>2. /\ slot[r] # "live" /\ leaving[r] = "none" => r \notin warmed
        /\ Cold(r) => \E q \in requests : Warms(q, r)
    BY <2>1 DEF WarmInv
  <2>3. slot'[r] # "live" /\ leaving'[r] = "none" => r \notin warmed'
    BY <1>2, <2>2 DEF SameHeat
  <2>. QED
    BY <1>2, <2>1, <2>2, <2>3
<1>. QED
  BY <1>1, <1>2

\* The server as it is, and one fetch instead of another.
LEMMA StepWarm ==
  ASSUME WarmInv, UNCHANGED client, NEW q, NEW next, Step(q, next),
         \A r \in Roots \ stale' :
           \/ Fine(r)'
           \/ SameHeat(r) /\ (Cold(r) /\ Warms(q, r) => Warms(next, r)')
  PROVE  WarmInv'
<1>1. next \in requests' /\ \A p \in requests : p = q \/ p \in requests'
  BY DEF Step
<1>2. \A r \in Roots, p \in requests : SameHeat(r) /\ Warms(p, r) => Warms(p, r)'
  BY DEF SameHeat, Warms
<1>. QED
  BY <1>1, <1>2, WarmKept

LEMMA SameServer ==
  ASSUME UNCHANGED server
  PROVE  \A r \in Roots : SameHeat(r) /\ \A q : Warms(q, r) => Warms(q, r)'
BY DEF server, SameHeat, Session, Warms

LEMMA RestartingWarm ==
  ASSUME RestartInv, TreeInv, WarmInv, Restarting
  PROVE  WarmInv'
<1>1. CASE Starts
  <2>1. /\ slot' = [r \in Roots |-> "unbuilt"] /\ warmed' = {}
    BY <1>1 DEF Starts
  <2>2. \A r \in Roots : slot'[r] = "unbuilt" /\ r \notin warmed'
    BY <2>1
  <2>. QED
    BY <2>2 DEF WarmInv, Cold
<1>2. CASE Stopped
  BY <1>2 DEF Stopped, WarmInv
<1>3. CASE UNCHANGED <<requests, server, client>>
  BY <1>3, SameServer, WarmKept
<1>. QED
  BY <1>1, <1>2, <1>3
     DEF Restarting, Change, Deactivate, Take, DisposeTree, StartFails, StartsTooOld, Drop, tree

LEMMA ReadSessionsWarm ==
  ASSUME RestartInv, TreeInv, WarmInv, NEW q \in requests, ReadSessions(q)
  PROVE  WarmInv'
<1>1. /\ q.pc = "sent" /\ slot' = [r \in Roots |-> IF slot[r] = "unbuilt" THEN "live" ELSE slot[r]]
      /\ loaded' = [r \in Roots |-> IF slot[r] = "unbuilt" THEN Append(loaded[r], 0) ELSE loaded[r]]
      /\ UNCHANGED <<client, leaving, owed, tried, warmed, stale>>
  BY DEF ReadSessions, restart
<1>2. PICK next : /\ Step(q, next) /\ next.pc = "warming" /\ next.left = {r \in Roots : slot[r] # "away"}
                  /\ \A r \in Roots : next.sessions[r] = Session(r)'
  BY ReadSessionsTree
<1>3. next \in requests'
  BY <1>2 DEF Step
<1>4. CASE client = 0
  BY <1>1, <1>4 DEF WarmInv
<1>5. CASE client # 0
  <2>. SUFFICES ASSUME NEW r \in Roots \ stale
                PROVE  /\ slot'[r] # "live" /\ leaving[r] = "none" => r \notin warmed
                       /\ Cold(r)' => \E p \in requests' : Warms(p, r)'
    BY <1>1 DEF WarmInv
  <2>1. CASE slot[r] = "unbuilt"
    <3>1. leaving[r] = "none" /\ r \notin warmed
      BY <1>5, <2>1 DEF TreeInv, TreeType, SessionsType, WarmInv
    <3>2. Warms(next, r)'
      BY <1>1, <1>2, <2>1, <3>1 DEF Warms
    <3>. QED
      BY <1>3, <3>1, <3>2
  <2>2. CASE slot[r] # "unbuilt"
    <3>1. SameHeat(r)
      BY <1>1, <2>2 DEF SameHeat, Session
    <3>2. Cold(r)' => Cold(r)
      BY <3>1 DEF SameHeat, Cold
    <3>3. \A p \in requests : Warms(p, r) => Warms(p, r)' /\ p # q
      BY <1>1, <3>1 DEF SameHeat, Warms
    <3>4. \A p \in requests : p # q => p \in requests'
      BY <1>2 DEF Step
    <3>5. slot'[r] = slot[r]
      BY <3>1 DEF SameHeat
    <3>. QED
      BY <1>5, <3>2, <3>3, <3>4, <3>5 DEF WarmInv
  <2>. QED
    BY <2>1, <2>2
<1>. QED
  BY <1>4, <1>5

LEMMA LookWarm ==
  ASSUME TreeInv, WarmInv, NEW q \in requests, NEW r \in Roots, Look(q, r)
  PROVE  WarmInv'
<1>1. /\ q.pc = "warming" /\ r \in q.left /\ UNCHANGED <<client, server>>
  BY DEF Look, restart
<1>2. PICK next :
        /\ Step(q, next) /\ next.sessions = q.sessions
        /\ IF Bundle(r, q.sessions[r]) = <<0, 0>> THEN next.pc = "marking" /\ next.left = q.left
           ELSE next.pc = "warming" /\ next.left = q.left \ {r}
  BY Looked
<1>3. \A x \in Roots : SameHeat(x)
  BY <1>1, SameServer
<1>4. ASSUME NEW x \in Roots, Cold(x), Warms(q, x)
      PROVE  Warms(next, x)
  <2>1. x \notin warmed /\ q.sessions[x] = Session(x) /\ x \in q.left
    BY <1>1, <1>4 DEF Warms
  <2>2. CASE Bundle(r, q.sessions[r]) = <<0, 0>>
    BY <1>2, <2>1, <2>2 DEF Warms
  <2>3. CASE Bundle(r, q.sessions[r]) # <<0, 0>>
    <3>1. x # r
      <4>. SUFFICES ASSUME x = r
                    PROVE  FALSE
        OBVIOUS
      <4>1. slot[r] = "live" /\ Session(r) \notin tried[r]
        BY <1>4 DEF Cold
      <4>2. Session(r) \in 1 .. Len(loaded[r]) /\ Session(r) # 0
        BY <4>1, Lengths DEF TreeInv, TreeType
      <4>3. loaded[r][Session(r)] = 0
        BY <4>1, <4>2 DEF TreeInv, TreeType, SessionsType
      <4>. QED
        BY <2>1, <2>3, <4>2, <4>3 DEF Bundle
    <3>. QED
      BY <1>2, <2>1, <2>3, <3>1 DEF Warms
  <2>. QED
    BY <2>2, <2>3
<1>5. \A x \in Roots : Warms(next, x) => Warms(next, x)'
  BY <1>1, SameServer
<1>. QED
  BY <1>1, <1>2, <1>3, <1>4, <1>5, StepWarm

LEMMA MarkWarm ==
  ASSUME TreeInv, WarmInv, NEW q \in requests, Mark(q)
  PROVE  WarmInv'
<1>1. /\ q.pc = "marking" /\ UNCHANGED <<client, loaded, slot, leaving, owed, tried>>
      /\ q.at \in q.left /\ q.at \in Roots /\ q.sessions[q.at] # 0 /\ SessionsType
  BY Fields DEF Mark, restart, FetchType, TreeInv, TreeType
<1>2. \A x \in Roots : Session(x)' = Session(x)
  BY <1>1 DEF Session
<1>3. CASE q.at \in warmed
  <2>1. Done(q) /\ UNCHANGED <<warmed, stale>>
    BY <1>3 DEF Mark
  <2>2. PICK next : /\ Step(q, next) /\ next.sessions = q.sessions /\ next.pc = "warming"
                    /\ next.left = q.left \ {q.at}
    BY <2>1, DoneWith
  <2>3. \A x \in Roots : SameHeat(x)
    BY <1>1, <1>2, <2>1 DEF SameHeat
  <2>4. \A x \in Roots : Warms(q, x) => Warms(next, x)'
    BY <1>1, <1>2, <1>3, <2>1, <2>2 DEF Warms
  <2>. QED
    BY <1>1, <2>2, <2>3, <2>4, StepWarm
<1>4. CASE q.at \notin warmed
  <2>1. PICK next : next = [q EXCEPT !.pc = "scheduling"]
    OBVIOUS
  <2>2. /\ Step(q, next) /\ warmed' = warmed \cup {q.at}
        /\ stale' = IF q.sessions[q.at] = Session(q.at) THEN stale ELSE stale \cup {q.at}
    BY <1>4, <2>1 DEF Mark
  <2>3. /\ next.sessions = q.sessions /\ next.pc = "scheduling" /\ next.left = q.left /\ next.at = q.at
    BY <1>1, <2>1, MovesTo
  <2>4. next \in requests' /\ \A p \in requests : p = q \/ p \in requests'
    BY <2>2 DEF Step
  <2>5. CASE client = 0
    BY <1>1, <2>5 DEF WarmInv
  <2>6. CASE client # 0
    <3>. SUFFICES ASSUME NEW x \in Roots \ stale'
                  PROVE  /\ slot[x] # "live" /\ leaving[x] = "none" => x \notin warmed'
                         /\ Cold(x)' => \E p \in requests' : Warms(p, x)'
      BY <1>1 DEF WarmInv
    <3>1. Cold(x)' => Cold(x)
      BY <1>1, <1>2 DEF Cold
    <3>2. CASE x = q.at
      <4>1. q.sessions[x] = Session(x) /\ Session(x) # 0
        BY <1>1, <2>2, <3>2
      <4>2. slot[x] = "live"
        BY <4>1 DEF Session
      <4>3. Warms(next, x)'
        BY <1>1, <1>2, <2>2, <2>3, <3>2, <4>1 DEF Warms
      <4>. QED
        BY <2>4, <4>2, <4>3
    <3>3. CASE x # q.at
      <4>1. x \in Roots \ stale /\ (x \in warmed' <=> x \in warmed)
        BY <2>2, <3>3
      <4>2. \A p \in requests : Warms(p, x) => Warms(p, x)'
        BY <1>2, <4>1 DEF Warms
      <4>3. Warms(q, x) => Warms(next, x)'
        BY <1>1, <1>2, <2>3, <3>3, <4>1 DEF Warms
      <4>. QED
        BY <2>4, <2>6, <3>1, <4>1, <4>2, <4>3 DEF WarmInv
    <3>. QED
      BY <3>2, <3>3
  <2>. QED
    BY <2>5, <2>6
<1>. QED
  BY <1>3, <1>4

LEMMA ScheduleWarm ==
  ASSUME RestartInv, TreeInv, WarmInv, NEW q \in requests, Schedule(q)
  PROVE  WarmInv'
<1>1. /\ q.pc = "scheduling" /\ UNCHANGED <<client, loaded, slot, leaving, tried, warmed, stale>>
      /\ q.at \in Roots /\ q.sessions[q.at] # 0
  BY Fields DEF Schedule, restart, FetchType
<1>2. \A x \in Roots : owed[x] \subseteq owed'[x]
  BY ScheduleTree
<1>3. \A x \in Roots : SameHeat(x)
  BY <1>1, <1>2 DEF SameHeat, Session
<1>4. PICK next : next = [q EXCEPT !.pc = "settling"]
  OBVIOUS
<1>5. /\ Step(q, next) /\ next.sessions = q.sessions /\ next.pc = "settling" /\ next.left = q.left
      /\ next.at = q.at
  BY <1>1, <1>4, MovesTo DEF Schedule
<1>6. ASSUME Warms(q, q.at)
      PROVE  Fine(q.at)'
  <2>1. q.sessions[q.at] = Session(q.at) /\ Session(q.at) # 0
    BY <1>1, <1>6 DEF Warms
  <2>2. Session(q.at) \in owed'[q.at]
    BY <1>1, <2>1, ScheduleTree DEF Open
  <2>3. slot[q.at] = "live"
    BY <2>1 DEF Session
  <2>. QED
    BY <1>1, <2>2, <2>3 DEF Fine, Cold, Session
<1>7. ASSUME NEW x \in Roots, x # q.at, Warms(q, x)
      PROVE  Warms(next, x)'
  <2>1. x \notin warmed /\ q.sessions[x] = Session(x) /\ x \in q.left
    BY <1>1, <1>7 DEF Warms
  <2>. QED
    BY <1>1, <1>5, <1>7, <2>1 DEF Warms, Session
<1>. QED
  BY <1>1, <1>3, <1>5, <1>6, <1>7, StepWarm

LEMMA FetchingWarm ==
  ASSUME RestartInv, TreeInv, WarmInv, Fetching
  PROVE  WarmInv'
<1>1. client' = client
  BY FetchingFrame DEF restart
<1>2. CASE \/ \E c \in notes : Hear(c)
           \/ Refresh
  <2>1. requests \subseteq requests' /\ UNCHANGED server
    BY <1>2 DEF Hear, Refresh
  <2>. QED
    BY <1>1, <2>1, SameServer, WarmKept
<1>3. ASSUME NEW q \in requests, Reject(q) \/ Apply(q)
      PROVE  WarmInv'
  <2>1. requests' = requests \ {q} /\ UNCHANGED server /\ q.pc \in {"sent", "answered"}
    BY <1>3 DEF Reject, Apply
  <2>2. \A r \in Roots : ~Warms(q, r)
    BY <2>1 DEF Warms
  <2>. QED
    BY <1>1, <2>1, <2>2, SameServer, WarmKept
<1>4. ASSUME NEW q \in requests, Settle(q)
      PROVE  WarmInv'
  <2>1. q.pc = "settling" /\ Done(q) /\ UNCHANGED server
    BY <1>4 DEF Settle
  <2>2. PICK next : /\ Step(q, next) /\ next.sessions = q.sessions /\ next.pc = "warming"
                    /\ next.left = q.left \ {q.at}
    BY <2>1, DoneWith
  <2>3. \A r \in Roots : Warms(q, r) => Warms(next, r)
    BY <2>1, <2>2 DEF Warms
  <2>4. \A r \in Roots : SameHeat(r) /\ (Warms(next, r) => Warms(next, r)')
    BY <2>1, SameServer
  <2>. QED
    BY <1>1, <2>2, <2>3, <2>4, StepWarm
<1>5. ASSUME NEW q \in requests, AnswerConcepts(q)
      PROVE  WarmInv'
  <2>1. q.left = {} /\ UNCHANGED server /\ \E next : Step(q, next)
    BY <1>5 DEF AnswerConcepts
  <2>2. \A r \in Roots : ~Warms(q, r) /\ SameHeat(r)
    BY <2>1, SameServer DEF Warms
  <2>. QED
    BY <1>1, <2>1, <2>2, StepWarm
<1>. QED
  BY <1>2, <1>3, <1>4, <1>5, ReadSessionsWarm, LookWarm, MarkWarm, ScheduleWarm DEF Fetching

LEMMA ServeWarm ==
  ASSUME RestartInv, TreeInv, WarmInv, Serve
  PROVE  WarmInv'
<1>1. client' = client /\ requests' = requests
  BY ServeFrame DEF restart
<1>2. \A r \in Roots, q \in requests : SameHeat(r) /\ Warms(q, r) => Warms(q, r)'
  BY DEF SameHeat, Warms
<1>3. CASE \A r \in Roots : SameHeat(r) \/ Fine(r)'
  BY <1>1, <1>2, <1>3, WarmKept
<1>4. ASSUME NEW r \in Roots, FolderReturns(r)
      PROVE  WarmInv'
  <2>1. /\ \A x \in Roots \ {r} : SameHeat(x)
        /\ slot[r] # "live" /\ leaving[r] = "none" /\ ~Cold(r)' /\ UNCHANGED <<warmed, stale>>
    BY <1>4, FolderReturnsTree
  <2>2. client # 0 /\ r \notin stale => Fine(r)'
    BY <2>1 DEF WarmInv, Fine
  <2>3. CASE client = 0
    BY <1>1, <2>3 DEF WarmInv
  <2>4. CASE client # 0
    BY <1>1, <1>2, <2>1, <2>2, <2>4, WarmKept
  <2>. QED
    BY <2>3, <2>4
<1>. QED
  BY <1>3, <1>4, LoadTree, TellTree, RevalidateTree, RebuildTree, FolderLeavesTree, CloseOldTree,
     DroppedTree, ForgetWarmupTree, RescheduleTree DEF Serve

LEMMA WarmStep == RestartInv /\ TreeInv /\ WarmInv /\ [Next]_vars => WarmInv'
<1>. SUFFICES ASSUME RestartInv, TreeInv, WarmInv, [Next]_vars
              PROVE  WarmInv'
  OBVIOUS
<1>1. CASE Editing \/ UNCHANGED vars
  <2>1. UNCHANGED <<requests, server, client>>
    BY <1>1, EditingFrame DEF vars, tree, restart
  <2>. QED
    BY <2>1, SameServer, WarmKept
<1>. QED
  BY <1>1, RestartingWarm, FetchingWarm, ServeWarm DEF Next

\* With no fetch under way, every root's live session has had its revalidate or owes it, through
\* every rebuild, return of a folder and failed load, but for the roots that were marked for a
\* session replaced by then.
THEOREM TreeIsWarm == Spec => []WarmedUp
<1>1. WarmInv => WarmedUp
  BY DEF WarmInv, WarmedUp
<1>. QED
  BY <1>1, RestartInit, RestartStep, TreeInit, TreeStep, WarmStep, PTL DEF Spec
=============================================================================
