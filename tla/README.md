# okfit: a verification project

okfit keeps *bundles* of Markdown concepts in order: a core library (format, links,
graph, validation), profiles (trust, provenance), an engine (sessions and the operations
that write), and the programs that use them: a CLI, a language server, an MCP server, a
VS Code extension and an editor plugin.

The concurrent heart of it is the language server: an editor sends notifications and
requests, workspace folders come and go, configs break and recover, and a debounced
scheduler per bundle revalidates in the background and publishes what changed. Around it
are the commands that write files while people edit them (sync, verify, move), and the
extension that starts and stops the server. The actions of all of them are modelled,
checked on small instances and, but for what section 6 names, proved about for every
value of their constants. The pure algorithms they call are each checked against a
reference definition over bounded inputs.

Everything here is translated from the source. `PROJECT.json` maps every definition to
the lines it models; the comments in the modules name the code a property is about.

```
Tiers <- Coalescer                 what a scheduler promises (abstract)
  ^         ^
  |         | Promise == INSTANCE Coalescer WITH ...
  +---- Scheduler   <- MCScheduler, SchedulerProofs
        Registry    <- MCRegistry,  RegistryProofs
        Diagnostics <- MCDiagnostics, DiagnosticsProofs
        Server      <- ServerProofs
        Sync        <- MCSync,      SyncProofs
        Extension   <- MCExtension, ExtensionProofs

Links <- Move <- MCMove, MoveProofs      how a reference names a file
  ^ ^ ^
  | | +-- Stamps
  | +---- Format <- Overlay
  |         ^
  +---- Config <- Profile <- Scaffold (Format, Profile; INSTANCE Lint)
  |
  +---- Lint (Links, Trust) <- Actions, Query
Trust <- Attest <- MCAttest, AttestProofs   who has verified what
Splice                             edits of a frontmatter

MCAlgorithms: INSTANCE Splice, Format, Scaffold, Overlay, Query, Stamps, Actions
```

To check a run: `tlc -config Scheduler_safety.cfg MCScheduler`. To check the proofs:
`tlapm` on each of the eight modules named `...Proofs.tla`.

## 1. Inventory

### Language server (`packages/lsp`)

| Component | State it keeps | Operations | What is hard about it |
|---|---|---|---|
| Scheduler, `session/scheduler.ts` | one slot behind a synchronized permit; a chain fiber and a ceiling fiber per cycle | `schedule`, the chain (sleep, claim, run, hand on the rerun, finalize), `settle` | replacing a chain at the instant its delay elapses; interrupts that are forked, not awaited; the ceiling; a scope that closes at any point |
| Session registry, `session/registry.ts` | one Ref: folder slots and root entries | `sessionFor`, `rebuild`, `retryFailed`, `setFolders`, `addFolders`, `removeFolders` | state is read, a config is loaded (suspending), and the outcome is applied to a state others changed meanwhile; interruption of a lookup |
| Diagnostics feature and publisher, `features/diagnostics.ts` | the URIs last published non-empty per root, behind a permit | document events, watched-file changes, `publish`, `clear` | a rebuild in the middle of a publish; a config that stops loading |
| Document memory, `session/documents.ts` | text of each open document | `record`, `forget`, `openUnder` | must agree with the overlay of a session that did not exist when the buffer was opened |
| Server, `server.ts` | the notification work queue and its one worker | notifications enqueue, requests run on fibers of their own, `initialize`, `shutdown` | requests race the worker; shutdown waits for a marker in the queue and for every scheduler |
| Transport, `protocol/*.ts` | the input sentinel, handlers in flight | end of input, drain, close | the end of input is observed twice, by frame and by timer |
| Request features, `features/*.ts` | warmed roots (`concepts.ts`) | concepts, revalidate command, code actions, hover, symbols | edits computed before an await and applied after it |

The editor's notifications go through the queue to `Diagnostics`, which looks the
document's session up in the registry and schedules it. The scheduler runs the session's
`revalidate` and publishes the difference. A config change rebuilds the session: the
registry swaps a fresh one in, closes the old one's scope (which interrupts its
scheduler) and calls `onDispose`, which is the publisher's `clear`. Requests reach the
registry and the schedulers too, without passing through the queue.

### Engine (`packages/engine`)

| Component | State | Operations | What is hard |
|---|---|---|---|
| Bundle session, `session/*.ts`, `overlay/*` | overlay of open buffers, published diagnostics, loaded bundle | `revalidate(tier)`, overlay writes | the diff and the published set move in one step, the reads before do not |
| verify, revoke, integrity, `verify/*`, `edits/*` | files | prepare a batch, write it one file at a time | digest from one load, text from another; partial batches |
| sync, `sync/*` | the stamp in each concept's frontmatter, the log | plan, snapshot, confirm, compare, write, `git add` | texts that change between load, plan, snapshot, prompt and write; hooks re-run, commits amended; a failure between two writes |
| move, `move/*` | files | rewrite referrers, write, rename | not transactional |
| validate, query, targets, overlay | none | reads, over documents that shadow files | an argument read as a path and as an id; a document in a directory that is not there |
| config, init | none | discovery, anchors, layers; the files of a new project | what init writes decides what every later command finds |
| stale, trust | none | selections of concepts | agreement of the lint, the picker and the batch on what is attested |
| context, graph, render | none | reads | none |

### The rest

Core (links, graph, derivation, validation, configuration) and profiles (trust,
provenance from git history, the software project's types and layout) are pure. The CLI
adds prompts between plan and write. The MCP server loads a bundle per call and keeps
nothing. The VS Code extension starts, stops and restarts the client through a serial
queue, and refreshes a tree with a debounce and a generation check. The plugin is shell
hooks. Documentation, the website and the JSON schemas are text.

### What makes each part correct

* Scheduler: runs never overlap; the slot never names a dead chain; a run is never
  aborted by a new request; a burst cannot starve the run; nothing requested is lost;
  `settle` returns.
* Registry: reference counts are exact; each open session has one owner; no placeholder
  without a builder; a removed folder is not resurrected; each call returns; a config
  change that was reported is followed.
* Diagnostics: the editor ends up displaying what the live session finds; whatever it
  displays can be taken back; open buffers survive a rebuild; the server settles.
* Server and transport: shutdown is answered, and after the work that came before it;
  the end of the input cuts off nothing; an exit wins over it; the program ends.
* sync: a stamp belongs to the body it is beside; the log names a concept once a day; what
  people wrote is not overwritten; a run that finished leaves nothing for the next; what a
  hook wrote is in the commit.
* verify, revoke, stale: what reads as verified was read by the person it names; a
  refusal writes nothing; an undisturbed batch, revocation or refresh reaches its end.
* move: every reference names what it named; a refusal or a failure loses no text.
* Extension: one server at a time, and the extension knows it; the tree ends on what the
  server holds; every root is warmed; an edit reaches only the text it was computed from.
* Pure parts: an edit of a frontmatter changes exactly its keys; loading accounts for every
  file and field; indexes and stamps settle in one run; a fix removes its finding; a link
  is broken if and only if it leads nowhere; init, validate and discovery agree; a document
  that shadows a file counts as saved; an argument names one concept or none.

The hazards these properties are for are listed, each at its line, under `hazards` in
`PROJECT.json`. Where no property covers one, or only a part of it, it carries a note that
says so.

## 2. Plan

In order of how much of the system depends on the behaviour:

1. `Scheduler` against the abstract `Coalescer`, with proofs. Done.
2. `Registry`, with proofs. Done.
3. `Diagnostics`: queue, publisher, session and rebuild composed, with proofs. Done.
4. `Server`: the queue with its shutdown marker, the settle after it, the drain of
   handlers and writes, the end of input seen twice, with proofs. Done.
5. `Sync`, `Attest`, `Move`: the writers, each over files that people edit, with proofs.
   Done.
6. `Extension`: the client's life, the tree, the warm-up of `okfit/concepts`, one edit, with
   proofs. Done.
7. Pure algorithms as operators against reference definitions. Done: splices, loading and
   indexes, lint and links, quick fixes, configuration and init, overlays, targets and
   queries, stamps and digests. Left out: the merge of histories with branches, the diff's
   multiplicities, the search of `okfit context`.

Theorems left: of the algorithms, the properties that do not fold over sequences with an
operator.

## 3. The modules

### Tiers, Coalescer

`Tiers` is `maxTier` and `mergeTier`. `Coalescer` is what a caller of a scheduler may rely
on, with no fibers and no clock: requests merge into one owed tier, a run begins only when
none is in progress and takes all that is owed, and only closing the scope may drop work.

### Scheduler

| Model | Code |
|---|---|
| `slot` | the `Option<Entry>` in the `SynchronizedRef` |
| `chain[f]` | the fiber of one `chain(...)`, where it stands, its pending interrupt, the rerun it took |
| `ceiling[c]` | the fiber of `startCycle` and its `forceNow` deferred |
| `settler[s]` | a caller of `settle` |
| `open` | whether the scope given to `makeScheduler` is open |
| `burst`, `age`, `due` | a bound and two history variables, read by no code action but `burst`'s guard |

Every read-modify-write of the slot holds the permit and does not suspend, so each is one
action: `Schedule`, `Claim`, `RunEnds`, `Finalize`. The rerun is scheduled by `Continue`,
a separate action, because the code takes it inside one `modify` and calls `schedule`
after it. An interrupt is requested in `Replace` (the code forks it) and lands later in
`Interrupt`. A fiber that was forked and has not started when it is interrupted never
runs its finalizer: this is how the runtime treats a fiber interrupted before its first
step, and it is what the finding about `settle` on a closed scope rests on. `Tick` waits
until nothing is ready, as the clock does relative to the fibers it wakes.

### Registry

| Model | Code |
|---|---|
| `slot[f]` | `State.folders`: absent, unbuilt, building (with its Deferred), failed, live at a root |
| `entry[r]` | `State.roots`: the session and the folders that resolve to it |
| `session[h]` | whether a session's scope is open |
| `job[p]` | a fiber inside the registry: where it stands and its local variables |
| `disk`, `edits`, `dirty` | the configs, a bound on changes to them, changes the editor has yet to report |

Each synchronous `modify` is one action, and what the code awaits between two of them is
an action of its own: `Begin`, `Resolve`, `Make`, `Install`, `Release` are a build;
`ReadEntry`, `ReResolve` (one per folder), `MakeFresh`, `Swap` and the `Dispose` steps are
a rebuild; `ChangeFolders` and the `Dispose` steps are `setFolders` and the others. A
build's Deferred is named by the fiber that runs the build. A fiber is reused once its
call returned, so `Procs` bounds calls in progress and not calls.

Abstractions: reading one folder's config is atomic. `onWatchedFiles` rebuilds roots
concurrently; `Watch` goes root by root in any order, and its interleavings with itself
are those of two fibers calling `Watch` in the model. Discarding the session that lost
and resolving the Deferred are one action. A session whose build is interrupted before
it is installed has no fiber of its own and is dropped with the build.

### Diagnostics

| Model | Code |
|---|---|
| `work`, `worker` | the queue of `server.ts` and the fiber that drains it, with what it has in hand |
| `live` | the folder's slot in the registry: unbuilt, failed or a session |
| `session[h]` | overlay, published set, scheduler (a run is owed, reading or publishing), the documents left to read or to send, what was found, whether the last load failed |
| `memory` | `DocumentMemory` |
| `remembered` | the `remembered` map of `makeRevalidatePublisher`, for the root |
| `shown` | what the editor displays: it changes only when a notification is sent |
| `buffer`, `disk`, `valid`, `acts` | the editor and the file system, and a bound on their actions |
| `request` | a request's fiber between reading `registry.sessions` and scheduling |
| `early` | history: the documents a fresh session reported last before its rebuild returned |

A document's text either earns a diagnostic or not. One folder and one root: with more,
nothing is shared but the queue. The registry is reduced to what the one worker sees of
it and the scheduler to one run at a time; the modules above have the rest. A build and
the swap are one action each.

A run is many steps. `BeginRun` takes what is owed; `Read` loads one document, from the
overlay or the disk as they are at that moment, so a buffer or a file may change between
two reads and after the last; `Fail` is the load that does not come back, which is logged
and publishes nothing; `Revalidate` is the diff with the published set and its replacement,
which the code does in one step (`Ref.modify`); then each changed file is sent and
remembered, two steps which cannot be interrupted in between (`Interruptible`) but during
which other fibers run. Two sessions' runs, the old one's and the fresh one's, overlap
freely.

A request reads the live session (`Ask`) and schedules it (`RequestSchedules`) at any later
moment, on a fiber of its own: nothing in `commands.ts` 173-185 or `concepts.ts` 173-187
makes it wait for a rebuild. `rebuild`'s documentation (`registry.ts` 83-87) has its callers
schedule nothing on the fresh session until it has returned; since requests do not keep to
that, `NoneWiped`, what the rule is for, is violated (section 7). What does hold is said
modulo `early`: only a document that the fresh session was the last to report, and before
its rebuild returned, may be shown wrong or be forgotten, and only until it is reported
again. Without the exception both `NothingStranded` and `ShownIsFound` are violated.

### Server

| Model | Code |
|---|---|
| `kind`, `input`, `reads` | the client: what it sent, whether its input ended (after a message or within one), whether it still reads |
| `wire` | the reader's decode queue and the connection's message queue, both first in, first out |
| `handler[i]`, `reply[i]` | the fiber `run` forked for message i, and the write of its response |
| `work`, `slot`, `owed`, `running`, `taken` | the queue of `server.ts`, and one session's scheduler with the messages its revalidates are for |
| `drain` | the fallback fiber and the one the sentinel's handler starts |
| `outcome`, `scope` | the `done` deferred, and the scope that closes once `listen` has resolved |

`messagesInFlight` and `writesInFlight` are read off the handlers and replies. A handler's
promise and the write of its response are one step, `Respond`. The clock is reduced to
what the drains compare: the fallback's sleep ends when nothing is left to decode, or, if
`slow` was chosen, at any moment; a client that stopped reading runs into the write
timeout and one that reads does not. The code's comment on `SENTINEL_FALLBACK_TIMEOUT`
rests on decoding not being slow, so `ClosedIsDrained` and `ExitWins` speak of the other
case; under `slow` `listen` is still shown to resolve.

### Sync

| Model | Code |
|---|---|
| `tree`, `index`, `head` | the working tree, the git index, the commits on HEAD, each with the concept files and `log.md` |
| `file[c]` | a concept: its body, `integrity.generated.body` and `generated.at` |
| `log` | how often each line (day, verb, concept) stands in `log.md`, and the prose people wrote under its days; `Torn` is a text cut at another text's offsets, of whose lines nothing is said |
| `run` | one `planSync` and `applySyncPlan`: the loaded bundle, the dates it derived, the plan, the texts recorded with it, what is left to write; as history, whether it was disturbed (`calm`) and the targets that changed where it does not look (`raced`) |
| `dated` | history: which body was committed or, by a hook, staged on which day |
| `slipped` | history: the concepts whose body changed between a run's load and its walk of the history |

A run goes through `Begin` (load), `Walk` or `DateStaged`, `MakePlan`, `Snapshot`, the
prompt (`Confirm`, `Decline`), `Accept` or `Refuse`, the writes one at a time in plan order,
and in a hook `Restage`. `WriteFails` may come before any write or in place of the
restaging. People edit, add, commit with and without the hook, amend and abandon, and days
pass, between any two of these steps (`Acts`). `generatedAt` is a choice over the
history instead of a loop over blobs. Instants are days, which is what the log compares.
The indexes a run derives are in `Format`, the stamps of publications and the legacy digests
in `Stamps`, the edits of a file in `Splice`: they are functions of what was loaded and wait
for nothing. `--only` and `--log-since` are left out, and so are renames, deletions and
partially staged files.

A run misses a change in two windows: between its load and its snapshot, which is a second
read (`run.ts` 264-269), and between the comparison and a write (296-299). `Window` names
them and `raced` keeps the targets changed there. What that costs is part of the model: such
a text is overwritten, `PlanHolds` (what `run.ts` 282-284 promises) is violated (section 7),
and a log edited between the load and `syncLog` is cut at the offsets of the older text,
which leaves a text nothing is said of (`Torn`). A body that was edited after the load and is the committed
one when history is walked gets its date paired with the loaded body's digest (`slipped`).
The properties hold of everything else, whoever acts at any moment: `PlanIsFresh` and
`LogVerbatim` but for `raced` targets, `StampTrue` but for `slipped` concepts, `NamedOnce` of a
log that is not torn, `SyncSettles` and `HookIsKept` of a run that was itself `calm`, whatever
earlier runs overwrote, tore or misdated.

### Trust, Attest

| Model | Code |
|---|---|
| `disk` | what the commands read of each concept file: content, `status`, `stale_after`, `verified`, `integrity.verified`, and the keys (`odd`) whose YAML the splices refuse |
| `run` | one command: its kind and options, the time taken at its start, where it stands, the concepts it loaded, the texts it prepared, what it has written |
| `seen` | history: which actor's run loaded which content in order to attest it |
| `now`, `meddled`, `acts`, `runs` | the clock, whether somebody edited since the run began, and two bounds |

`Trust` holds the functions: evaluation of a binding, the selections of `--all`, the picker
and `stale --verify`, the drift lint. `Attest` has the commands. `Invoke` is the first load
with what it decides (a diff to confirm, rows to pick from); `Answer` and `Decline` are the
person; `Load` is the second load the prompting commands do; `Prepare` reads one file again
and computes its new text from the loaded concept, refusing the whole batch when one of the
keys cannot be located; `Write` writes one file. `WriteFails` ends a command between any two
writes. A verification is dated with the clock or with a time of `Given`, in the past or in
the future (`verify --at`); the other commands have the clock only. Editors change a content,
or add a verification by hand, at any moment. The digest
is of the content that was loaded and is spliced into the text read afterwards
(`DigestOfDisk` is the change that would break it), which is why an edit in between shows
as drift and never as a verification of something unread. `seen` is the load a run attests
from, which for a prompting command is the second one: the diff or the rows the person
answered were of the first (section 7).

### Links, Move

| Model | Code |
|---|---|
| `disk` | path to text: its references, whether it decodes as a concept, what an attestation covers |
| `move` | the command line: source, destination as spelled, working directory |
| `run` | the phase, the plan, the files left to write, the drifts announced |
| `first`, `touched`, `partial`, `runs` | history: the disk at the start, whether someone else wrote, whether an earlier try stopped half-way, and a bound |

`Links` is resolution (`ResolveTarget`, with its fallbacks: the `.md` that was left out, the
bundle root for a bare reference, a directory's index) and the rewriting of one reference. The
bundle root's own index is found only by a reference spelled `/`: one that climbs there with
`..` is normalised to `./`, of which `lookup` makes `./index.md` (`posixPath.ts` 32-33,
`links.ts` 71-88); an `Explicit` spelling begins with `./` or climbs, and never with `/`
(`references.ts` 247).
`PlanMove` has every refusal in the order of the code; then referrers are written in any
order, the moved text over its old path, and the rename. `Fail` may come before any of them.
Another person may save or delete a referrer meanwhile.

### Extension

| Model | Code |
|---|---|
| `queue`, `task` | the serial queue of `extension.ts` and the task in it, with the launches left to try |
| `live`, `watching`, `strayed` | which clients' servers run, which still have watchers, and those leaked by a `stop` that rejected |
| `client`, `watchers`, `actions`, `provider` | the extension's variables and the context key it sets |
| `requests`, `notes` | the tree's fetches in flight and the notifications under way |
| `loaded`, `owed`, `telling`, `tried` | the server: each root's sessions with their successful loads, those that owe a revalidate, those about to report one, and as history those that have had one |
| `slot`, `leaving` | a root's folder at the registry, and how far the disposal of its old session is |
| `warmed`, `stale` | the set of warmed roots; as history, those marked for a session that had been replaced by then |
| `doc`, `mail`, `memory`, `edit` | the document the user types in, its events under way, the server's copy, one edit command |

Four machines that meet: restarts (a changed setting or folder, deactivation), launches that
fail or are too old, the tree (debounce, generation, apply or drop) and the server it asks,
and an edit that awaits the actor's identity between reading the buffer and sending. A
session is numbered; its bundle is the pair of session and successful load, so a stale tree is
a visible one.

A request for the concepts reads the sessions (`ReadSessions`, one step also for the folders it
builds), and then warms root by root: it looks whether the session has a bundle (`Look`), marks
the root if it is not marked (`Mark`), schedules the session it read (`Schedule`: a closed one
takes nothing) and waits for it (`Settle`), each a step of its own. A revalidate (`Load`) may
fail, and is reported either way (`Tell`). Meanwhile a config change replaces a session, a
folder leaves or returns, and the old session's disposal goes its own way: its scope is closed
(`CloseOld`), the client told (`Dropped`), the mark forgotten (`ForgetWarmup`), and after a
rebuild the fresh session scheduled (`Reschedule`).

### The pure algorithms

`MCAlgorithms` has one variable, `case`: an algorithm about to begin, or an algorithm and an
input of it. Every input of a bounded set is a successor, and each property says of the step
that chose the input what the algorithm must return, by a definition that does not mention
how it computes it.

| Module | Translates | Property | Reference definition |
|---|---|---|---|
| `Splice` | `engine/src/edits`, `verify/locate.ts`, `verify/run.ts`, `revoke.ts`, `sync/generated.ts`: a frontmatter is a sequence of cells, an edit a replacement between two of them | `SplicesExact` | the result read back as a map: exactly the keys the command owns changed, to the value asked for, and edits of one file never overlap |
| `Format` | `core`: walk, load, decoding, reserved files, indexes | `LoadAccounts` | each file and each field is decoded, carried along or reported |
| | | `IndexesSettle` | after writing, nothing owes an index, every concept is reachable from the root, and a second derivation gives the same |
| `Lint` | `core/src/Graph.ts`, lint rules, `engine/src/validate` | `BrokenIffLost` | a reference is reported iff following it finds no file or heading |
| `Actions` | `lsp` code actions, commands and edits; identity rules | `FixesHold` | linting the text a fix leaves: the finding is gone and no other came |
| `Config`, `Profile`, `Scaffold` | configuration (schema, layers, discovery, anchors), the software-project profile, `okfit init` | `InitAgrees` | nothing is overwritten, and every later command, from anywhere it may be started, finds the project init wrote |
| | | `ScaffoldClean` | the new bundle, with or without any preset's surfaces, validates without a finding |
| `Overlay` | `engine/src/overlay`, `validate --document` | `OverlayIsSaved` | validating over documents is validating after saving them, and is refused iff they cannot be saved |
| `Query` | `engine/src/targets`, `query`, the lists' filters | `QueriesAgree` | an argument names one concept or fails; neighbors are mutual; `--drifted` divides the bundle |
| `Stamps` | `sync/generated.ts`, `publication.ts`, `Derivation.ts`, `Provenance.ts`, `Publications.ts`, `Canonical.ts` | `StampsSettle` | a second sync is a no-op, the lints agree, dates are those of the commit that introduced the body, and no stamp changes what a human attested |

A digest is the content it is of: equal digests mean equal contents. Texts are what the
algorithm looks at (cells, fields, blocks, references), never characters. References are
records of how they were spelled, so that `./`, a leading `/`, a missing `.md`, a trailing
slash and `..` beyond the root are all among the inputs.

## 4. Runs

| Run | Checks | Instance | Outcome |
|---|---|---|---|
| `scheduler_safety` | `OneRun NoGhost` | 3 chains, 3 ceilings, delay 2, maxWait 3, 2 calls per tick, runs may die | holds |
| `scheduler_promise` | `KeepsPromise SettleReturns` | 3 chains, 2 ceilings, delay 1, maxWait 2 | holds |
| `registry_safety` | `RefCount OneOwner BuilderAtWork RemovedStays` | 2 folders, 2 roots, 4 sessions, 2 fibers that may call anything and be interrupted, 3 configurations, 1 change | holds |
| `registry_liveness` | `CallsReturn ReportFollowed` | 2 folders, 1 root, a request and the queue's worker, a broken config and its repair | holds |
| `registry_fix` | `FixRecovers` | 2 folders, 2 roots, a request and the worker | violated |
| `diagnostics_safety` | `NothingStranded ShownIsFound Settles` | 1 document, 3 sessions, 4 actions of the editor or the disk, requests at any time, loads that may fail | holds |
| `server_safety` | `ExitWins ShutdownEnds` | 3 messages of any kinds, the input ending anywhere | holds |
| `sync_safety` | `StampTrue NamedOnce PlanIsFresh SyncSettles` | 2 concepts, 2 bodies, 2 days, 2 commits, 5 actions, each at any moment of a run | holds |
| `attest_safety` | `CurrentWasRead FailClosed BatchSettles RevokeUnbinds RefreshSettles` | 2 concepts, 3 people (one off the allow-list), 3 contents (one that cannot be hashed), 2 instants, one edit or one given time (in the past or the future), 2 commands | holds |
| `move_safety` | `LinksSurvive NothingLost` | 3 or 4 concepts in 3 directories beside two indexes, one or two references in every spelling, 15 command lines, 2 tries, 1 outside edit | holds |
| `extension_safety` | `OwnsWhatRuns TreeSettles WarmedUp EditLands` | 3 workspaces, 1 root, 2 fetches in flight, one of: 3 changes from any workspace, 1 change and 1 update, 2 updates, 1 change and 3 steps of the user | holds |
| `algorithms` | `SplicesExact LoadAccounts IndexesSettle FixesHold BrokenIffLost InitAgrees ScaffoldClean OverlayIsSaved QueriesAgree StampsSettle` | every input of the sets in `MCAlgorithms` | holds |

Further configurations sit beside them and are checked by hand. These hold:

| Configuration | Checks |
|---|---|
| `Server_rest.cfg` | `TypeOK ShutdownCovers ClosedIsDrained ListenEnds` |
| `Sync_rest.cfg` | `TypeOK SyncInv LogVerbatim HookIsKept` |

and these are violated, for the reasons in section 7:

| Configuration | Violated |
|---|---|
| `Scheduler_settle.cfg` | `SettleCovers` |
| `Scheduler_closed.cfg` | `SettleEnds` |
| `Diagnostics_rebuild.cfg` | `NoneWiped` |
| `Diagnostics_recover.cfg` | `BuffersCarried` |
| `Sync_stale.cfg` | `PlanHolds` |
| `Move_dotted.cfg` | `LinksSurvive`, with a dot in the destination's name |
| `Extension_safety.cfg` with `INVARIANTS StoppedIsUnreachable` | `StoppedIsUnreachable` |
| `Extension_safety.cfg` with `INVARIANTS WarmsAgain` | `WarmsAgain` |

The invariants of the proofs (`SessionInv`, `ShownInv`, `FoundInv` and the others named `...Inv`)
are checked by putting them in the place of a run's invariants; those of `Diagnostics` were
also checked with two documents and three actions.

Why the bounds are enough.

* Scheduler. Three chains can be alive at once as the slot's chain, one it superseded
  whose interrupt is still on its way, and one finalizing; a fourth would only be another
  superseded one. `MaxWait > Delay` lets the ceiling and the delay race, and two calls a
  tick let a call land between any two steps of a chain and be followed by another. When
  every chain identity is in use a schedule call waits; no property depends on it, as the
  chains in use are on their way out.
* Registry. Two fibers give every pairwise race of build, rebuild, retry, folder change
  and interrupt; the configurations let two folders share a root, part, and break. Four
  sessions cover what two fibers may hold besides what is installed. Session identities
  are recycled as soon as nothing refers to them.
* Diagnostics. Four actions allow open, config change and edits in every order around one
  rebuild, or two rebuilds with an edit in each; `acts` bounds only what the outside does, and
  requests and failing loads are not bounded at all. Documents meet in nothing but the order
  in which a run reads and sends them, and what can happen between two of them happens
  before or after the one. Three sessions are the live one, the one it replaced and one a
  request still holds. The server idles for good once the outside has stopped, hence
  `CHECK_DEADLOCK FALSE`.
* Server. Three messages make every pair of kinds meet with a third before, between or
  after them: work before a shutdown with a request in flight, two shutdowns, an exit
  behind either. The two drains are the only ones the code can start.
* Sync. Two concepts let one be stamped while the other's stamp or log entry is missing, two
  days let the log's newest day pass a concept by, and five actions are enough for a body
  to be committed, edited and committed again or amended, around hooks that fail and in either
  window of a run; runs themselves are not counted. The counts of `LogText` go to two, which
  is once too often.
* Attest. Two concepts make a batch that can fail after its first write, and two commands
  let a second one find what the first left or let one person's revocation follow another's
  verification. One concept is required to be verified and one is not; the second starts
  verified by somebody admitted, by somebody no longer admitted, or with a block that cannot
  be spliced. Two instants let entries tie and be older, and the given times are one in the past or
  present and one that the clock never reaches; one edit is enough to fall into any window,
  and a second would only move the content again.
* Move. Every pair of directories is the same, below, above or beside one another; one
  reference at a time tells every spelling apart, since rewriting treats each on its own.
  Two tries let a second command find what the first left half-done.
* Extension. Three changes give a restart waiting behind a restart and a deactivation behind
  both; the workspaces hold launches that start, fail and are outdated in every position. Two
  fetches are enough to overtake one another. Two updates are a rebuild or a folder's leaving
  with its return, an event, a failure, beside any number of loads. One root: roots share
  nothing but the set of warmed ones. The budgets are separate because a restart, a rebuild
  and an edit only meet pairwise.
* Algorithms. The inputs are small but complete in kind: every order of the keys a splice
  cares about, every shape of each value, every tree over two levels, every spelling of a
  reference, and, for what settles, every state an earlier run or a person may have left.

Every property of a passing run has a mutant in `PROJECT.json`: a change to one
definition, of the kind a bug in the code would be, which makes the run fail. The changed
definition stands before the one it replaces in the module, marked "Faulty" or named for
what it leaves out (`TakenNever`, `ShouldApplyAny`); no action uses it.

## 5. Fairness

* Scheduler: weak fairness for each chain's steps, ceilings and callers of `settle`: the
  runtime runs a ready fiber; a run ends (it is bounded work). Time goes on (`Tick`) with
  strong fairness, because schedule calls make fibers ready again and again; `MaxBurst`
  rules out infinitely many calls in one instant. Nothing makes `Schedule`, `Settle`,
  `Close` or a death happen.
* Registry: weak fairness for each fiber's next step, since reading a config and closing a
  scope end. A report is handled with strong fairness: it waits in a first-in first-out
  queue whose worker is not always free. `CallsReturn` assumes that calls stop arriving;
  `ReportFollowed` that lookups are not interrupted for ever.
* Diagnostics: weak fairness for the worker, each session's run and a request that holds a
  session: a load ends, if only by failing. `Settles` assumes requests stop asking.
* Server: weak fairness for dispatch, each handler and each write (which needs the client
  to read), the queue's worker, the scheduler, the drains and the closing of the scope. A
  handler ends: the transport does not bound it, so a request that never ends would hold
  `listen`, as the code's comment says. Nothing makes the client send, stop or end.
* Sync, Attest, Move, Extension: none. What they promise is about the state a command or a
  fetch ends in, not about its ending: a prompt may stay open for ever, and so may a fetch
  from a server that does not answer.

## 6. Proofs

Each of the eight `...Proofs` modules proves the safety properties its component's runs
check, for every value of the constants that the module's assumption allows: any number of
fibers, folders, sessions, messages, concepts and acts. The pattern is the same throughout. The module states, below its properties, what makes them inductive
(`...Inv`, under a comment that says why they hold); a first group of lemmas says what each
action does, one per action; a second that each part of the invariant survives each
action; and the temporal step is the last of each theorem. TLC checked every `...Inv` on the
runs' instances before it was proved.

| Module | Theorems | Proves |
|---|---|---|
| `SchedulerProofs` | `NeverTwoRuns NeverAGhost NeverAborted NeverDeferredLonger` | `OneRun NoGhost RunNotAborted CeilingBound` |
| | `KeepsEveryRequest` | `PromiseSafety`: `Scheduler` implements the safety part of `Coalescer`, if no run dies |
| `RegistryProofs` | `CountExact SessionOwned BuilderNeverLost RemovedNeverReturns` | `RefCount OneOwner BuilderAtWork RemovedStays` |
| `DiagnosticsProofs` | `NothingIsStranded ShowsWhatIsFound BuffersAreCarried` | `NothingStranded ShownIsFound BuffersCarriedWhileValid` |
| `ServerProofs` | `ExitIsNeverLost ShutdownCoversWhatWasSent ClosedMeansDrained` | `ExitWins ShutdownCovers ClosedIsDrained` |
| `SyncProofs` | `NamesAreSingle StampsAreTrue FreshWhenWritten` | `NamedOnce StampTrue PlanIsFresh` |
| | `ProseIsKept HooksAreKept RunsSettle` | `LogVerbatim HookIsKept SyncSettles` |
| `AttestProofs` | `CurrentIsRead RefusedWritesNothing RevocationUnbinds` | `CurrentWasRead FailClosed RevokeUnbinds` |
| | `BatchesSettle RefreshesSettle` | `BatchSettles`; `RefreshSettles`, if `Period # 0` |
| `MoveProofs` | `LosesNothing ReportsEveryDrift` | `NothingLost DriftsReported` |
| | `KeepsEveryLink` | `LinksSurvive`, if `Plain` and `~partial` |
| `ExtensionProofs` | `RunsOnlyWhatItOwns TreeShowsTheServer TreeIsWarm EditsLandOnTheirText` | `OwnsWhatRuns TreeSettles WarmedUp EditLands` |

`Scheduler`, `Registry`, `Diagnostics`, `Server` and `Sync` also have `TypeCorrect`.

### The arguments

* Scheduler. `SlotInv`: the slot names a fiber exactly when it is taken; only that fiber can
  be running; a chain whose run ended has let go of it; and while the scope is open that
  fiber is where the slot's phase says and has no interrupt on its way. None of `OneRun`,
  `NoGhost`, `RunNotAborted` is inductive alone: each needs that the claim, the reset and the
  replacement act on the slot's own chain. For `CeilingBound`, `CycleCounts`: a pending slot's
  cycle is counting or has fired, and age plus what is left never exceeds `MaxWait`; it has
  to know that a chain whose run ended is of another cycle, or its `Finalize` could stop
  the count. The refinement maps what is owed to the slot's tier merged with a rerun that
  was taken and not yet scheduled. `PromiseInv` carries that at most one chain has taken one,
  and that until it has scheduled it no other chain claims. One lemma per action then maps
  it to an action of `Coalescer` or to a stutter.
* Registry. `CountInv`: besides the exact count, that an entry holds a session, and that a
  rebuild about to swap has the root and the session it read and a fresh one for each root
  it resolved: a swap makes entries from what the fiber holds. `OwnerInv` adds who holds a
  session that no entry has: the one fiber that made it and has not installed it, or will
  dispose of it. `BuildInv`: each placeholder is its builder's, who is at work on that folder,
  and a waiting fiber waits for one that is.
* Diagnostics. `SessionInv`: only the live session exists and, during a rebuild, the one it
  replaces; both may publish then. `ShownInv`: what the editor displays is what the session
  that publishes has told it, but for what it has in hand or yet to send, and all that the
  fresh one publishes during a rebuild is `early`; it is what `NothingStranded` lacks, because
  a send and its remembering are two steps. `FoundInv`: a session that owes no run has published
  what it finds or, while its last run reads, has found it of each document read so far, unless
  the run fails: whatever changes a text afterwards owes a run or is queued. `CarriedInv`: memory
  is behind the buffers by what is queued, the session behind the memory only within a
  rebuild. It needs a config that loads (`[]valid`), which is the property's own premise.
* Server. `WireInv`, `HandlerInv`, `WorkInv`: dispatch, the start of handlers and the queue keep
  the order of sending, so each message finds what was sent before it already there; `DrainInv`:
  nothing enters the reader behind the sentinel, so a drain that saw it empty stays right.
* Sync. `HistoryInv`: every commit's body was brought by some commit since which it did not
  change, and the day is in the history; `DatesInv`: tree, provenance and plan carry such
  days only, but of concepts that slipped; `NamedInv`: a merge adds what the loaded log
  does not name, and once; `RaceInv`: what was planned from, compared with and written over is
  one text, but of targets that were raced. `CourseInv` follows a run nobody
  disturbs: its provenance is still what a new walk would find, its plan leaves nothing out
  (`Complete`), the tree is the loaded one with what has been written, and a hook stages each
  write. `RunsSettle` then needs that a log that has more names wants less. None of them
  assumes anything of when files change.
* Attest. `ReadInv`: a binding on disk or in a prepared text names an actor whose run loaded
  that content. `ClosedInv`: refusals come before writes. `SettleInv`: nothing undisturbed is left
  out, and what is prepared is what the command promises, as far as no entry of the concept is
  later than the command (`Dated`), and what is written keeps a list a list (`ListsInv`). That a
  list with entries of a kind has a last one of them (`LastPlace`) is an
  induction, put as a least element.
* Move. `MoveInv`: until the rename every path has the text it had, some already rewritten,
  and the destination is free. `DriftInv`: the drifts announced are those of what is planned.
  `LinkInv`: each planned text has every reference rewritten as seen from the first disk, to a
  path of the bundle that is free there, and each file is as it was or as planned. The rest is
  about one reference (`Rewrites`): whichever of the three ways it was read, its new spelling is
  read as the file it named. For a relative one that is the algebra of `Normal` and `Relative`
  (`WayLeadsThere`: the way from a directory to another, of which any part may be shared,
  normalises to the other), by the same least-element induction on the segments (`UpTo`);
  `DestinationIsPath` has it that what the command line names is inside the bundle. The
  condition `Plain` is that a reference without `.md` reaches the destination (section 7). What
  `LinksSurvive` says after a run that had stopped midway is model-checked and not proved.
* Extension. `RestartInv` (client and watchers are one, and what runs is settled by where the
  task is), `TreeInv` (unless a refresh is due, the latest fetch will show what the server
  holds), `WarmInv` (a mark is forgotten with the session it was made for, and until a cold
  session is scheduled a fetch is at it, unless the root was marked for a session replaced by
  then), `EditInv` (until the document is closed a version names one text, in the buffer, on
  its way and at the server).

### What the proofs assume of the constants

`SchedulerAssumption`, `RegistryAssumption`: identities differ from the values that stand for
none; delays are positive. `DiagnosticsAssumption`: sessions differ from the folder's other
states. `ServerAssumption`, `IdsAssumption`: types. `MoveAssumption`: paths and references have
their fields, a path's directories are names other than `..`, and the bundle's own
directory is not called `..`. `SyncAssumption`, `LogAssumption`: there is a first day, and
`log.md`, a reserved name, is no concept.
`BundlesAssumption`: a bundle is a concept for each id, whose verified entries are a list.
`PeopleAssumption`: nobody has the name that stands for nobody. `PeriodAssumption`: a period is a
number of days, possibly none. `GivenAssumption`: given times are times. TLC evaluates each of
them in the runs.

### Only model-checked

* Liveness: `SettleReturns`, `CallsReturn`, `ReportFollowed`, `Settles`, `ShutdownEnds`, `ListenEnds`,
  and the fairness in `KeepsPromise`. TLAPS does not reason about `ENABLED`, hence not about
  weak and strong fairness.
* The properties of the algorithms, over the inputs of `MCAlgorithms`. Most fold over a
  sequence with an operator (`FoldLeft`, `SelectSeq`): the induction theorems of the library
  take an operator as a parameter, which the provers cannot instantiate. Where the
  induction can be put as the least element of a set it can be done, as in `LastPlace`
  and, for a recursive function over a sequence, in `UpTo`.

## 7. What the code does otherwise than it says

Shown by a run or a configuration:

1. A folder whose config is fixed while a request's build has read the broken one stays
   failed (`registry_fix`) until a document under it is opened or saved.
2. `settle` may return with work outstanding (`Scheduler_settle.cfg`): a run's end writes the
   slot idle (`scheduler.ts` 166, 240) and the rerun it took is scheduled only afterwards; a
   `settle` that reads in between returns. This is at the granularity of the runtime's
   effects: the fiber has to be descheduled between the two.
3. `settle` on a closed scope may never return (`Scheduler_closed.cfg`): a chain interrupted
   before it started has no finalizer, the slot keeps naming it, and the loop awaits a
   fiber that is over, again and again.
4. A revalidate that a request schedules on the fresh session during a rebuild is wiped by
   the disposal of the old one and not sent again (`Diagnostics_rebuild.cfg`, `registry.ts`
   486 against the rule of 83-87, which `commands.ts` 173-185 and `concepts.ts` 173-187 do
   not keep); the old session's send and the fresh one's for one document may also interleave
   so that the memory they share says the opposite of what is displayed. The model has no
   clock; in the code the old session's disposal has to outlast the scheduler's delay.
5. A session that a retry builds after its config failed does not get the open buffers,
   and events that arrive while it fails are not remembered (`Diagnostics_recover.cfg`,
   `diagnostics.ts` 223 against 31-38).
6. A command can reach the client while it is being stopped (`StoppedIsUnreachable`):
   `extension.ts` clears `client` at 187, after the wait, where the comment at 178 says it
   is done up front.
7. A reference written without `.md` breaks when its target moves to a name that holds a dot
   (`Move_dotted.cfg`): the rewriting keeps the dropped `.md`, as `references.ts` 219-221 says
   it does, and the new spelling, `v1.2`, then counts as a file with an extension. It breaks in the
   same way when the destination's directory holds a file of its name without an extension
   (`c` beside `c.md`), which `lookup` (`links.ts` 81-88) prefers; the theorem's `Plain` names
   both.
8. A sync overwrites an edit made between its load and its snapshot (`Sync_stale.cfg`,
   `PlanHolds`): `applySyncPlan` fails if a target differs "from what planSync saw" (`run.ts`
   282-284), but what it compares with is read at 264-269, after the plan was computed from
   the earlier load. An edit of the log there is worse: the merge is cut at the offsets of the
   text that was loaded. The comparison at 296 and the write at 299 leave a second, shorter
   window, which no comparison can close.
9. A root can stay cold after its folder left and returned (`WarmsAgain`): a request reads a
   session, the folder leaves and its mark is forgotten, the request marks the root and
   schedules the closed session, which takes nothing; the folder returns, and the next
   request finds the mark and schedules nothing, where `concepts.ts` 114-119 says that a root
   whose folder went away and came back gets a fresh attempt. A document event or a rebuild
   ends it.

Left out of a property, which names the exclusion in its comment or guard:

* `NothingStranded`, `ShownIsFound`, documents reported by a fresh session before its rebuild
  returned (`early`, item 4), and what a session finds after its last load failed:
  `diagnostics.ts` 101-107 logs the failure, publishes nothing and owes nothing.
* `StampTrue`, a concept whose body changed between a run's load and its walk of the history
  (`slipped`); `PlanIsFresh`, `LogVerbatim`, a target that changed in one of the windows of
  item 8 (`raced`); `NamedOnce`, `SyncSettles`, and what `HookIsKept` says of the log, one that was torn there.
* `WarmedUp`, roots marked for a session that had been replaced by then (`stale`, item 9). A
  revalidate that failed counts as the attempt: the mark stays, and nothing tries again before
  an event or a rebuild.
* `EditLands`, a document closed and opened again (its versions start over, so an equal
  version may be another text) and a document that is not open (the edit carries no version
  and is applied to whatever is there, `edits.ts` 318-327).
* `OwnsWhatRuns`, a candidate whose own `stop` rejects while the next one is tried
  (`client.ts` 205): its two watchers stay.
* `CurrentWasRead` is about the load a command attests from. A prompting command loads twice
  (`seen` is the second), and nothing compares that with what the person was shown.
* `RefreshSettles`, another person's entry as recent as the refresh: it is later in the list
  and wins the tie. Here and in `BatchSettles`, an entry dated after the command, by hand or
  with `--at`: it stays the latest, so a later batch without `--at` does not settle that
  concept however often it is run. And a period of nothing (`0d`, which `OkfitConfig.test.ts` 19
  accepts) leaves a concept stale the moment it was refreshed; the theorem names it as its
  condition. Likewise, revoking a verification added by hand may make an older binding current
  again.
* `LinksSurvive`, after a move that stopped among its referrers (`partial`): a reference already
  rewritten names nothing before the rename, or another file of the new name, and the moved
  file's own references are then read from its old place. So a second run mends the other
  concepts' references when no other file has the new name (`Unused`), and nothing else is
  promised. A reference to something outside the bundle that ends in a slash loses its last
  directory when it is rewritten (`references.ts` 285); `LinksSurvive` is about references that
  name a file of the bundle.
* `IndexesSettle`, a directory that holds only an index below a parent without concepts: it
  is linked to through a parent index that nobody writes (`Derive.ts` 162-177, `sync/index.ts`
  63-72).
* `BrokenIffLost`, a missing target spelled like a concept's id: it becomes that concept's node
  in the graph and is not reported (`Graph.ts` 208-227). `lintResources` knows no `.md`
  fallback although the graph does.
* `FixesHold`, verifications dated in the future, which no fix can supersede.
* `InitAgrees`, a malformed personal file, which fails a command whose project file is fine,
  and the start from a subdirectory of a configured project: `init` leaves out the discovered
  directory (`init.ts` 183-190 against `anchor.ts` 72-78) and scaffolds where it stands. What
  it validates is read under the configuration found before it wrote one.
* `OverlayIsSaved`, a directory that exists and cannot be listed: the comment at `documents.ts`
  72-74 counts it as none, but `exists` and `stat` (75-82) succeed on it. `Overlay` follows the
  code, to which a directory is there or not.
* `QueriesAgree`, a concept whose name itself ends in `.md`: its id is normalised twice
  (`resolve.ts` 107, `ConceptQuery.ts` 50).
* `StampsSettle`, a garbled `integrity` block beside a legacy digest: it takes two runs
  (`generated.ts` 235-243). Outside a repository one concept without a recorded digest
  suppresses the drift found for the others (`Provenance.ts` 130), while lines 20-33 say that
  digests are compared without git. `Publications.resolveRef` drops a leading slash.

Three more limits of what the properties say. That a scheduler's interrupt is forked and not
awaited under the permit is how the model is written (`Replace`), not something it checks.
`RemovedStays` is about a folder that was removed, not about one added again while its old
build runs: there `OneOwner` and `BuilderAtWork` are what is known. And that the end of the
input cuts off no reply is `ClosedIsDrained`, proved and in `Server_rest.cfg`.

After a restart that failed, the context key `okfit.hasBundle` and the tree's decorations keep
what they had; neither is part of the model.

## 8. Not modelled

* Not at all: the external tools and text output of `context`, `graph` and `render`, the hooks
  and plugin, the documentation, website and generated schemas. They keep no state, and no
  property here would be about them.
* Of the language server: hover, inlay hints, navigation, symbols, positions, the decoding of
  `didChange`, notifications the server sends unasked, and `main.ts`.
* Of the engine: `--only`, `--log-since`, symbolic links, renames and partially staged files in
  git, histories with merges, suggestions, paging, and the search for an edit's offsets: a
  frontmatter is cells, so indentation, quotes, newlines and byte-order marks are abstracted.
* Of the configuration: durations, the platform's environment variables, `config-unknown-key`
  and the actor lints on its entries. Undeclared nested keys are stripped on decoding, as in
  the code.
* Of the extension: labels, decorations, the status bar and quick picks.

Logging and wording are left out everywhere.
