------------------------------- MODULE Attest -------------------------------
(***************************************************************************)
(* `okfit verify`, `verify --revoke` and `stale --verify`                  *)
(* (engine/src/verify/run.ts, revoke.ts, cli/src/commands/verify.ts,       *)
(* verify-confirm.ts, verify-picker.ts, stale-verify.ts) over the files of *)
(* a bundle, while people edit them.  A run loads the bundle, perhaps      *)
(* twice, prepares every new text from what it reads of the file then, and *)
(* writes one file at a time without looking at it again.                  *)
(***************************************************************************)
EXTENDS Trust

CONSTANTS Ids, Contents, Period,
          Bundles,                      \* the bundles a command may find
          Given,                        \* the times `verify --at` may be given
          MaxTime, MaxActs, MaxRuns    \* bounds of the model

(* What of a concept file a run reads or writes. *)
IsConcept(c) ==
  c = [type |-> c.type, content |-> c.content, status |-> c.status, stale |-> c.stale, odd |-> c.odd,
       verified |-> c.verified, binding |-> c.binding]

IsEntry(e) == e = [by |-> e.by, at |-> e.at] /\ e.at \in Nat
IsList(es) == es \in Seq(ToSet(es)) /\ \A e \in ToSet(es) : IsEntry(e)

(* Ids are the concepts of a bundle, numbered in the order of their paths. *)
ASSUME IdsAssumption == Ids \subseteq Nat /\ IsFiniteSet(Ids)
ASSUME BundlesAssumption ==
  \A b \in Bundles : b = [id \in Ids |-> b[id]] /\ \A id \in Ids : IsConcept(b[id]) /\ IsList(b[id].verified)
(* No person has the name that stands for nobody; a period may be nothing (`0d`). *)
ASSUME PeopleAssumption == NoBinding.by \notin Humans
ASSUME PeriodAssumption == Period \in Nat
ASSUME GivenAssumption == Given \subseteq Nat

VARIABLES disk,    \* the concept files; `odd` holds the keys whose YAML shape splicing refuses
          now,     \* the clock
          run,     \* the command in progress, or the last one
          seen,    \* history: <<actor, concept, content>> a run of the actor loaded to attest
          meddled, \* history: a file was edited since the run began
          acts,    \* edits made and times given so far
          runs

vars == <<disk, now, run, seen, meddled, acts, runs>>

Idle == [kind |-> "none", actor |-> "nobody", phase |-> "ended", outcome |-> "none", dry |-> FALSE,
         at |-> 0, status |-> "keep", all |-> FALSE, rows |-> {}, drafts |-> {}, targets |-> <<>>,
         loaded |-> <<>>, todo |-> <<>>, prepared |-> <<>>, written |-> {}]

Attesting == {"verify", "ids", "batch", "pick", "stale"}
InOrder(S) == [i \in 1 .. Cardinality(S) |-> CHOOSE id \in S : Cardinality({j \in S : j <= id}) = i]

----------------------------------------------------------------------------
(* What one file becomes. *)

(* The entry is appended, or with a refresh the actor's last entry is given *)
(* the new time; what is spliced is decided by the loaded concept, what it  *)
(* is spliced into is the text read just now.                               *)
Entries(text, concept, r) ==
  LET own == Own(text, r.actor)
      last == CHOOSE i \in own : \A j \in own : j <= i
  IN IF r.kind = "stale" /\ Own(concept, r.actor) # {} /\ own # {}
     THEN [text.verified EXCEPT ![last].at = r.at]
     ELSE Append(text.verified, [by |-> r.actor, at |-> r.at])

NewStatus(text, concept, r) ==
  CASE r.status = "promote" -> IF concept.status = "draft" THEN "stable" ELSE text.status
    [] r.status = "keep" -> text.status
    [] OTHER -> IF concept.status # r.status THEN r.status ELSE text.status

Refreshes(concept, r) == r.kind = "stale" /\ concept.stale # Never

DigestOfDisk(text, concept) == text.content
Digest(text, concept) == concept.content

Bind(text, concept, r) == [by |-> r.actor, at |-> r.at, content |-> Digest(text, concept)]

NewStaleRolled(concept, r) == concept.stale + Period
NewStale(concept, r) == r.at + Period

Attested(text, concept, r) ==
  [text EXCEPT !.verified = Entries(text, concept, r),
               !.status = NewStatus(text, concept, r),
               !.stale = IF Refreshes(concept, r) THEN NewStale(concept, r) ELSE @,
               !.binding = Bind(text, concept, r)]

(* The keys verify must be able to locate; any other shape fails the run. *)
Located(text, concept, r) ==
  {"verified", "integrity"}
    \cup (IF NewStatus(text, concept, r) # text.status THEN {"status"} ELSE {})
    \cup (IF Refreshes(concept, r) THEN {"stale_after"} ELSE {})

CanAttest(text, concept, r) ==
  concept.content \notin Unhashable /\ Located(text, concept, r) \cap text.odd = {}

(* Every entry of the actor goes, and the binding only if it is the actor's. *)
UnboundKept(text, a) == text.binding
Unbound(text, a) == IF text.binding.by = a THEN NoBinding ELSE text.binding
Without(entries, a) ==
  LET kept == InOrder({i \in DOMAIN entries : entries[i].by # a})
  IN [k \in DOMAIN kept |-> entries[kept[k]]]
Revoked(text, a) == [text EXCEPT !.verified = Without(@, a), !.binding = Unbound(text, a)]

CanRevoke(text, a) ==
  text.odd \cap {"verified", "integrity"} = {} /\ Own(text, a) # {}

----------------------------------------------------------------------------
(* The command. *)

Fresh(kind, a, dry, at) ==
  [Idle EXCEPT !.kind = kind, !.actor = a, !.dry = dry, !.at = at, !.phase = "load"]

Start(r) ==
  /\ acts' = acts + (IF r.at = now THEN 0 ELSE 1) /\ acts' <= MaxActs
  /\ run' = r /\ runs' = runs + 1 /\ meddled' = FALSE
  /\ UNCHANGED <<disk, now, seen>>

(* The verifier is the git identity, which the allow-list must admit. *)
Persons == {a \in Humans : Allowed(a)}

(* One target: a drifted one is shown and confirmed first, unless the run is *)
(* not interactive, shows no diff or writes nothing.                         *)
InvokeVerify(a, id, status, ask, at) ==
  Start([Fresh("verify", a, FALSE, at) EXCEPT
           !.status = status, !.targets = <<id>>, !.rows = {id},
           !.phase = IF ask /\ Drifted(disk[id]) THEN "ask" ELSE "load"])
InvokeIds(a, ids, dry, at) == Start([Fresh("ids", a, dry, at) EXCEPT !.targets = ids])
InvokeBatch(a, all, dry, at) == Start([Fresh("batch", a, dry, at) EXCEPT !.all = all])
InvokeRevoke(a, ids) == Start([Fresh("revoke", a, FALSE, now) EXCEPT !.targets = ids])

(* The picker over what the actor has not attested, or over what is stale; *)
(* the time recorded is that of the call, taken before the person picks.   *)
InvokePicker(a, kind, at) ==
  LET rows == IF kind = "stale" THEN StaleRows(disk, now) ELSE PickerRows(disk, a) IN
  Start([Fresh(kind, a, FALSE, at) EXCEPT
           !.rows = rows, !.drafts = {id \in rows : disk[id].status = "draft"},
           !.phase = IF rows = {} THEN "ended" ELSE "ask"])

(* `verify` records the time --at gives it, past or future, or else the clock's. *)
Invoke ==
  /\ run.phase = "ended" /\ runs < MaxRuns
  /\ \E a \in Persons :
       \/ \E at \in {now} \cup Given :
            \/ \E id \in Ids, status \in {"keep", "stable", "draft"}, ask \in BOOLEAN :
                 InvokeVerify(a, id, status, ask, at)
            \/ \E ids \in SetToSeqs(Ids), dry \in BOOLEAN : InvokeIds(a, ids, dry, at)
            \/ \E all, dry \in BOOLEAN : InvokeBatch(a, all, dry, at)
            \/ InvokePicker(a, "pick", at)
       \/ \E S \in SUBSET Ids \ {{}} : \E ids \in SetToSeqs(S) : InvokeRevoke(a, ids)
       \/ InvokePicker(a, "stale", now)

Step(r) == run' = r /\ UNCHANGED <<now, meddled, acts, runs>>
End(outcome) ==
  Step([run EXCEPT !.phase = "ended", !.outcome = outcome, !.rows = {}, !.drafts = {},
                   !.loaded = <<>>, !.todo = <<>>, !.prepared = <<>>])

Answer ==
  /\ run.phase = "ask"
  /\ \E S \in SUBSET run.rows \ {{}}, promote \in BOOLEAN :
       /\ promote => S \cap run.drafts # {}
       /\ Step([run EXCEPT !.phase = "load", !.targets = InOrder(S),
                           !.status = IF promote THEN "promote" ELSE @])
  /\ UNCHANGED <<disk, seen>>

Decline == run.phase = "ask" /\ End("declined") /\ UNCHANGED <<disk, seen>>

(* The bundle is loaded anew, whatever an earlier load offered. *)
Load ==
  /\ run.phase = "load"
  /\ LET ids == IF run.kind = "batch"
                THEN InOrder(Attestable(disk, Required, run.all, run.actor))
                ELSE run.targets
     IN /\ Step([run EXCEPT !.phase = "prepare", !.loaded = disk, !.targets = ids, !.todo = ids])
        /\ seen' = IF run.kind \in Attesting
                   THEN seen \cup {<<run.actor, ids[i], disk[ids[i]].content>> : i \in DOMAIN ids}
                   ELSE seen
  /\ UNCHANGED disk

CanPrepare(id) ==
  IF run.kind = "revoke" THEN CanRevoke(disk[id], run.actor)
  ELSE CanAttest(disk[id], run.loaded[id], run)
Text(id) ==
  IF run.kind = "revoke" THEN Revoked(disk[id], run.actor)
  ELSE Attested(disk[id], run.loaded[id], run)

(* The slip of writing each file as it is prepared. *)
PrepareEager ==
  /\ run.phase = "prepare" /\ run.todo # <<>> /\ UNCHANGED seen
  /\ LET id == Head(run.todo) IN
       IF CanPrepare(id)
       THEN /\ Step([run EXCEPT !.todo = Tail(@), !.written = @ \cup {id}])
            /\ disk' = [disk EXCEPT ![id] = Text(id)]
       ELSE End("refused") /\ UNCHANGED disk

(* Each file is read again and its new text computed; one that cannot be *)
(* spliced fails the run.                                                *)
Prepare ==
  /\ run.phase = "prepare" /\ run.todo # <<>>
  /\ LET id == Head(run.todo) IN
       IF CanPrepare(id)
       THEN Step([run EXCEPT !.todo = Tail(@), !.prepared = Append(@, [id |-> id, text |-> Text(id)])])
       ELSE End("refused")
  /\ UNCHANGED <<disk, seen>>

Prepared ==
  /\ run.phase = "prepare" /\ run.todo = <<>>
  /\ IF run.dry THEN End("ok") ELSE Step([run EXCEPT !.phase = "write"])
  /\ UNCHANGED <<disk, seen>>

(* One atomic write at a time, over whatever the file holds by now. *)
Write ==
  /\ run.phase = "write" /\ run.prepared # <<>>
  /\ LET w == Head(run.prepared) IN
       /\ disk' = [disk EXCEPT ![w.id] = w.text]
       /\ Step([run EXCEPT !.prepared = Tail(@), !.written = @ \cup {w.id}])
  /\ UNCHANGED seen

WriteFails == run.phase = "write" /\ run.prepared # <<>> /\ End("failed") /\ UNCHANGED <<disk, seen>>
Done == run.phase = "write" /\ run.prepared = <<>> /\ End("ok") /\ UNCHANGED <<disk, seen>>

----------------------------------------------------------------------------
(* People: an editor that changes content, or adds an entry by hand. *)

Touch(id, text) ==
  /\ acts < MaxActs /\ acts' = acts + 1
  /\ disk' = [disk EXCEPT ![id] = text]
  /\ meddled' = TRUE
  /\ UNCHANGED <<now, run, seen, runs>>

Edit(id) == \E c \in Contents \ {disk[id].content} : Touch(id, [disk[id] EXCEPT !.content = c])
HandVerify(id) ==
  \E a \in Humans : Touch(id, [disk[id] EXCEPT !.verified = Append(@, [by |-> a, at |-> now])])

Tick == now < MaxTime /\ now' = now + 1 /\ UNCHANGED <<disk, run, seen, meddled, acts, runs>>

Init ==
  /\ disk \in Bundles
  /\ now = 1 /\ run = Idle /\ meddled = FALSE /\ acts = 0 /\ runs = 0
  /\ seen = {<<disk[id].binding.by, id, disk[id].binding.content>> : id \in {i \in Ids : disk[i].binding # NoBinding}}

Next ==
  \/ Invoke
  \/ Answer
  \/ Decline
  \/ Load
  \/ Prepare
  \/ Prepared
  \/ Write
  \/ WriteFails
  \/ Done
  \/ \E id \in Ids : Edit(id)
  \/ \E id \in Ids : HandVerify(id)
  \/ Tick

Spec == Init /\ [][Next]_vars

----------------------------------------------------------------------------
Dated(es, t) == \A e \in ToSet(es) : e.at <= t   \* no entry is later than t

(* Every file keeps the shape of a concept, and a run that ended holds no plan. *)
TypeOK ==
  /\ \A id \in Ids : /\ disk[id].content \in Contents
                     /\ disk[id].status \in {"draft", "stable", "deprecated"}
                     /\ disk[id].binding = NoBinding \/ disk[id].binding.by \in Humans
                     /\ \A i \in DOMAIN disk[id].verified : disk[id].verified[i].by \in Humans
  /\ run.phase = "ended" => run.prepared = <<>> /\ run.todo = <<>>

(* What reads as a current verification was read for attestation by a run of *)
(* the person it names: an edit between the load and the reading back of the *)
(* file is spliced around, and leaves the concept drifted (run.ts:131, 148). *)
CurrentWasRead ==
  \A id \in Ids : Evaluate(disk[id]) = "current" =>
    <<disk[id].binding.by, id, disk[id].content>> \in seen

(* A run refused for one of its concepts has written none of them (run.ts:538-549). *)
FailClosed == run.outcome = "refused" => run.written = {}

(* A batch that went through undisturbed leaves nothing for the next one, and *)
(* nothing for the verified-drift lint, whose remedy it is: also after an     *)
(* earlier one failed half way; only a concept with an entry dated after the  *)
(* run (by --at, then or now) is left (select.ts:44-68, Trust.ts:195-222).    *)
BatchSettles ==
  (run.kind = "batch" /\ run.all /\ run.outcome = "ok" /\ ~run.dry /\ ~meddled) =>
    \A id \in Attestable(disk, Required, TRUE, run.actor) \cup LintDrift(disk) :
      ~Dated(disk[id].verified, run.at)

(* A revocation that went through undisturbed leaves no trace of the actor in *)
(* its concepts, in the list or in the binding (run.ts:388-447).              *)
RevokeUnbinds ==
  (run.kind = "revoke" /\ run.outcome = "ok" /\ ~meddled) =>
    \A i \in DOMAIN run.targets :
      LET c == disk[run.targets[i]] IN
        Own(c, run.actor) = {} /\ c.binding.by # run.actor

(* What a refresh went through is no longer stale at the time it recorded and *)
(* is attested by its actor, unless an entry is later than that time, or      *)
(* another person's is as recent: the refreshed one keeps its place in the    *)
(* list and loses the tie (run.ts:151-161, stale-verify.ts:30-43).            *)
RefreshSettles ==
  (run.kind = "stale" /\ run.outcome = "ok" /\ ~meddled) =>
    \A i \in DOMAIN run.targets :
      LET c == disk[run.targets[i]] IN
        /\ ~IsStale(c, run.at)
        /\ Dated(c.verified, run.at) /\ (\A e \in ToSet(c.verified) : e.by # run.actor => e.at < run.at)
             => AttestedBy(c, run.actor)

----------------------------------------------------------------------------
(* Why what is current was read: what binds a concept, on disk or prepared, *)
(* was read by the person it names, and so was what a run is to attest.     *)
Kinds == Attesting \cup {"revoke"}
IsRun(r) ==
  r = [kind |-> r.kind, actor |-> r.actor, phase |-> r.phase, outcome |-> r.outcome, dry |-> r.dry,
       at |-> r.at, status |-> r.status, all |-> r.all, rows |-> r.rows, drafts |-> r.drafts,
       targets |-> r.targets, loaded |-> r.loaded, todo |-> r.todo, prepared |-> r.prepared,
       written |-> r.written]
IsPrepared(w) == w = [id |-> w.id, text |-> w.text] /\ w.id \in Ids /\ IsConcept(w.text)
RunType ==
  /\ IsRun(run)
  /\ run.phase \in {"ask", "load", "prepare", "write", "ended"}
  /\ run.phase # "ended" => run.kind \in Kinds
  /\ run.rows \subseteq Ids
  /\ run.targets \in Seq(Ids) /\ run.todo \in Seq(Ids)
  /\ run.prepared \in Seq(ToSet(run.prepared)) /\ \A w \in ToSet(run.prepared) : IsPrepared(w)
DiskType == disk = [id \in Ids |-> disk[id]] /\ \A id \in Ids : IsConcept(disk[id])
WasRead(id, c) == c.binding = NoBinding \/ <<c.binding.by, id, c.binding.content>> \in seen
ReadInv ==
  /\ RunType /\ DiskType
  /\ \A id \in Ids : WasRead(id, disk[id])
  /\ \A w \in ToSet(run.prepared) : WasRead(w.id, w.text)
  /\ run.kind \in Attesting =>
       \A i \in 1 .. Len(run.todo) : <<run.actor, run.todo[i], run.loaded[run.todo[i]].content>> \in seen

(* Why a refused run has written nothing: refusals come before the writes. *)
ClosedInv ==
  /\ run.phase \in {"ask", "load", "prepare"} => run.written = {}
  /\ run.outcome = "refused" => run.phase = "ended" /\ run.written = {}

(* Why an undisturbed command reaches its end: what it has yet to write is   *)
(* what it loaded, what it prepared or wrote is what it promises of a target *)
(* (where no entry is later than its time), and every target is among these; *)
(* a batch leaves out nothing that it would take.                            *)
Promised(c, r) ==
  CASE r.kind = "revoke" -> Own(c, r.actor) = {} /\ c.binding.by # r.actor
    [] r.kind = "batch" -> Dated(c.verified, r.at) => AttestedBy(c, r.actor)
    [] r.kind = "stale" ->
         /\ Period # 0 => ~IsStale(c, r.at)
         /\ Dated(c.verified, r.at) /\ (\A e \in ToSet(c.verified) : e.by # r.actor => e.at < r.at)
              => AttestedBy(c, r.actor)
    [] OTHER -> TRUE

OptionsInv ==
  /\ now \in Nat /\ run.at \in Nat
  /\ run.kind \in Kinds => run.actor \in Persons
  /\ run.kind \in {"revoke", "stale"} => ~run.dry

ListsInv ==
  /\ \A id \in Ids : IsList(disk[id].verified)
  /\ \A w \in ToSet(run.prepared) : IsList(w.text.verified)

Loaded == run.phase \in {"prepare", "write"}
Unwritten == {w.id : w \in ToSet(run.prepared)}
CourseInv ==
  /\ run.outcome = "ok" => run.phase = "ended" /\ run.kind \in Kinds
  /\ ~meddled =>
       /\ Loaded => \A id \in Ids \ run.written : disk[id] = run.loaded[id]
       /\ \A w \in ToSet(run.prepared) : Promised(w.text, run)
       /\ \A id \in run.written : id \in Ids /\ Promised(disk[id], run)
       /\ Loaded => ToSet(run.targets) \subseteq ToSet(run.todo) \cup Unwritten \cup run.written
       /\ run.phase = "write" => run.todo = <<>>
       /\ run.outcome = "ok" /\ ~run.dry => ToSet(run.targets) \subseteq run.written
       /\ (run.kind = "batch" /\ run.all /\ (Loaded \/ run.outcome = "ok")) =>
            Attestable(disk, Required, TRUE, run.actor) \subseteq ToSet(run.targets) \cup run.written
SettleInv == OptionsInv /\ ListsInv /\ CourseInv
=============================================================================
