-------------------------------- MODULE Stamps --------------------------------
(***************************************************************************)
(* The digests a bundle carries of itself: what `okfit sync` stamps        *)
(* (engine/src/sync/generated.ts, publication.ts), when it says a body was *)
(* last changed (profiles/src/Derivation.ts, GitHistory.ts), what the two  *)
(* lints make of it (Provenance.ts, Publications.ts), and the content a    *)
(* human verification binds (Canonical.ts).  A digest is the body it was   *)
(* computed from; 0 is none, as it is for a date.                           *)
(***************************************************************************)
EXTENDS Links

(* A concept: authored keys, body, its `generated` and `integrity` blocks    *)
(* (garbled: one that does not decode and reads as absent), what a           *)
(* Publication names, and the keys whose shape cannot be spliced.            *)
NoBlock == [by |-> "nobody", at |-> 0, legacy |-> 0]
Malformed == [list |-> FALSE, entries |-> <<>>]
Renders(entries) == [list |-> TRUE, entries |-> entries]

RecordedBody(c) == IF c.stamp # 0 /\ ~c.garbled THEN c.stamp ELSE c.generated.legacy
StripNothing(renders) == renders
StripRendersDigests(renders) == [renders EXCEPT !.entries = [i \in DOMAIN @ |-> @[i].ref]]
ContentInput(c) == [type |-> c.type, words |-> c.words, surface |-> c.surface, body |-> c.body,
                    renders |-> StripRendersDigests(c.renders)]

----------------------------------------------------------------------------
(* Derivation.generatedAt, over what git answers for a file: whether there  *)
(* are commits, its text at HEAD, and its history, newest first.            *)

(* A merge that took its first parent's text is in the log, without a path. *)
PathLog(git) == SelectSeq(git.log, LAMBDA e : e.touched)

Committed(at) == [tag |-> "committed", at |-> at]
Uncommitted(reason) == [tag |-> reason, at |-> 0]
GeneratedAt(git, body) ==
  LET entries == PathLog(git)
      Older(i) == IF i = 1 THEN body ELSE entries[i].body
      Changed(i) == i = Len(entries) \/ entries[i + 1].body = 0 \/ entries[i + 1].body # Older(i)
      first == CHOOSE i \in DOMAIN entries : Changed(i) /\ \A j \in 1 .. i - 1 : ~Changed(j)
  IN CASE ~git.born -> Uncommitted("unborn")
       [] git.born /\ git.head = 0 -> Uncommitted("untracked")
       [] git.born /\ git.head \notin {0, body} -> Uncommitted("dirty")
       [] OTHER -> IF entries = <<>> THEN Uncommitted("unborn") ELSE Committed(entries[first].at)

----------------------------------------------------------------------------
(* sync/generated.ts, and FrontmatterEdits.rendersDigests: a digest that is   *)
(* not 0 replaces the entry's own and its legacy one.                         *)

RendersDigests(renders, digests) ==
  [renders EXCEPT !.entries = [i \in DOMAIN @ |-> IF digests[i] = 0 THEN @[i] ELSE [@[i] EXCEPT !.legacy = 0, !.body = digests[i]]]]
Legacy(c) == c.generated.legacy # 0
LegacyRenders(c) == c.type = "Publication" /\ c.renders.list /\ \E i \in DOMAIN c.renders.entries : c.renders.entries[i].legacy # 0
Migrated(e) == IF e.legacy # 0 /\ e.body # 0 THEN e.body ELSE e.legacy
Matches(c) == RecordedBody(c) = c.body

(* Why a concept is left as it is. *)
Skips(c, derived, agent) ==
  CASE ~Matches(c) /\ derived.tag # "committed" -> {derived.tag}
    [] ~Matches(c) /\ derived.tag = "committed" /\ c.generated = NoBlock /\ agent = "none" -> {"generated-missing"}
    [] "integrity" \in c.odd -> {"integrity-unsupported"}
    [] "generated" \in c.odd /\ (Legacy(c) \/ ~Matches(c)) -> {"generated-unsupported"}
    [] OTHER -> IF LegacyRenders(c) /\ "renders" \in c.odd THEN {"renders-unsupported"} ELSE {}
Stamped(c, derived, agent) ==
  LET by == IF c.generated = NoBlock THEN agent ELSE c.generated.by
      block == IF Matches(c) THEN c.generated ELSE [c.generated EXCEPT !.by = by, !.at = derived.at]
  IN [c EXCEPT !.generated = [block EXCEPT !.legacy = 0], !.stamp = c.body,
               !.renders = IF LegacyRenders(c) THEN RendersDigests(@, [i \in DOMAIN @.entries |-> Migrated(@.entries[i])]) ELSE @]
SyncGenerated(c, derived, agent) ==
  IF Matches(c) /\ ~Legacy(c) /\ ~LegacyRenders(c) THEN [text |-> c, skipped |-> {}]
  ELSE LET why == Skips(c, derived, agent)
       IN [text |-> IF why = {} THEN Stamped(c, derived, agent) ELSE c, skipped |-> why]

(* An ordinary run asks git only for what does not match or has no date,     *)
(* and fails outside of a repository; with --staged, what is staged is dated *)
(* now.                                                                       *)
Wanted(c) == ~Matches(c) \/ c.generated.at = 0
RunSync(bundle, repo, agent) ==
  LET Of(p) == IF Wanted(bundle[p]) THEN GeneratedAt(repo.files[p], bundle[p].body) ELSE Committed(0)
  IN IF ~repo.found /\ \E p \in DOMAIN bundle : Wanted(bundle[p]) THEN [p \in DOMAIN bundle |-> [text |-> bundle[p], skipped |-> {"failed"}]]
     ELSE [p \in DOMAIN bundle |-> SyncGenerated(bundle[p], Of(p), agent)]
RunStaged(bundle, staged, now, agent) ==
  [p \in DOMAIN bundle |-> IF p \in staged THEN SyncGenerated(bundle[p], Committed(now), agent)
                           ELSE [text |-> bundle[p], skipped |-> {"unstaged"}]]
After(results) == [p \in DOMAIN results |-> results[p].text]

----------------------------------------------------------------------------
(* Publications.ts, sync/publication.ts.  A leading slash is dropped: every  *)
(* reference is relative to the Publication's own directory.                 *)

ResolveRef(bundle, from, ref) ==
  LET dir == Normal(from.dir \o ref.dir)
  IN IF Escapes(dir) THEN {} ELSE {p \in DOMAIN bundle : p = Path(dir, ref.name, TRUE)}
Named(e) == IF e.body # 0 THEN e.body ELSE e.legacy
OrphanSurface(bundle, p) ==
  /\ bundle[p].surface # <<>>
  /\ \A s \in ResolveRef(bundle, p, bundle[p].surface[1]) : bundle[s].type # "Surface"
Orphans(bundle, p) ==
  LET r == bundle[p].renders
  IN OrphanSurface(bundle, p) \/ ~r.list \/ r.entries = <<>> \/ \E i \in DOMAIN r.entries : ResolveRef(bundle, p, r.entries[i].ref) = {}
Drifts(bundle, p) ==
  LET r == bundle[p].renders
  IN r.list /\ \E i \in DOMAIN r.entries : \E s \in ResolveRef(bundle, p, r.entries[i].ref) : Named(r.entries[i]) # bundle[s].body
PublicationLint(bundle) ==
  LET publications == {p \in DOMAIN bundle : bundle[p].type = "Publication"}
  IN [orphan |-> {p \in publications : Orphans(bundle, p)}, drift |-> {p \in publications : Drifts(bundle, p)}]

(* Every digest or, when one source is missing, none. *)
CanStamp(bundle, p) ==
  LET r == bundle[p].renders
  IN /\ bundle[p].type = "Publication" /\ r.list /\ "renders" \notin bundle[p].odd
     /\ \A i \in DOMAIN r.entries : ResolveRef(bundle, p, r.entries[i].ref) # {}
StampPublication(bundle, p) ==
  LET Source(e) == CHOOSE s \in ResolveRef(bundle, p, e.ref) : TRUE
      digests == [i \in DOMAIN bundle[p].renders.entries |-> bundle[Source(bundle[p].renders.entries[i])].body]
  IN IF CanStamp(bundle, p) THEN [bundle EXCEPT ![p].renders = RendersDigests(@, digests)] ELSE bundle

----------------------------------------------------------------------------
(* Provenance.lint: by the digest where there is one, else by git's date;    *)
(* one concept without a digest outside of a repository ends it with         *)
(* nothing.                                                                   *)
ProvenanceLint(bundle, repo, skipGit) ==
  LET blocks == {p \in DOMAIN bundle : bundle[p].generated # NoBlock}
      undigested == {p \in blocks : RecordedBody(bundle[p]) = 0}
      Misdated(p) == LET derived == GeneratedAt(repo.files[p], bundle[p].body)
                     IN derived.tag = "committed" /\ derived.at # bundle[p].generated.at
  IN IF undigested # {} /\ ~skipGit /\ ~repo.found THEN {}
     ELSE {p \in blocks \ undigested : ~Matches(bundle[p])} \cup IF skipGit THEN {} ELSE {p \in undigested : Misdated(p)}

----------------------------------------------------------------------------
(* A run that is not refused leaves nothing to do for the next and nothing   *)
(* for the lint, a concept it skips apart: a date it writes is the one of    *)
(* the commit since which the body is what it is (generated.ts:96).  It      *)
(* changes no content a verification binds, and a Publication is stamped the *)
(* same before it or after (publication.ts:61).  A block that does not       *)
(* decode takes two runs where a legacy digest is moved into it.             *)
Relocated(c) == c.garbled /\ Legacy(c)
Since(git, body, at) ==
  LET changes == {i \in DOMAIN git.log : git.log[i].touched}
  IN \E i \in changes :
       /\ git.log[i].at = at
       /\ \A j \in changes : j <= i => git.log[j].body = body
       /\ \A j \in changes : j > i => \E k \in changes : k \in i + 1 .. j /\ git.log[k].body # body
SyncSettles(bundle, repo, agent) ==
  LET run == RunSync(bundle, repo, agent)
      after == After(run)
      Done(p) == run[p].skipped = {} /\ ~Relocated(bundle[p])
  IN /\ \A p \in DOMAIN bundle : Done(p) => RunSync(after, repo, agent)[p] = [text |-> after[p], skipped |-> {}]
     /\ \A p \in ProvenanceLint(after, repo, FALSE) : ~Done(p)
     /\ \A p \in DOMAIN bundle : after[p].generated.at # bundle[p].generated.at =>
                                   Since(repo.files[p], after[p].body, after[p].generated.at)
ContentKept(bundle, later) ==
  \A p \in DOMAIN bundle : ContentInput(later[p]) = ContentInput(bundle[p]) /\ later[p].binding = bundle[p].binding
StagedSettles(bundle, repo, now, agent) ==
  \A staged \in SUBSET DOMAIN bundle :
    LET run == RunStaged(bundle, staged, now, agent)
    IN /\ ContentKept(bundle, After(run))
       /\ \A p \in staged : run[p].skipped # {} \/ Relocated(bundle[p]) \/ p \notin ProvenanceLint(After(run), repo, TRUE)
PublicationsSettle(bundle, repo, agent) ==
  LET after == After(RunSync(bundle, repo, agent))
  IN \A p \in DOMAIN bundle :
       LET stamped == StampPublication(bundle, p)
       IN /\ ContentKept(bundle, stamped)
          /\ After(RunSync(stamped, repo, agent)) = StampPublication(after, p)
          /\ StampPublication(stamped, p) = stamped
          /\ CanStamp(bundle, p) => p \notin PublicationLint(stamped).drift
          /\ PublicationLint(stamped).orphan = PublicationLint(bundle).orphan
StampsSettle(bundle, repo, agent) ==
  /\ SyncSettles(bundle, repo, agent)
  /\ ContentKept(bundle, After(RunSync(bundle, repo, agent)))
  /\ StagedSettles(bundle, repo, 9, agent)
  /\ PublicationsSettle(bundle, repo, agent)
=============================================================================
