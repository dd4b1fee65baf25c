--------------------------------- MODULE Lint ---------------------------------
(***************************************************************************)
(* What `okfit validate` finds in a loaded bundle: the link graph          *)
(* (core/src/Graph.ts), the lint rules (core/src/internal/lintRules.ts,    *)
(* engine/src/validate/, Trust.lint).  A concept is what the rules look    *)
(* at: path, type, keys, status, actors, content, footnote marks,          *)
(* references and the slugs of its headings.                               *)
(***************************************************************************)
EXTENDS Links, Trust

CONSTANTS Odd,      \* actors spelled neither human:<id>, process:<id> nor <producer>/<version>
          Emails    \* actors with an "@"

None == "none"
At(what, i) == <<what, i>>
Report(c, code, at) == [file |-> c.path, code |-> code, at |-> at]
When(holds) == IF holds THEN {<<>>} ELSE {}

Rule(config, c) == config.types[c.type]
Declared(config, c) == c.type \in DOMAIN config.types

----------------------------------------------------------------------------
(* Rules about the keys, the status and the actors of one concept. *)

UnknownType(config, c) == When(~Declared(config, c))
RequiredKeyMissing(config, c) ==
  {At("key", k) : k \in (config.required \cup (IF Declared(config, c) THEN Rule(config, c).required ELSE {})) \ c.keys}
FieldValueUnknown(config, c) ==
  {At("key", f.key) : f \in {g \in c.fields : /\ Declared(config, c) /\ g.key \in DOMAIN Rule(config, c).values
                                              /\ g.value \notin Rule(config, c).values[g.key]}}

(* A draft is unsettled and need not be verified yet. *)
RequireVerifiedUnmet(config, c) ==
  When(c.type \in Required /\ c.verified = <<>> /\ c.status # "draft")
StatusMissing(config, c) == When(c.status = None /\ c.verified = <<>>)
GeneratedMissing(config, c) == When(config.agent # None /\ "generated" \notin c.keys)

(* Every actor a concept names, with where. *)
ActorsOf(c) ==
  {a \in {[by |-> c.generated, at |-> At("generated", 0)], [by |-> c.binding.by, at |-> At("integrity", 0)]}
         \cup {[by |-> c.verified[i].by, at |-> At("verified", i)] : i \in DOMAIN c.verified} :
     a.by \notin {None, NoBinding.by}}
Where(actors) == {a.at : a \in actors}
ActorPrefixUnknown(config, c) == Where({a \in ActorsOf(c) : a.by \in Odd /\ a.at[1] # "integrity"})
ActorEmail(config, c) == Where({a \in ActorsOf(c) : a.by \in Emails})
VerifiedActorUnknown(config, c) ==
  Where({a \in ActorsOf(c) : a.at[1] # "generated" /\ a.by \in Humans /\ ~Allowed(a.by)})
Stale(config, c) == When(IsStale(c, config.now))

(* Trust.lint: drafts and deprecated concepts cannot be verified again.     *)
VerifiedDrift(config, c) == When(c.status \notin {"draft", "deprecated"} /\ Drifted(c))

----------------------------------------------------------------------------
(* Footnotes: the marks outside code, each label where it stands first.    *)

Live(c) == {i \in DOMAIN c.marks : ~c.marks[i].code}
First(c, labels) ==
  {At("mark", i) : i \in {j \in Live(c) : /\ c.marks[j].label \notin labels
                                          /\ \A k \in Live(c) : c.marks[k].label = c.marks[j].label => j <= k}}
FootnoteSourceUnknown(config, c) == IF c.sources = {} THEN {} ELSE First(c, c.sources)
Defined(c) == {c.marks[i].label : i \in {j \in Live(c) : c.marks[j].defines}}
FootnoteUndefined(config, c) == First(c, Defined(c))

----------------------------------------------------------------------------
(* Graph.ts: the references of a concept that are edges, to the id of a     *)
(* concept (its path without .md) or the path of any other file.            *)

Files(concepts) == {c.path : c \in concepts}
Id(p) == Path(p.dir, p.name, FALSE)
MissingAt(from, ref) ==
  LET rooted == ref.lead = "/" \/ (~Explicit(ref) /\ ref.dir # <<>>)
      dir == Normal(IF rooted THEN ref.dir ELSE from.dir \o ref.dir)
  IN CASE ref.name # "" -> Path(dir, ref.name, ref.md)
       [] ref.name = "" /\ dir = <<>> /\ ~AtRoot(ref) -> IndexOf(<<".">>)
       [] OTHER -> IndexOf(dir)
EdgesOf(concepts, files, c) ==
  LET To(i) == Resolve(files, c.path, c.refs[i].ref)
      NodeOf(r, i) == CASE r.tag = "missing" -> MissingAt(c.path, c.refs[i].ref)
                        [] r.tag = "node" /\ r.at \in Files(concepts) -> Id(r.at)
                        [] OTHER -> r.at
  IN {[at |-> i, to |-> NodeOf(To(i), i), kind |-> IF To(i).tag = "missing" THEN "missing" ELSE "file"] :
        i \in {j \in DOMAIN c.refs : ~c.refs[j].self /\ To(j).tag \in {"node", "missing"}}}

(* A node is created once, concepts first: a missing target whose spelling   *)
(* is the id of a concept is that concept.                                   *)
Target(concepts, e) == CHOOSE t \in concepts : Id(t.path) = e.to
IsConcept(concepts, e) == \E t \in concepts : Id(t.path) = e.to
Dangling(concepts, edges) == {e \in edges : e.kind = "missing" /\ ~IsConcept(concepts, e)}

LacksAny(target, fragment) == fragment \notin target.slugs
Lacks(target, fragment) == fragment # None /\ fragment \notin target.slugs
BrokenLinks(concepts, files, c) ==
  LET edges == EdgesOf(concepts, files, c)
      anchors == {e \in edges : /\ c.refs[e.at].ref.field = "body" /\ IsConcept(concepts, e)
                                /\ Lacks(Target(concepts, e), c.refs[e.at].fragment)}
      own == {i \in DOMAIN c.refs : c.refs[i].self /\ c.refs[i].ref.field = "body" /\ Lacks(c, c.refs[i].fragment)}
  IN {At("ref", e.at) : e \in Dangling(concepts, edges) \cup anchors} \cup {At("ref", i) : i \in own}

----------------------------------------------------------------------------
(* validate/resources.ts, validate/surfaces.ts: what a resource names on    *)
(* the disk, bundle or not.                                                 *)

Candidates(c, ref) ==
  {Path(Normal(IF ref.lead = "/" THEN ref.dir ELSE c.path.dir \o ref.dir), ref.name, ref.md)}
  \cup IF ref.lead = "/" \/ Explicit(ref) THEN {} ELSE {Path(Normal(ref.dir), ref.name, ref.md)}
SourceResourceMissing(disk, c) ==
  {At("ref", i) : i \in {j \in DOMAIN c.refs : /\ c.refs[j].ref.field \in {"resource", "sources.resource"}
                                               /\ Candidates(c, c.refs[j].ref) \cap disk = {}}}

(* A glob is walked no deeper than it has segments, and into no directory    *)
(* that is linked or skipped and not named; an entry is its names below the  *)
(* prefix, how many lead through a link, and whether the pattern matches it. *)
Walked(glob, e) ==
  /\ glob.deep \/ Len(e.names) <= glob.segments
  /\ \A i \in DOMAIN e.names : e.names[i] \notin glob.skipped
  /\ \A n \in 1 .. Len(e.names) - 1 : SubSeq(e.names, 1, n) \notin glob.links
SurfaceUnmatched(c) == {At("ref", 0) : g \in {h \in c.globs : ~h.compiles \/ ~\E e \in h.entries : Walked(h, e) /\ e.matches}}

----------------------------------------------------------------------------
(* Validate.ts, validate/run.ts: every rule, of one concept. *)

Findings(concepts, files, disk, config, c) ==
  LET Of(code, places) == {Report(c, code, at) : at \in places}
  IN UNION {Of("unknown-type", UnknownType(config, c)), Of("required-key-missing", RequiredKeyMissing(config, c)),
            Of("field-value-unknown", FieldValueUnknown(config, c)),
            Of("require-verified-unmet", RequireVerifiedUnmet(config, c)),
            Of("status-missing", StatusMissing(config, c)), Of("generated-missing", GeneratedMissing(config, c)),
            Of("actor-prefix-unknown", ActorPrefixUnknown(config, c)), Of("actor-email", ActorEmail(config, c)),
            Of("verified-actor-unknown", VerifiedActorUnknown(config, c)), Of("stale", Stale(config, c)),
            Of("footnote-source-unknown", FootnoteSourceUnknown(config, c)),
            Of("footnote-undefined", FootnoteUndefined(config, c)),
            Of("broken-links", BrokenLinks(concepts, files, c)), Of("verified-drift", VerifiedDrift(config, c)),
            Of("source-resource-missing", SourceResourceMissing(disk, c)), Of("surface-unmatched", SurfaceUnmatched(c))}

----------------------------------------------------------------------------
(* A reference is reported as broken if and only if following it finds no    *)
(* file or no heading (lintRules.ts:323), except one that is spelled like    *)
(* the id of a concept and names no file: "v1.2", with v1.2.md beside it.    *)
Follows(concepts, files, c, i) ==
  LET r == Resolve(files, c.path, c.refs[i].ref)
      target == IF c.refs[i].self THEN {c} ELSE {t \in concepts : r.tag = "node" /\ t.path = r.at}
  IN /\ c.refs[i].self \/ r.tag # "missing"
     /\ c.refs[i].ref.field = "body" => \A t \in target : c.refs[i].fragment \in t.slugs \cup {None}
NamesAnId(concepts, c, i) == \E t \in concepts : Id(t.path) = MissingAt(c.path, c.refs[i].ref)
BrokenIffLost(concepts, files) ==
  \A c \in concepts : \A i \in DOMAIN c.refs :
    \/ ~c.refs[i].self /\ c.refs[i].ref.name \in Dotted /\ NamesAnId(concepts, c, i)
    \/ ~Follows(concepts, files, c, i) <=> At("ref", i) \in BrokenLinks(concepts, files, c)
=============================================================================
