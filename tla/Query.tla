--------------------------------- MODULE Query ---------------------------------
(***************************************************************************)
(* The concepts an argument names (engine/src/targets/resolve.ts) and the  *)
(* questions asked of them (engine/src/query/ConceptQuery.ts, of the CLI's *)
(* query commands and the MCP tools).  An argument is spelled like a       *)
(* reference; disk is every file there is, by absolute path, and the       *)
(* bundle is below `root`.  Suggestions and symbolic links are left out.   *)
(***************************************************************************)
EXTENDS Lint, Functions, TLC

CONSTANT Twice   \* a name that itself ends in .md, to the name without

(* A bundle: its concepts, all its files, and where it is. *)
Reserved(p) == p.md /\ p.name \in {"index", "log"}
Absolute(segments) == SelectSeq(Normal(segments), LAMBDA s : s # "..")

----------------------------------------------------------------------------
(* resolve.ts *)

Hit(tag, path) == [tag |-> tag, path |-> path]
Miss(tag) == Hit(tag, IndexOf(<<>>))
Classify(bundle, acceptFiles, p) ==
  CASE p \notin bundle.files -> Miss("nothing")
    [] p \in bundle.files /\ (acceptFiles \/ (p \in Files(bundle.concepts))) -> Hit("path", p)
    [] OTHER -> Miss(IF Reserved(p) THEN "reserved" ELSE "not-a-concept")

(* As a path: absolute, or relative to the working directory. *)
OnDisk(bundle, disk, cwd, acceptFiles, arg) ==
  LET at == Path(Absolute((IF arg.lead = "/" THEN <<>> ELSE cwd) \o arg.dir), arg.name, arg.md)
      n == Len(bundle.root)
  IN CASE at \notin disk -> Miss("nothing")
       [] at \in disk /\ ~(Len(at.dir) >= n /\ SubSeq(at.dir, 1, n) = bundle.root) -> Miss("outside-bundle")
       [] OTHER -> Classify(bundle, acceptFiles, Path(SubSeq(at.dir, n + 1, Len(at.dir)), at.name, at.md))
(* As an id, whatever its slash and extension; "./" is part of an id. *)
ById(bundle, acceptFiles, arg) ==
  IF arg.lead = "./" THEN Miss("nothing") ELSE Classify(bundle, acceptFiles, Path(arg.dir, arg.name, TRUE))

FirstReading(path, id, abs) == IF path.tag = "path" THEN path ELSE id
Reading(path, id, abs) ==
  CASE path.tag = "path" /\ id.tag = "path" /\ path.path # id.path /\ ~abs -> Miss("ambiguous")
    [] path.tag = "path" /\ (id.tag # "path" \/ path.path = id.path \/ abs) -> path
    [] path.tag # "path" /\ id.tag = "path" -> id
    [] OTHER -> IF path.tag \in {"reserved", "not-a-concept"} THEN path
                ELSE IF id.tag # "nothing" THEN id
                ELSE IF path.tag = "outside-bundle" THEN path ELSE Miss("not-found")

(* Every bad argument is reported; one concept named twice is there once. *)
ResolveTargets(bundle, disk, cwd, acceptFiles, args) ==
  LET Of(arg) == Reading(OnDisk(bundle, disk, cwd, acceptFiles, arg), ById(bundle, acceptFiles, arg), arg.lead = "/")
      Accept(s, i) ==
        LET hit == Of(args[i])
        IN CASE hit.tag # "path" -> [s EXCEPT !.failures = Append(@, [arg |-> i, reason |-> hit.tag])]
             [] hit.tag = "path" /\ \E j \in DOMAIN s.resolved : s.resolved[j].path = hit.path -> s
             [] OTHER -> [s EXCEPT !.resolved = Append(@, [arg |-> i, path |-> hit.path])]
  IN FoldLeft(Accept, [resolved |-> <<>>, failures |-> <<>>], [i \in DOMAIN args |-> i])

----------------------------------------------------------------------------
(* ConceptQuery.ts *)

(* An id is normalized again, which drops a second extension. *)
ResolveId(bundle, id) ==
  LET name == IF id.name \in DOMAIN Twice THEN Twice[id.name] ELSE id.name
  IN {c \in bundle.concepts : Id(c.path) = [id EXCEPT !.name = name]}

(* What every answer says of a concept. *)
DeriveStatus(c) == IF c.status = None THEN "stable" ELSE c.status
TrustTier(c) ==
  CASE c.verified = <<>> -> "unverified"
    [] HumanEntries(c) # {} -> "human-reviewed"
    [] OTHER -> "machine-confirmed"
Integrity(c) == CASE Evaluate(c) = "none" -> "none" [] Evaluate(c) = "current" -> "current" [] OTHER -> "drifted"
Drift(c) == {Evaluate(c)} \ {"none", "current"}
Summary(c, now) ==
  [id |-> Id(c.path), path |-> c.path, type |-> c.type, status |-> DeriveStatus(c), tier |-> TrustTier(c),
   integrity |-> Integrity(c), drift |-> Drift(c), stale |-> IsStale(c, now)]

(* The kind of a node is the one of the edge that created it. *)
Kind(concepts, e) == IF IsConcept(concepts, e) THEN "concept" ELSE e.kind
Get(bundle, c) ==
  {[to |-> e.to, kind |-> Kind(bundle.concepts, e), at |-> e.at] : e \in EdgesOf(bundle.concepts, bundle.files, c)}
Outgoing(bundle, c) == {[id |-> l.to, kind |-> l.kind] : l \in Get(bundle, c)}
Incoming(bundle, c) == {d \in bundle.concepts : \E l \in Get(bundle, d) : l.to = Id(c.path)}

(* A filter field that is {} asks nothing; an unknown type or tag is refused. *)
List(bundle, config, filter, now) ==
  LET Passes(c) ==
        /\ filter.types = {} \/ c.type \in filter.types
        /\ filter.tags \subseteq c.tags
        /\ filter.statuses = {} \/ DeriveStatus(c) \in filter.statuses
        /\ \A v \in filter.verified : IF v = "current" THEN Evaluate(c) = "current" ELSE TrustTier(c) = "unverified"
        /\ \A d \in filter.drifted : Drifted(c) = d
        /\ \A s \in filter.stale : IsStale(c, now) = s
  IN IF filter.types \subseteq DOMAIN config.types /\ filter.tags \subseteq config.tags
     THEN [error |-> "none", items |-> {c \in bundle.concepts : Passes(c)}]
     ELSE [error |-> "unknown-vocabulary", items |-> {}]
----------------------------------------------------------------------------
(* The commands (cli/src/commands/query.ts): get shows every target or      *)
(* nothing, neighbors those of one.  The MCP tools take an id at once and   *)
(* list a page.                                                              *)

QueryGet(bundle, disk, cwd, args, now) ==
  LET r == ResolveTargets(bundle, disk, cwd, FALSE, args)
      Shown(i) == {[summary |-> Summary(c, now), links |-> Get(bundle, c)] : c \in ResolveId(bundle, Id(r.resolved[i].path))}
  IN IF r.failures # <<>> THEN <<>> ELSE [i \in DOMAIN r.resolved |-> Shown(i)]
QueryNeighbors(bundle, c, now) ==
  [outgoing |-> {[id |-> n.id, kind |-> n.kind, summary |-> {Summary(t, now) : t \in {u \in bundle.concepts : n.kind = "concept" /\ Id(u.path) = n.id}}] :
                   n \in Outgoing(bundle, c)},
   incoming |-> {[id |-> Id(d.path), kind |-> "concept", summary |-> {Summary(d, now)}] : d \in Incoming(bundle, c)}]

----------------------------------------------------------------------------
(* An argument that resolves names a concept of the bundle, as a path or as  *)
(* an id, and only an absolute path may name two (the path wins); all of a   *)
(* command's arguments are answered, once each, or none is (resolve.ts:91).  *)
(* What is shown is the concept that was resolved, unless its id ends in .md *)
(* and is cut again.                                                          *)
Readings(bundle, disk, cwd, arg) ==
  {p \in Files(bundle.concepts) :
     LET at == Path(bundle.root \o p.dir, p.name, p.md) IN
     \/ at \in disk /\ at = Path(Absolute((IF arg.lead = "/" THEN <<>> ELSE cwd) \o arg.dir), arg.name, arg.md)
     \/ arg.lead # "./" /\ Path(arg.dir, arg.name, TRUE) = p}
TargetsExact(bundle, disk, cwd, args, now) ==
  LET r == ResolveTargets(bundle, disk, cwd, FALSE, args)
      paths == [i \in DOMAIN r.resolved |-> r.resolved[i].path]
      shown == QueryGet(bundle, disk, cwd, args, now)
      Of(i) == Readings(bundle, disk, cwd, args[i])
      failed == {r.failures[i].arg : i \in DOMAIN r.failures}
  IN /\ \A i \in DOMAIN args \ failed : Of(i) \cap ToSet(paths) # {} /\ (args[i].lead = "/" \/ Cardinality(Of(i)) = 1)
     /\ \A i \in failed : IF args[i].lead = "/" THEN Of(i) = {} ELSE Cardinality(Of(i)) # 1
     /\ Cardinality(ToSet(paths)) = Len(paths)
     /\ DOMAIN shown = IF failed = {} THEN DOMAIN paths ELSE {}
     /\ \A i \in DOMAIN shown : \/ paths[i].name \in DOMAIN Twice
                                \/ {v.summary.path : v \in shown[i]} = {paths[i]}

(* A concept is among the incoming neighbors of those it links to, and of no *)
(* others, and each concept is summarised as itself; --drifted and its       *)
(* opposite divide the bundle, and no verification is current and drifted    *)
(* (ConceptQuery.ts:159).                                                    *)
NeighborsMutual(bundle, config, now) ==
  LET Outwards(c) == UNION {n.summary : n \in QueryNeighbors(bundle, c, now).outgoing}
      Inwards(c) == UNION {n.summary : n \in QueryNeighbors(bundle, c, now).incoming}
      Asked(filter) == List(bundle, config, filter @@ [types |-> {}, tags |-> {}, statuses |-> {}, verified |-> {},
                                                       drifted |-> {}, stale |-> {}], now).items
  IN /\ \A c, d \in bundle.concepts : Summary(d, now) \in Outwards(c) <=> Summary(c, now) \in Inwards(d)
     /\ Asked([drifted |-> {TRUE}]) \cup Asked([drifted |-> {FALSE}]) = bundle.concepts
     /\ Asked([drifted |-> {TRUE}]) \cap Asked([verified |-> {"current"}]) = {}
=============================================================================
