-------------------------------- MODULE Links --------------------------------
(***************************************************************************)
(* How a reference names a file of the bundle (core/src/internal/links.ts, *)
(* posixPath.ts, Graph.ts) and how it is rewritten when a concept moves    *)
(* (engine/src/move/references.ts).  A path is its directories, the last   *)
(* name and whether it ends in .md; a reference adds how it was spelled.   *)
(* URLs, percent-encoding and #fragments, which resolution strips and a    *)
(* rewrite keeps, are left out, and so is a path that ends in ".." itself. *)
(***************************************************************************)
EXTENDS Integers, Sequences, FiniteSets, SequencesExt

CONSTANT Dotted   \* the names that hold a dot, such as "diagram.svg" or "v1.2"

Path(dir, name, md) == [dir |-> dir, name |-> name, md |-> md]
IndexOf(dir) == Path(dir, "index", TRUE)

(* lead is "/", "./" or ""; name is "" in a reference that ends in a slash; *)
(* odd: the rewriter cannot find it in its file's source.                   *)
Ref(lead, dir, name, md) ==
  [lead |-> lead, dir |-> dir, name |-> name, md |-> md, field |-> "body", odd |-> FALSE]

(* `.` and empty segments are gone; `..` drops the segment before it. *)
Climb(out, s) == IF s = ".." /\ out # <<>> /\ Last(out) # ".." THEN Front(out) ELSE Append(out, s)
Normal(segments) ==
  LET out[n \in 0 .. Len(segments)] == IF n = 0 THEN <<>> ELSE Climb(out[n - 1], segments[n])
  IN out[Len(segments)]
Escapes(dir) == dir # <<>> /\ Head(dir) = ".."
Explicit(ref) == ref.lead = "./" \/ (ref.lead # "/" /\ Escapes(ref.dir))

----------------------------------------------------------------------------
(* Resolution: rooted, else relative to the file, else to the bundle root. *)

Node(at, via) == [tag |-> "node", at |-> at, via |-> via]
NoNode(tag) == [tag |-> tag, at |-> IndexOf(<<>>), via |-> "none"]

(* A name without a dot also stands for its .md file.  A directory is its    *)
(* index, but the root only where it is spelled "/": a path that climbs back *)
(* to it is "./" once normal, and no file is called "./index.md".            *)
AtRoot(ref) == ref.lead = "/" /\ ref.dir = <<>>
Hits(files, dir, ref) ==
  IF ref.name = "" THEN files \cap (IF dir = <<>> /\ ~AtRoot(ref) THEN {} ELSE {IndexOf(dir)})
  ELSE LET direct == files \cap {Path(dir, ref.name, ref.md)}
       IN IF direct # {} \/ ref.md \/ ref.name \in Dotted THEN direct
          ELSE files \cap {Path(dir, ref.name, TRUE)}

Reached(files, rooted, relative, ref) ==
  LET Found(dir, via) == {Node(p, via) : p \in Hits(files, dir, ref)}
      near == Found(relative, "file")
  IN IF ref.lead = "/" THEN Found(rooted, "rooted")
     ELSE IF near # {} \/ Explicit(ref) THEN near ELSE Found(rooted, "root")
(* What leaves the bundle is external, read the first way or the last. *)
Settled(first, last, hits) ==
  CASE Escapes(first) \/ (hits = {} /\ Escapes(last)) -> NoNode("external")
    [] ~Escapes(first) /\ hits # {} -> CHOOSE h \in hits : TRUE
    [] OTHER -> NoNode("missing")
ResolveTarget(files, from, ref) ==
  LET rooted == Normal(ref.dir)
      relative == Normal(from.dir \o ref.dir)
  IN Settled(IF ref.lead = "/" THEN rooted ELSE relative, IF Explicit(ref) THEN relative ELSE rooted,
             Reached(files, rooted, relative, ref))

(* A sources entry that names nothing is a description, not a broken link. *)
Described(ref, r) == IF ref.field = "sources.resource" /\ r.tag = "missing" THEN NoNode("descriptor") ELSE r
Resolve(files, from, ref) == Described(ref, ResolveTarget(files, from, ref))

----------------------------------------------------------------------------
(* Rewriting after `src` has become `dst`. *)

Shared(a, b) == Cardinality({n \in 1 .. Len(a) : n <= Len(b) /\ SubSeq(a, 1, n) = SubSeq(b, 1, n)})
(* The way from a directory to another, of which `most` may be shared. *)
Relative(fromDir, dir, most) ==
  LET n == IF Shared(fromDir, dir) < most THEN Shared(fromDir, dir) ELSE most
  IN [i \in 1 .. Len(fromDir) - n |-> ".."] \o SubSeq(dir, n + 1, Len(dir))

AfterMove(files, src, dst) == (files \ {src}) \cup {dst}

(* Spelled like `ref`, but naming `next` from the directory `dir`. *)
Spell(ref, lead, dir, next) ==
  [ref EXCEPT !.lead = lead, !.dir = dir, !.name = IF ref.name = "" THEN "" ELSE next.name,
              !.md = ref.md /\ next.md]
FileSpelling(ref, fromNew, next) ==
  LET depth == Len(next.dir)
      dir == Relative(fromNew.dir, next.dir, IF ref.name = "" /\ depth > 0 THEN depth - 1 ELSE depth)
  IN Spell(ref, IF ref.lead = "./" /\ ~Escapes(dir) THEN "./" ELSE "", dir, next)
Lands(files, fromNew, ref, next) ==
  Resolve(files, fromNew, ref) \in {Node(next, via) : via \in {"file", "root", "rooted"}}
Unambiguous(files, bare, fromNew, next) ==
  IF Lands(files, fromNew, bare, next) THEN bare ELSE [bare EXCEPT !.lead = "/"]
RootSpellingBare(files, ref, fromNew, next, moved) ==
  IF moved THEN Spell(ref, "", next.dir, next) ELSE ref
(* A bare reference is spelled rooted where it would name another file. *)
RootSpelling(files, ref, fromNew, next, moved) ==
  Unambiguous(files, IF moved THEN Spell(ref, "", next.dir, next) ELSE ref, fromNew, next)

(* A path that leaves the bundle keeps naming its file.  One that ends in a *)
(* slash loses its last directory: the code takes the dirname of the target.*)
Outside(ref, fromNew, target) ==
  LET dir == [i \in 1 .. Len(fromNew.dir) |-> ".."] \o IF ref.name = "" THEN Front(target.dir) ELSE target.dir
  IN Spell(ref, IF dir = <<>> THEN "./" ELSE "", dir, target)

Respell(files, ref, r, fromOld, fromNew, src, dst) ==
  LET outside == r.tag = "external" /\ Explicit(ref)
      target == IF outside THEN Path(Normal(fromOld.dir \o ref.dir), ref.name, ref.md) ELSE r.at
      moved == target = src
      next == IF moved THEN dst ELSE target
  IN CASE r.tag # "node" /\ ~outside -> ref
       [] outside -> IF fromNew = fromOld THEN ref
                     ELSE Outside(ref, fromNew, target)
       [] r.via = "rooted" -> IF moved THEN Spell(ref, "/", next.dir, next) ELSE ref
       [] r.via = "root" -> RootSpelling(AfterMove(files, src, dst), ref, fromNew, next, moved)
       [] OTHER -> IF ~moved /\ fromNew = fromOld THEN ref ELSE FileSpelling(ref, fromNew, next)
RewriteReference(files, ref, fromOld, fromNew, src, dst) ==
  Respell(files, ref, Resolve(files, fromOld, ref), fromOld, fromNew, src, dst)
=============================================================================
