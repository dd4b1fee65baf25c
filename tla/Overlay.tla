-------------------------------- MODULE Overlay --------------------------------
(***************************************************************************)
(* Unsaved documents that stand in for the disk (engine/src/overlay/):     *)
(* `okfit validate --document` and the validate_bundle tool run over a     *)
(* file system that answers from them (cli/src/commands/validate.ts,       *)
(* mcp/src/tools/validateBundle.ts).  A disk adds to the texts of a bundle *)
(* the directories that exist; the bundle is below `root`.                 *)
(***************************************************************************)
EXTENDS Format, TLC

----------------------------------------------------------------------------
(* documents.ts: the file a document names, or why it cannot stand for one. *)

Absolute(segments) == SelectSeq(Normal(segments), LAMBDA s : s # "..")
ResolveDocumentPath(root, doc) ==
  LET dir == Absolute(root \o doc.dir)
      below == Len(dir) >= Len(root) /\ SubSeq(dir, 1, Len(root)) = root
  IN CASE doc.lead = "/" -> [error |-> "not-relative", key |-> IndexOf(<<>>)]
       [] doc.lead # "/" /\ ~doc.md -> [error |-> "not-markdown", key |-> IndexOf(<<>>)]
       [] OTHER -> IF below THEN [error |-> "none", key |-> Path(SubSeq(dir, Len(root) + 1, Len(dir)), doc.name, TRUE)]
                   ELSE [error |-> "escapes-bundle", key |-> IndexOf(<<>>)]

AnyDirectory(disk, dir) == TRUE
(* The walk lists one existing directory at a time. *)
IsDirectory(disk, dir) == dir \in disk.dirs

(* The first bad document fails; nothing runs then. *)
ProvideDocuments(disk, root, documents) ==
  LET Open(s, d) ==
        LET r == ResolveDocumentPath(root, d.at)
        IN CASE s.error # "none" -> s
             [] s.error = "none" /\ r.error # "none" -> [s EXCEPT !.error = r.error]
             [] s.error = "none" /\ r.error = "none" /\ r.key \in DOMAIN s.open -> [s EXCEPT !.error = "duplicate"]
             [] OTHER -> IF IsDirectory(disk, r.key.dir) THEN [s EXCEPT !.open = (r.key :> d.text) @@ @]
                         ELSE [s EXCEPT !.error = "no-directory"]
  IN FoldLeft(Open, [error |-> "none", open |-> <<>>], documents)

----------------------------------------------------------------------------
(* layer.ts: reads answer from the open documents, and listing a directory  *)
(* that exists adds the names that are only open.                           *)

ReadFile(disk, open, p) == IF p \in DOMAIN open THEN open[p] ELSE disk.texts[p]
OverlayOnly(disk, open) == {p \in DOMAIN open \ DOMAIN disk.texts : p.dir \in disk.dirs}
OverlayFileSystem(disk, open) ==
  [disk EXCEPT !.texts = [p \in DOMAIN disk.texts \cup OverlayOnly(disk, open) |-> ReadFile(disk, open, p)]]

(* What a run over the documents loads. *)
Validated(disk, root, documents) ==
  LET provided == ProvideDocuments(disk, root, documents)
  IN [error |-> provided.error, bundle |-> Load(OverlayFileSystem(disk, provided.open))]

----------------------------------------------------------------------------
(* Validating documents finds what validating the disk would with each of   *)
(* them saved, and reads every one of them that saved would be read; it is  *)
(* refused only if one is no Markdown file of the bundle, cannot be saved   *)
(* where it is, or is there twice (documents.ts:52).                        *)
Names(root, d) == Path(Absolute(root \o d.at.dir), d.at.name, d.at.md)
Saved(disk, root, documents) ==
  LET Local(p) == Path(SubSeq(p.dir, Len(root) + 1, Len(p.dir)), p.name, p.md)
      Texts(i) == Local(Names(root, documents[i])) :> documents[i].text
  IN [disk EXCEPT !.texts = FoldLeft(LAMBDA out, i : Texts(i) @@ out, @, [i \in DOMAIN documents |-> i])]
Savable(disk, root, d) ==
  LET at == Names(root, d).dir
  IN d.at.lead # "/" /\ d.at.md /\ at \in {root \o dir : dir \in disk.dirs}
OverlayIsSaved(disk, root, documents) ==
  LET run == Validated(disk, root, documents)
      distinct == Cardinality({Names(root, documents[i]) : i \in DOMAIN documents}) = Len(documents)
  IN /\ run.error = "none" <=> distinct /\ \A i \in DOMAIN documents : Savable(disk, root, documents[i])
     /\ run.error = "none" =>
          LET saved == Load(Saved(disk, root, documents))
          IN run.bundle.out = saved.out /\ run.bundle.files = saved.files /\ run.bundle.diagnostics = saved.diagnostics
=============================================================================
