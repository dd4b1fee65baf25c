-------------------------------- MODULE Format --------------------------------
(***************************************************************************)
(* The bundle format (core/src): which files of a directory tree make up a *)
(* bundle and what each of them is, how a concept's frontmatter is decoded *)
(* family by family, what the lint rules report, and the index files that  *)
(* sync derives (engine/src/sync/index.ts).  A text is its frontmatter     *)
(* fence, its fields and its blocks; wording and positions are left out.   *)
(***************************************************************************)
EXTENDS Links, Functions

CONSTANTS
  FamilyKeys,        \* the frontmatter keys a schema of their own decodes
  ComputationKeys,   \* the further keys of an Attested Computation
  Skipped,           \* names that are hidden or pruned
  MaxDepth           \* directory levels below the root that are descended

Reserved(p) == p.md /\ p.name \in {"index", "log"}
Report(file, code, at) == [file |-> file, code |-> code, at |-> at, key |-> ""]
ReportKey(file, code, key) == [file |-> file, code |-> code, at |-> 0, key |-> key]

----------------------------------------------------------------------------
(* internal/walk.ts: the files of the bundle; a directory that cannot be   *)
(* listed is reported and its files are not part of it.                     *)

Dirs(p) == {SubSeq(p.dir, 1, n) : n \in 0 .. Len(p.dir)}
Admitted(p) == \A i \in DOMAIN p.dir : p.dir[i] \notin Skipped
Listable(disk) == {p \in DOMAIN disk.texts : Admitted(p) /\ p.name \notin Skipped /\ Dirs(p) \cap disk.unreadable = {}}
Walk(disk) ==
  LET listed == Listable(disk)
  IN [fails |-> <<>> \in disk.unreadable \/ \E p \in listed : Len(p.dir) > MaxDepth,
      files |-> listed,
      diagnostics |-> {Report(IndexOf(d), "walk-unreadable", 0) : d \in disk.unreadable}]

----------------------------------------------------------------------------
(* internal/reserved.ts: index.md and log.md, block by block. *)

Closed(text) == text.fence = "closed"
IndexFrontmatter(p, text) ==
  Closed(text) /\ text.yaml /\ ~(p.dir = <<>> /\ DOMAIN text.fields = {"okf_version"} /\ text.fields["okf_version"])

(* Every heading opens a section; before the first only a list is wrong,   *)
(* after it everything else is, and an item without a link.                 *)
ParseIndex(p, text) ==
  LET Bad(i) == Report(p, "index-malformed", i)
      Step(s, i) ==
        LET b == text.blocks[i]
            linked == SelectSeq(b.items, LAMBDA item : item.link)
        IN CASE b.type = "h1" -> [s EXCEPT !.sections = Append(@, <<>>)]
             [] b.type # "h1" /\ s.sections = <<>> -> IF b.type = "list" THEN [s EXCEPT !.bad = @ \cup {Bad(i)}] ELSE s
             [] b.type = "list" /\ s.sections # <<>> ->
                  [sections |-> Append(Front(s.sections), Last(s.sections) \o linked),
                   bad |-> IF linked = b.items THEN s.bad ELSE s.bad \cup {Bad(i)}]
             [] OTHER -> [s EXCEPT !.bad = @ \cup {Bad(i)}]
      parsed == FoldLeft(Step, [sections |-> <<>>, bad |-> {}], [i \in DOMAIN text.blocks |-> i])
  IN [sections |-> parsed.sections,
      diagnostics |-> parsed.bad
        \cup IF IndexFrontmatter(p, text) THEN {Report(p, "index-frontmatter", 0)} ELSE {}]

(* A second-level heading opens a group if it is a date; what follows one  *)
(* that is not is skipped, and what precedes the first is not looked at.    *)
ParseLog(p, text) ==
  LET Step(s, i) ==
        LET b == text.blocks[i]
            Add(code) == [s EXCEPT !.bad = @ \cup {Report(p, code, i)}]
            worded == SelectSeq(b.items, LAMBDA item : item.text)
        IN CASE b.type = "h2" /\ b.date -> [s EXCEPT !.open = "group", !.groups = Append(@, <<>>)]
             [] b.type = "h2" /\ ~b.date -> [Add("log-heading-invalid") EXCEPT !.open = "skipped"]
             [] b.type = "h1" \/ (b.type # "h2" /\ s.open = "skipped") -> s
             [] b.type \notin {"h1", "h2"} /\ s.open = "none" -> IF b.type = "list" THEN Add("log-malformed") ELSE s
             [] b.type = "list" /\ s.open = "group" ->
                  [(IF worded = b.items THEN s ELSE Add("log-malformed"))
                     EXCEPT !.groups = Append(Front(@), Last(@) \o worded)]
             [] OTHER -> Add("log-malformed")
      parsed == FoldLeft(Step, [groups |-> <<>>, open |-> "none", bad |-> {}], [i \in DOMAIN text.blocks |-> i])
  IN [groups |-> parsed.groups,
      diagnostics |-> parsed.bad \cup IF Closed(text) THEN {Report(p, "log-frontmatter", 0)} ELSE {}]

----------------------------------------------------------------------------
(* internal/conceptDecode.ts, frontmatter.ts: every family by itself. *)

DropConcept(fields, bad) == IF bad = {} THEN {[fields |-> fields]} ELSE {}
MakeConcept(fields, bad) == {[fields |-> fields]}
(* A field is TRUE when its value fits the schema; `type` when it is a     *)
(* non-empty string.  A legacy timestamp stands for a missing `generated`.  *)
DecodeConcept(p, text) ==
  LET present == DOMAIN text.fields
      computation == text.computation
      legacy == "timestamp" \in present /\ "generated" \notin present
      attested == present \cap ComputationKeys
      bad == {k \in present \cap FamilyKeys : ~text.fields[k]}
             \cup (IF legacy /\ ~text.fields["timestamp"] THEN {"timestamp"} ELSE {})
             \cup (IF computation THEN {k \in attested : ~text.fields[k]} ELSE {})
      runtime == computation /\ "runtime" \notin present
      decoded == ((present \cap FamilyKeys) \ bad)
                 \cup (IF legacy /\ "timestamp" \notin bad THEN {"generated"} ELSE {})
                 \cup (IF computation /\ attested \cap bad = {} THEN {"attested"} ELSE {})
      extensions == present \ (FamilyKeys \cup {"type"} \cup (IF computation THEN ComputationKeys ELSE {}))
  IN IF "type" \notin present \/ ~text.fields["type"]
     THEN [concept |-> {}, diagnostics |-> {Report(p, "type-missing", 0)}]
     ELSE [concept |-> MakeConcept([decoded |-> decoded, extensions |-> extensions], bad),
           diagnostics |-> {ReportKey(p, "family-invalid", k) : k \in bad}
             \cup (IF legacy /\ "timestamp" \notin bad THEN {Report(p, "legacy-timestamp", 0)} ELSE {})
             \cup (IF runtime THEN {Report(p, "computation-runtime-missing", 0)} ELSE {})]

----------------------------------------------------------------------------
(* Bundle.ts: one file, then all of them. *)

Outcome(concept, index, log, diagnostics) ==
  [concept |-> concept, index |-> index, log |-> log, diagnostics |-> diagnostics]
Failed(p, code) == Outcome({}, {}, {}, {Report(p, code, 0)})
LoadMarkdown(p, text) ==
  LET index == ParseIndex(p, text)
      log == ParseLog(p, text)
      concept == DecodeConcept(p, text)
      unparseable == IF Closed(text) /\ ~text.yaml THEN {Report(p, "frontmatter-unparseable", 0)} ELSE {}
  IN CASE text.fence = "unclosed" -> Failed(p, "frontmatter-unclosed")
       [] text.fence = "absent" /\ ~Reserved(p) -> Failed(p, "frontmatter-missing")
       [] text.fence # "unclosed" /\ Reserved(p) /\ p.name = "log" -> Outcome({}, {}, {log.groups}, log.diagnostics)
       [] text.fence # "unclosed" /\ Reserved(p) /\ p.name = "index" ->
            Outcome({}, {index.sections}, {}, unparseable \cup index.diagnostics)
       [] OTHER -> IF unparseable # {} THEN Outcome({}, {}, {}, unparseable)
                   ELSE Outcome(concept.concept, {}, {}, concept.diagnostics)

Load(disk) ==
  LET walked == Walk(disk)
      markdown == {p \in walked.files : p.md}
      out == [p \in markdown |-> LoadMarkdown(p, disk.texts[p])]
  IN [files |-> walked.files,
      concepts |-> {p \in markdown : out[p].concept # {}},
      directories |-> {p.dir : p \in {q \in markdown : out[q].concept # {}}},
      indexes |-> {p.dir : p \in {q \in markdown : out[q].index # {}}},
      texts |-> disk.texts, out |-> out,
      diagnostics |-> walked.diagnostics \cup UNION {out[p].diagnostics : p \in markdown}]

----------------------------------------------------------------------------
(* Derive.ts, sync/index.ts: the indexes a bundle owes. *)

IndexDirectoriesBare(bundle) == bundle.directories
IndexDirectories(bundle) ==
  bundle.directories \cup UNION {{SubSeq(d, 1, n) : n \in 1 .. Len(d)} : d \in bundle.directories}
Under(dir, d) == Len(d) > Len(dir) /\ SubSeq(d, 1, Len(dir)) = dir
ChildDirectories(bundle, dir) ==
  {d[Len(dir) + 1] : d \in {e \in bundle.directories \cup bundle.indexes : Under(dir, e)}}

(* One section per type, then one of the subdirectories; the order of a    *)
(* listing, by name there, is any order that is always the same.            *)
Listing(S) == FoldSet(LAMBDA x, out : Append(out, x), <<>>, S)
Entry(ref) == [link |-> TRUE, text |-> TRUE, ref |-> ref]
Section(refs) == <<[type |-> "h1", items |-> <<>>, date |-> FALSE],
                   [type |-> "list", items |-> Listing({Entry(r) : r \in refs}), date |-> FALSE]>>
RenderIndex(bundle, dir) ==
  LET here == {p \in bundle.concepts : p.dir = dir}
      types == Listing({bundle.texts[p].type : p \in here})
      OfType(t) == Section({Ref("", <<>>, p.name, TRUE) : p \in {q \in here : bundle.texts[q].type = t}})
      children == {Ref("", <<c>>, "index", TRUE) : c \in ChildDirectories(bundle, dir)}
  IN FoldLeft(LAMBDA out, t : out \o OfType(t), <<>>, types)
     \o IF children = {} THEN <<>> ELSE Section(children)

IndexText(blocks, root) ==
  [fence |-> IF root THEN "closed" ELSE "absent", yaml |-> TRUE, type |-> "", computation |-> FALSE,
   fields |-> IF root THEN [k \in {"okf_version"} |-> TRUE] ELSE <<>>, blocks |-> blocks]
SyncIndex(bundle) ==
  [p \in {IndexOf(d) : d \in IndexDirectories(bundle) \cup {<<>>}} |->
     IndexText(RenderIndex(bundle, p.dir), p.dir = <<>>)]
MissingIndex(bundle) == {Report(IndexOf(d), "missing-index", 0) : d \in IndexDirectories(bundle) \ bundle.indexes}

----------------------------------------------------------------------------
(* Every Markdown file of the directory tree is a concept, an index or a    *)
(* log of the bundle, or reported, or left out by name or under a directory *)
(* that is reported; a concept with a bad field is kept, with the field     *)
(* reported and every other one decoded or carried along (Bundle.ts:177,    *)
(* conceptDecode.ts:82).                                                    *)
FileAccounted(bundle, disk, p) ==
  \/ \E d \in Dirs(p) \cap disk.unreadable : Report(IndexOf(d), "walk-unreadable", 0) \in bundle.diagnostics
  \/ ~Admitted(p) \/ p.name \in Skipped
  \/ LET o == bundle.out[p]
         errors == {d.code : d \in o.diagnostics}
                   \cap {"frontmatter-unclosed", "frontmatter-missing", "frontmatter-unparseable", "type-missing"}
     IN IF Reserved(p) THEN o.index = {} /\ o.log = {} => errors # {} ELSE o.concept = {} <=> errors # {}
FieldsAccounted(bundle, p) ==
  \A c \in bundle.out[p].concept :
    LET reported == {d.key : d \in {e \in bundle.out[p].diagnostics : e.code = "family-invalid"}}
    IN \A k \in DOMAIN bundle.texts[p].fields :
         \/ k \in {"type"} \cup c.fields.decoded \cup c.fields.extensions \cup reported
         \/ /\ k \in ComputationKeys
            /\ "attested" \in c.fields.decoded \/ reported \cap ComputationKeys # {}
LoadAccounts(disk) ==
  LET bundle == Load(disk)
  IN \/ Walk(disk).fails
     \/ /\ \A p \in {q \in DOMAIN disk.texts : q.md} : FileAccounted(bundle, disk, p)
        /\ \A p \in bundle.concepts : FieldsAccounted(bundle, p)

(* Written out, the derived indexes are well formed, leave none owing, list *)
(* every concept and lead to it from the root, name only files that exist   *)
(* and come out the same a second time (sync/index.ts:63); unless the tree   *)
(* holds an index whose directory and whose parent's hold no concept, which  *)
(* the parents link to through a file nobody writes.                         *)
Orphaned(bundle) == \E d \in bundle.indexes : \E n \in 1 .. Len(d) - 1 :
                      SubSeq(d, 1, n) \notin IndexDirectories(bundle) \cup bundle.indexes
Entries(bundle, dir) ==
  {item.ref : item \in UNION {ToSet(s) : s \in ToSet((CHOOSE x \in bundle.out[IndexOf(dir)].index : TRUE))}}
IndexesSettle(disk) ==
  LET before == Load(disk)
      written == SyncIndex(before)
      after == Load([disk EXCEPT !.texts = written @@ @])
      Names(d) == {ResolveTarget(after.files, IndexOf(d), ref) : ref \in Entries(after, d)}
      Beyond(reached) == reached \cup {r.at.dir : r \in UNION {{n \in Names(d) : n.at.name = "index"} : d \in reached}}
      reached == FoldLeft(LAMBDA ds, i : Beyond(ds), {<<>>}, [i \in 1 .. MaxDepth |-> i])
  IN Walk(disk).fails \/ disk.unreadable # {} \/ Orphaned(before) \/ (
     /\ MissingIndex(after) = {}
     /\ \A d \in after.diagnostics : d.file \notin DOMAIN written
     /\ \A p \in DOMAIN written : \A r \in Names(p.dir) : r.tag = "node" /\ r.at \in after.files
     /\ \A c \in after.concepts : c.dir \in reached /\ Node(c, "file") \in Names(c.dir)
     /\ SyncIndex(after) = written)
=============================================================================
