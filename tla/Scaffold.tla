------------------------------- MODULE Scaffold -------------------------------
(***************************************************************************)
(* `okfit init` (cli/src/commands/init.ts, internal/initWizard.ts and      *)
(* engine/src/init/scaffold.ts): the answers, the refusal to overwrite,    *)
(* the files it writes and what validating them finds.  A disk holds the   *)
(* configuration files, the ones outside of any project among them         *)
(* (`personal`), and the Markdown texts, all by absolute path.             *)
(***************************************************************************)
EXTENDS Format, Profile

V(required) == INSTANCE Lint WITH Required <- required, Humans <- {}, AllowList <- {}, Unhashable <- {}, Odd <- {}, Emails <- {}

----------------------------------------------------------------------------
(* initWizard.ts: a setting given as a flag is never asked for; a run that *)
(* is not interactive takes the default.  An answer {} is a cancel.        *)

CheckBundleDir(value) ==
  LET normal == Normal(value.segments)
  IN IF value.abs \/ normal = <<>> \/ Escapes(normal) THEN {} ELSE {Below(normal)}
Given(flag, interactive, typed, default) ==
  CASE flag # {} -> flag [] flag = {} /\ interactive -> typed [] OTHER -> {default}
Wizard(input, defaults) ==
  LET bundle == Given(input.bundle, input.interactive, input.typed.bundle, defaults.bundle)
      location == Given(input.location, input.interactive, input.typed.location, defaults.location)
      Checked(b) == IF CheckBundleDir(b) # {} THEN Sole(CheckBundleDir(b)) ELSE defaults.bundle
  IN [error |-> CASE input.bundle # {} /\ CheckBundleDir(Sole(input.bundle)) = {} -> "bundle-dir"
                  [] bundle = {} \/ location = {} -> "cancelled"
                  [] OTHER -> "none",
      profile |-> IF input.profile # {} THEN Sole(input.profile) ELSE defaults.profile,
      bundle |-> {Checked(b) : b \in bundle}, location |-> location]

----------------------------------------------------------------------------
(* scaffold.ts. *)

Inside(root, p) == Path(root \o p.dir, p.name, p.md)
RootFiles == {IndexOf(<<>>), Path(<<>>, "log", TRUE), Path(<<>>, "project", TRUE)}
IndexFiles == {IndexOf(<<d>>) : d \in LayoutDirectories}
TargetConfigsDefault(projectRoot) == {projectRoot \o ConfigNames[3]}
(* Every name a configuration may have, so that none shadows the new one. *)
TargetConfigs(projectRoot) == {projectRoot \o n : n \in ToSet(ConfigNames)}
TargetFiles(bundleRoot) == {Inside(bundleRoot, p) : p \in RootFiles \cup IndexFiles}

ConfigValue(bundle, profile) ==
  Doc({<< <<"bundle">>, Table>>, << <<"bundle", "path">>, Leaf(bundle)>>, << <<"bundle", "profile">>, Leaf(profile)>>,
       << <<"extensions">>, Table>>})
Heading == [type |-> "h1", items |-> <<>>, date |-> FALSE]
Plain(blocks) == IndexText(blocks, FALSE)
LogText ==
  Plain(<<Heading, [type |-> "h2", items |-> <<>>, date |-> TRUE],
          [type |-> "list", items |-> <<[link |-> FALSE, text |-> TRUE]>>, date |-> FALSE]>>)
ConceptText(type, keys) ==
  [fence |-> "closed", yaml |-> TRUE, fields |-> [k \in keys |-> TRUE], type |-> type, computation |-> FALSE,
   blocks |-> <<Heading>>]
ProjectText == ConceptText("Project", {"type", "title", "description", "status"})
RootIndex ==
  IndexText(Section({Ref("", <<>>, "project", TRUE)}) \o Section({Ref("", <<d>>, "index", TRUE) : d \in LayoutDirectories}), TRUE)
NoDirectoryFiles == <<>>
DirectoryFiles == [p \in IndexFiles |-> Plain(<<Heading>>)]
Files == (IndexOf(<<>>) :> RootIndex) @@ (Path(<<>>, "log", TRUE) :> LogText)
         @@ (Path(<<>>, "project", TRUE) :> ProjectText) @@ DirectoryFiles

----------------------------------------------------------------------------
(* validate: the bundle below a root, linted under a configuration.        *)

BundleAt(disk, root) ==
  LET below == {p \in DOMAIN disk.texts : Len(p.dir) >= Len(root) /\ SubSeq(p.dir, 1, Len(root)) = root}
      Local(p) == Path(SubSeq(p.dir, Len(root) + 1, Len(p.dir)), p.name, p.md)
  IN Load([texts |-> [q \in {Local(p) : p \in below} |-> disk.texts[Inside(root, q)]], unreadable |-> {}])
LintRules(config) ==
  [types |-> [t \in Keys(config, <<"types">>) |->
                [required |-> Get(config, <<"types", t, "required">>, {}),
                 values |-> [f \in {g \in Keys(config, <<"types", t, "fields">>) :
                                     <<"types", t, "fields", g, "values">> \in DOMAIN config} |->
                               Keys(config, <<"types", t, "fields", f, "values">>)]]],
   required |-> Get(config, <<"concepts", "required">>, {}), agent |-> Get(config, <<"actors", "agent">>, "none"), now |-> 1]
Verifiable(config) == {t \in Keys(config, <<"types">>) : Get(config, <<"types", t, "require_verified">>, FALSE)}
(* A concept as the lint rules see it, with the values of a surface's keys. *)
Seen(bundle, surfaces, p) ==
  LET keys == DOMAIN bundle.texts[p].fields
      of == {s \in surfaces : p = Path(<<"surfaces">>, s.file, TRUE)}
  IN [path |-> p, type |-> bundle.texts[p].type, status |-> IF "status" \in keys THEN "draft" ELSE "none",
      verified |-> <<>>, binding |-> [by |-> "nobody", at |-> 0, content |-> "nothing"], content |-> "x", odd |-> {},
      stale |-> 0, generated |-> "none", keys |-> keys, sources |-> {}, marks |-> <<>>, refs |-> <<>>, slugs |-> {}, globs |-> {},
      fields |-> UNION {{[key |-> "kind", value |-> s.kind], [key |-> "audience", value |-> s.audience]} : s \in of}]
Run(bundle, surfaces, config, profile) ==
  LET concepts == {Seen(bundle, surfaces, p) : p \in bundle.concepts}
      R == LintRules(config)
      found == {d.code : d \in bundle.diagnostics \cup MissingIndex(bundle)}
               \cup {d.code : d \in UNION {V(Verifiable(config))!Findings(concepts, bundle.files, {}, R, c) : c \in concepts}}
  IN {code \in found : code \notin Codes \/ SeverityFor(config, code) # "off"}
     \cup IF profile \in DOMAIN Profiles THEN Check({p \in bundle.concepts : bundle.texts[p].type = "Project"}) ELSE {}

----------------------------------------------------------------------------
(* init.ts: nothing is written before everything is known to be free.      *)

Refused(disk, error) == [error |-> error, disk |-> disk, projectRoot |-> <<>>, bundleRoot |-> <<>>, profile |-> "none", found |-> {}]
InitProgram(disk, input) ==
  LET discovered == Discover(disk, input)
      file == FileConfig(discovered.sources)
      answers == Wizard(input, [profile |-> Get(file, <<"bundle", "profile">>, "software-project"),
                                bundle |-> Get(file, <<"bundle", "path">>, Below(<<"okf">>)), location |-> ConfigNames[3]])
      profile == answers.profile
      bundle == Sole(answers.bundle)
      merged == (<<"bundle", "path">> :> Leaf(bundle)) @@ Layered(Profiles, profile, file)
      (* The directory of the discovered file is not handed on. *)
      projectRoot == ResolveProjectRoot(input, [i \in DOMAIN discovered.sources |-> [discovered.sources[i] EXCEPT !.dir = {}]])
      bundleRoot == ResolveBundleRoot(projectRoot, bundle)
      location == projectRoot \o Sole(answers.location)
      existing == \/ TargetConfigs(projectRoot) \cap DOMAIN disk.configs # {}
                  \/ TargetFiles(bundleRoot) \cap DOMAIN disk.texts # {}
      after == [disk EXCEPT !.configs = (location :> [parses |-> TRUE, doc |-> Encode(ConfigValue(bundle, profile))]) @@ @,
                            !.texts = [p \in {Inside(bundleRoot, q) : q \in DOMAIN Files} |->
                                         Files[Path(SubSeq(p.dir, Len(bundleRoot) + 1, Len(p.dir)), p.name, p.md)]] @@ @]
  IN CASE discovered.error # "none" -> Refused(disk, discovered.error)
       [] discovered.error = "none" /\ answers.error # "none" -> Refused(disk, answers.error)
       [] OTHER -> IF existing THEN Refused(disk, "overwrite")
                   ELSE [error |-> "none", disk |-> after, projectRoot |-> projectRoot, bundleRoot |-> bundleRoot,
                         profile |-> profile, found |-> Run(BundleAt(after, bundleRoot), {}, merged, profile)]

----------------------------------------------------------------------------
(* Initializing changes no file that is there and writes nothing when it is *)
(* refused; afterwards it is refused, and every other command, from the     *)
(* same place or from the project, finds the new configuration, with the    *)
(* roots and the profile that were answered (init.ts:208): unless, after    *)
(* --config, a file it did not read is malformed.                           *)
InitAgrees(disk, input) ==
  LET r == InitProgram(disk, input)
      from == {[input EXCEPT !.config = {}, !.root = {}, !.cwd = r.projectRoot]} \cup {i \in {input} : i.config = {}}
  IN IF r.error # "none" THEN r.disk = disk
     ELSE /\ \A p \in DOMAIN disk.configs : r.disk.configs[p] = disk.configs[p]
          /\ \A p \in DOMAIN disk.texts : r.disk.texts[p] = disk.texts[p]
          /\ InitProgram(r.disk, input).error = "overwrite"
          /\ \A i \in from :
               LET later == ResolveProjectConfig(r.disk, i, Profiles)
               IN IF later.error # "none" THEN input.config # {}
                  ELSE /\ later.projectRoot = r.projectRoot /\ later.bundleRoot = r.bundleRoot
                       /\ later.profileName = r.profile

(* A new bundle validates without a finding, under the configuration that   *)
(* is found afterwards and, where none was before, at once; its index is    *)
(* the one sync derives.  With the surfaces of any documentation preset, or *)
(* of one with the site, it still does, and each of them routes its readers *)
(* to a surface that is there (scaffold.ts:145, presets/surfaces.ts).       *)
WithSurfaces(disk, root, surfaces) ==
  [disk EXCEPT !.texts =
     [p \in {Inside(root, Path(<<"surfaces">>, s.file, TRUE)) : s \in surfaces} |->
        ConceptText("Surface", SurfaceKeys(CHOOSE s \in surfaces : s.file = p.name))] @@ @]
ScaffoldClean(disk, input) ==
  LET r == InitProgram(disk, input)
      config == ResolveProjectConfig(r.disk, [input EXCEPT !.config = {}, !.root = {}, !.cwd = r.projectRoot], Profiles).config
      bundle == BundleAt(r.disk, r.bundleRoot)
      fresh == BundleAt(disk, r.bundleRoot).files = {}
      Clean(surfaces) == Run(BundleAt(WithSurfaces(r.disk, r.bundleRoot, surfaces), r.bundleRoot), surfaces, config, r.profile) = {}
  IN r.error = "none" /\ fresh =>
       /\ Sources(disk, input) = <<>> => r.found = {}
       /\ Clean({}) /\ SyncIndex(bundle)[IndexOf(<<>>)] = bundle.texts[IndexOf(<<>>)]
       /\ \A set \in SurfaceSets : Clean(set) /\ \A s \in set : s.links_to \subseteq {t.file : t \in set}
=============================================================================
