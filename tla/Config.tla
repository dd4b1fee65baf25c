-------------------------------- MODULE Config --------------------------------
(***************************************************************************)
(* The configuration: its codec, layering and severities                   *)
(* (core/src/OkfitConfig.ts), the files it is found in and the roots they  *)
(* give a command (engine/src/config/).  A document maps the path of each  *)
(* of its keys to a value; a table is there with the keys below it.  Lint  *)
(* keys are spelled like their codes.                                      *)
(***************************************************************************)
EXTENDS Links, Functions, TLC

Table == <<"table">>
Leaf(v) == <<"leaf", v>>
List(s) == <<"list", s>>
Bad == <<"bad">>      \* a value that its schema refuses
Doc(entries) == [p \in {e[1] : e \in entries} |-> (CHOOSE e \in entries : e[1] = p)[2]]
Get(doc, p, default) == IF p \in DOMAIN doc THEN doc[p][2] ELSE default
Keys(doc, p) == {q[Len(p) + 1] : q \in {r \in DOMAIN doc : Len(r) > Len(p) /\ SubSeq(r, 1, Len(p)) = p}}

----------------------------------------------------------------------------
(* The schema: every table is a struct, which leaves out a key it does not *)
(* declare, or a record ("*"), which takes any.                            *)

Structs == {<<"bundle">>, <<"concepts">>, <<"concepts", "tags">>, <<"lifecycle">>, <<"actors">>, <<"lint">>, <<"types">>,
            <<"types", "*">>, <<"types", "*", "fields">>, <<"types", "*", "fields", "*">>,
            <<"types", "*", "fields", "*", "values">>, <<"tags">>, <<"tags", "*">>}
Lists == {<<"concepts", "required">>, <<"concepts", "tags", "required">>, <<"actors", "humans">>, <<"types", "*", "required">>}
Leaves == {<<"okf_version">>, <<"bundle", "path">>, <<"bundle", "profile">>, <<"lifecycle", "default_stale_after">>,
           <<"actors", "agent">>, <<"lint", "*">>, <<"types", "*", "description">>, <<"types", "*", "guidance">>,
           <<"types", "*", "require_verified">>, <<"types", "*", "fields", "*", "description">>,
           <<"types", "*", "fields", "*", "kind">>, <<"types", "*", "fields", "*", "values", "*">>, <<"tags", "*", "description">>}

Codes == {"broken-links", "missing-index", "unknown-type", "required-key-missing", "field-value-unknown",
          "require-verified-unmet", "family-invalid", "computation-runtime-missing", "footnote-source-unknown",
          "footnote-undefined", "log-frontmatter", "actor-prefix-unknown", "actor-email", "verified-actor-unknown",
          "legacy-timestamp", "config-unknown-key", "stale", "walk-unreadable", "generated-at-drift", "verified-drift",
          "status-missing", "source-resource-missing", "generated-missing", "publication-drift", "publication-orphan",
          "surface-unmatched"}

Fits(pattern, p) == Len(pattern) = Len(p) /\ \A i \in DOMAIN p : pattern[i] \in {"*", p[i]}
Kind(p) ==
  CASE p[1] = "lint" /\ Len(p) = 2 -> IF p[2] \in Codes THEN "leaf" ELSE "none"
    [] \E s \in Structs : Fits(s, p) -> "table"
    [] \E l \in Lists : Fits(l, p) -> "list"
    [] \E l \in Leaves \ {<<"lint", "*">>} : Fits(l, p) -> "leaf"
    [] OTHER -> "none"
KnownKeys == {s[1] : s \in {t \in Structs \cup Leaves : Len(t) = 1}}
Known(doc) == {p \in DOMAIN doc : p[1] \in KnownKeys}
FieldsDescribed(doc) ==
  \A p \in {q \in Known(doc) : Fits(<<"types", "*", "fields", "*">>, q)} : Append(p, "description") \in DOMAIN doc

----------------------------------------------------------------------------
(* The codec: what is not a key of the configuration is kept apart. *)

Malformed(raw) == \/ \E p \in Known(raw) : Kind(p) # "none" /\ raw[p][1] # Kind(p)
                  \/ ~FieldsDescribed(raw)
Decode(raw) ==
  LET kept == {p \in Known(raw) : Kind(p) # "none"}
      others == DOMAIN raw \ Known(raw)
  IN [p \in kept |-> raw[p]]
     @@ [q \in {<<"extensions">> \o p : p \in others} |-> raw[Tail(q)]]
     @@ (<<"extensions">> :> Table)
Encode(config) ==
  LET known == {p \in DOMAIN config : p[1] # "extensions"}
      extensions == {Tail(p) : p \in {q \in DOMAIN config : Len(q) > 1 /\ q[1] = "extensions"}}
  IN [p \in known |-> config[p]]
     @@ [p \in {q \in extensions : <<q[1]>> \notin known} |-> config[<<"extensions">> \o p]]

(* Tables are merged key by key, anything else is replaced as a whole. *)
Merge(base, override) ==
  LET replaced == {p \in DOMAIN override : override[p] # Table}
      Kept(p) == \A n \in 1 .. Len(p) - 1 : SubSeq(p, 1, n) \notin replaced
  IN override @@ [p \in {q \in DOMAIN base : Kept(q)} |-> base[p]]

DefaultLint(code) ==
  CASE code \in {"unknown-type", "required-key-missing", "field-value-unknown", "require-verified-unmet", "family-invalid",
                 "computation-runtime-missing", "publication-orphan"} -> "error"
    [] code \in {"actor-prefix-unknown", "legacy-timestamp", "stale"} -> "info"
    [] code = "status-missing" -> "off"
    [] OTHER -> "warn"
Below(segments) == [abs |-> FALSE, segments |-> segments]
Defaults ==
  Doc({<<t, Table>> : t \in {<<"bundle">>, <<"concepts">>, <<"concepts", "tags">>, <<"lifecycle">>, <<"actors">>,
                             <<"lint">>, <<"types">>, <<"tags">>, <<"extensions">>}}
      \cup {<<l, List({})>> : l \in {<<"concepts", "required">>, <<"concepts", "tags", "required">>, <<"actors", "humans">>}}
      \cup {<< <<"lint", code>>, Leaf(DefaultLint(code))>> : code \in Codes}
      \cup {<< <<"okf_version">>, Leaf("0.2")>>, << <<"bundle", "path">>, Leaf(Below(<<"okf">>))>>,
            << <<"bundle", "profile">>, Leaf("software-project")>>,
            << <<"lifecycle", "default_stale_after">>, Leaf([n |-> 90, unit |-> "d"])>>})

ToSeverity(level) == IF level = "warn" THEN "warning" ELSE level
SeverityFor(config, code) ==
  IF code = "unknown-type" /\ Keys(config, <<"types">>) = {} THEN "off"
  ELSE ToSeverity(Get(config, <<"lint", code>>, DefaultLint(code)))

----------------------------------------------------------------------------
(* Discovery (layer.ts): the file of --config alone, else the nearest      *)
(* directory's first name, then the person's and the system's files.  Only *)
(* the first file counts, but each is read (ConfigFile.discover).          *)

ConfigNames == << <<".okfit.toml">>, <<"okfit.toml">>, <<".config", "okfit.toml">> >>
Source(path, resolver, dir, disk) ==
  [path |-> path, resolver |-> resolver, dir |-> dir, text |-> disk.configs[path]]
UpwardWalk(disk, cwd) ==
  LET At(n) == [i \in DOMAIN ConfigNames |-> [dir |-> SubSeq(cwd, 1, n), name |-> ConfigNames[i]]]
      spots == FoldLeft(LAMBDA out, k : out \o At(Len(cwd) - k), <<>>, [k \in 1 .. Len(cwd) + 1 |-> k - 1])
      found == SelectSeq(spots, LAMBDA s : s.dir \o s.name \in DOMAIN disk.configs)
  IN IF found = <<>> THEN <<>> ELSE <<Source(found[1].dir \o found[1].name, "project", {found[1].dir}, disk)>>
Sources(disk, input) ==
  IF input.config # {}
  THEN [i \in 1 .. 1 |-> Source(CHOOSE p \in input.config : TRUE, "explicit", {}, disk)]
  ELSE UpwardWalk(disk, IF input.root = {} THEN input.cwd ELSE CHOOSE r \in input.root : TRUE)
       \o [i \in DOMAIN disk.personal |-> Source(disk.personal[i], "personal", {}, disk)]

Unreadable(source) == ~source.text.parses \/ Malformed(source.text.doc)
(* provideConfig: a missing --config fails before anything else. *)
Discover(disk, input) ==
  LET sources == Sources(disk, input)
      bad == SelectSeq(sources, Unreadable)
  IN CASE ~(input.config \subseteq DOMAIN disk.configs) -> [error |-> "config-path-not-found", sources |-> <<>>]
       [] input.config \subseteq DOMAIN disk.configs /\ bad # <<>> -> [error |-> "config-malformed", sources |-> <<>>]
       [] OTHER -> [error |-> "none", sources |-> sources]
FileConfig(sources) == IF sources = <<>> THEN <<"extensions">> :> Table ELSE Decode(sources[1].text.doc)

----------------------------------------------------------------------------
(* anchor.ts, resolve.ts: the roots of the project and of its bundle. *)

AnchorForExplicit(path) ==
  LET parent == Front(path) IN IF parent # <<>> /\ Last(parent) = ".config" THEN Front(parent) ELSE parent
Sole(S) == CHOOSE x \in S : TRUE
ResolveProjectRoot(input, discovered) ==
  CASE input.root # {} -> Sole(input.root)
    [] input.root = {} /\ input.config # {} -> AnchorForExplicit(Sole(input.config))
    [] OTHER -> IF discovered # <<>> /\ discovered[1].resolver = "project" /\ discovered[1].dir # {}
                THEN Sole(discovered[1].dir) ELSE input.cwd
ResolveBundleRoot(projectRoot, path) ==
  SelectSeq(Normal((IF path.abs THEN <<>> ELSE projectRoot) \o path.segments), LAMBDA s : s # "..")

(* profiles: the configurations of the registered profiles. *)
Layered(profiles, name, file) ==
  Merge(IF name \in DOMAIN profiles THEN Merge(Defaults, profiles[name]) ELSE Defaults, file)
ResolveProjectConfig(disk, input, profiles) ==
  LET discovered == Discover(disk, input)
      file == FileConfig(discovered.sources)
      name == Get(file, <<"bundle", "profile">>, "software-project")
      config == Layered(profiles, name, file)
      root == ResolveProjectRoot(input, discovered.sources)
  IN [error |-> discovered.error, projectRoot |-> root, config |-> config, profileName |-> name,
      bundleRoot |-> ResolveBundleRoot(root, Get(config, <<"bundle", "path">>, Below(<<"okf">>)))]
=============================================================================
