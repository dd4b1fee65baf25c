-------------------------------- MODULE Profile --------------------------------
(***************************************************************************)
(* The software-project profile (profiles/src/SoftwareProject.ts and       *)
(* presets/): what its types require, the layout of its bundle, its check  *)
(* and the documentation surfaces it offers.  Descriptions, guidance and   *)
(* the bodies of the surfaces are left out.                                *)
(***************************************************************************)
EXTENDS Config

(* Each concept directory with the type of what it holds. *)
Layout ==
  {<<"modules", "Module">>, <<"decisions", "Decision">>, <<"conventions", "Convention">>, <<"interfaces", "Interface">>,
   <<"references", "Reference">>, <<"runbooks", "Runbook">>, <<"glossary", "Glossary">>, <<"limitations", "Limitation">>,
   <<"models", "DataModel">>, <<"gotchas", "Gotcha">>, <<"consumers", "Consumer">>, <<"roadmaps", "Roadmap">>,
   <<"measurements", "Measurement">>, <<"invariants", "Invariant">>, <<"incidents", "Incident">>,
   <<"surfaces", "Surface">>, <<"publications", "Publication">>}
LayoutDirectories == {d[1] : d \in Layout}
Types == {d[2] : d \in Layout} \cup {"Project"}

RequiredOf(type) ==
  CASE type = "Module" -> {"resource", "kind"}
    [] type = "Interface" -> {"kind"}
    [] type = "Reference" -> {"sources"}
    [] type = "DataModel" -> {"resource"}
    [] type = "Consumer" -> {"repository"}
    [] type = "Incident" -> {"occurred"}
    [] type = "Surface" -> {"kind", "audience", "resource"}
    [] type = "Publication" -> {"resource", "surface", "renders"}
    [] OTHER -> {}
FieldsOf(type) ==
  CASE type = "Module" -> {"kind", "resource", "layer", "pins"}
    [] type = "Decision" -> {"supersedes"}
    [] type = "Interface" -> {"kind", "resource"}
    [] type \in {"Runbook", "DataModel", "Gotcha", "Invariant"} -> {"resource"}
    [] type = "Limitation" -> {"bounds"}
    [] type = "Consumer" -> {"repository"}
    [] type = "Roadmap" -> {"gate"}
    [] type = "Measurement" -> {"justifies"}
    [] type = "Incident" -> {"occurred", "guard"}
    [] type = "Surface" -> {"kind", "audience", "resource", "url", "links_to"}
    [] type = "Publication" -> {"resource", "surface", "renders"}
    [] OTHER -> {}
ValuesOf(type, field) ==
  CASE type = "Module" /\ field = "kind" ->
         {"workspace", "package", "website", "plugin", "action", "worker", "harness", "config-dependency"}
    [] type = "Interface" /\ field = "kind" -> {"api", "cli", "config", "wire", "mcp", "runtime"}
    [] type = "Surface" /\ field = "kind" -> {"site", "repo", "readme"}
    [] type = "Surface" /\ field = "audience" -> {"users", "contributors", "agents"}
    [] OTHER -> {}
Tags == {"architecture", "testing", "release", "security", "performance", "dx", "ci", "compat", "bundle", "observability",
         "deps", "github", "docs"}

SoftwareProject ==
  LET fields == UNION {{<<"types", t, "fields", f>> : f \in FieldsOf(t)} : t \in Types}
      valued == {p \in fields : ValuesOf(p[2], p[4]) # {}}
  IN Doc({<<p, Table>> : p \in {<<"concepts">>, <<"concepts", "tags">>, <<"lint">>, <<"types">>, <<"tags">>, <<"extensions">>}}
         \cup {<< <<"concepts", "required">>, List({"title", "description"})>>,
               << <<"concepts", "tags", "required">>, List({})>>, << <<"lint", "status-missing">>, Leaf("warn")>>,
               << <<"types", "Decision", "require_verified">>, Leaf(TRUE)>>}
         \cup {<< <<"types", t>>, Table>> : t \in Types}
         \cup {<< <<"types", t, "required">>, List(RequiredOf(t))>> : t \in {u \in Types : RequiredOf(u) # {}}}
         \cup {<< <<"types", t, "fields">>, Table>> : t \in {u \in Types : FieldsOf(u) # {}}}
         \cup {<<p, Table>> : p \in fields}
         \cup {<<Append(p, "description"), Leaf("prose")>> : p \in fields}
         \cup {<<Append(p, "values"), Table>> : p \in valued}
         \cup UNION {{<<p \o <<"values", v>>, Leaf("prose")>> : v \in ValuesOf(p[2], p[4])} : p \in valued}
         \cup {<< <<"tags", t>>, Table>> : t \in Tags})
Profiles == "software-project" :> SoftwareProject

(* Exactly one Project, at the bundle root. *)
Check(projects) ==
  (IF projects = {} THEN {"project-missing"} ELSE {})
  \cup (IF Cardinality(projects) > 1 THEN {"project-multiple"} ELSE {})
  \cup (IF \E p \in projects : p.dir # <<>> THEN {"project-not-at-root"} ELSE {})

----------------------------------------------------------------------------
(* The surfaces a preset writes: the file, how it is published, who reads  *)
(* it and where it routes them.                                            *)

Surface(file, kind, audience, linksTo) ==
  [file |-> file, kind |-> kind, audience |-> audience, links_to |-> linksTo]
README_PACKAGE == Surface("readme-package", "readme", "users", {"docs-repo"})
README_PACKAGE_ONE_PAGE == Surface("readme-package", "readme", "users", {"site"})
README_ROOT == Surface("readme-root", "readme", "contributors", {})
README_ROOT_ONE_PAGE == Surface("readme-root", "readme", "contributors", {"site"})
README_PACKAGES == Surface("readme-packages", "readme", "users", {})
README_PACKAGES_ONE_PAGE == Surface("readme-packages", "readme", "users", {"site"})
DocsRepo(file, audience, linksTo) == Surface(file, "repo", audience, linksTo)
DOCS_PACKAGE == DocsRepo("docs-repo", "users", {})
DOCS_REPO == DocsRepo("docs-repo", "contributors", {"readme-root"})
DOCS_PACKAGES == DocsRepo("docs-packages", "users", {"readme-packages"})
CONTRIBUTOR_GUIDES == Surface("contributor-guides", "repo", "contributors", {"readme-root"})
SITE == Surface("site", "site", "users", {})

SitePreset == {SITE, README_ROOT_ONE_PAGE, README_PACKAGES_ONE_PAGE, README_PACKAGE_ONE_PAGE}
DocsPresets == {{README_PACKAGE, DOCS_PACKAGE}, {README_ROOT, README_PACKAGES},
                {README_ROOT, README_PACKAGES, DOCS_REPO, DOCS_PACKAGES, CONTRIBUTOR_GUIDES}}
(* The site replaces the README variants of the shape it is layered on. *)
WithSite(preset) ==
  LET files == {s.file : s \in preset}
      over == {s \in SitePreset : s.file \in files \cup {"site"}}
  IN over \cup {s \in preset : s.file \notin {o.file : o \in over}}
SurfaceSets == DocsPresets \cup {WithSite(p) : p \in DocsPresets} \cup {SitePreset}
SurfaceKeys(s) ==
  {"type", "status", "title", "description", "kind", "audience", "resource"}
  \cup (IF s.links_to = {} THEN {} ELSE {"links_to"}) \cup (IF s.kind = "site" THEN {"url"} ELSE {})
=============================================================================
