---------------------------- MODULE MCAlgorithms ----------------------------
(* The pure algorithms, each over every input of a bounded set: a state is an *)
(* algorithm and an input of it, or the algorithm that is about to begin.  A *)
(* property is stated of the step that chooses the input.                    *)
EXTENDS Integers, Sequences, FiniteSets

VARIABLE case

S == INSTANCE Splice
F == INSTANCE Format WITH Dotted <- {"v.1"}, FamilyKeys <- {"title", "generated", "verified"},
                          ComputationKeys <- {"runtime", "executor"}, Skipped <- {".git"}, MaxDepth <- 3
C == INSTANCE Scaffold WITH Dotted <- {}, FamilyKeys <- {"title", "description", "status"}, ComputationKeys <- {},
                            Skipped <- {".git"}, MaxDepth <- 3
O == INSTANCE Overlay WITH Dotted <- {}, FamilyKeys <- {"title"}, ComputationKeys <- {}, Skipped <- {".git"}, MaxDepth <- 3
Q == INSTANCE Query WITH Dotted <- {"pic"}, Humans <- {"human:ann"}, AllowList <- {}, Unhashable <- {}, Required <- {},
                         Odd <- {}, Emails <- {}, Twice <- [n \in {"a.md"} |-> "a"]
H == INSTANCE Stamps WITH Dotted <- {}
A(allow, roster) ==
  INSTANCE Actions WITH Dotted <- {"v.1"}, Humans <- {"human:ann", "human:Ann", "human:bob", "human:eve"},
    AllowList <- allow, Roster <- roster, Unhashable <- {"surrogate"}, Required <- {"Decision"},
    Odd <- {"team:x"}, Emails <- {"human:a@b"}, Invalid <- {"team:x", "human:a@b", "human:*"},
    Folded <- [a \in {"human:ann", "human:Ann", "human:bob", "human:eve"} |-> IF a = "human:Ann" THEN "human:ann" ELSE a]

----------------------------------------------------------------------------
(* Splice: every order of the keys of a frontmatter, with the shapes the *)
(* repository's files and an author's own edits give them.               *)
Ann(at) == [by |-> "ann", at |-> at]
Bob(at) == [by |-> "bob", at |-> at]
Shapes(k) ==
  CASE k \in {"type", "title"} -> {<<S!Key(k), S!Cell(k, "value", "v")>>}
    [] k = "status" -> {<<S!Key(k), S!Cell(k, "value", "draft")>>, <<S!Key(k), S!Cell(k, "odd", 0)>>}
    [] k = "stale_after" -> {<<S!Key(k), S!Cell(k, "value", "v")>>}
    [] k = "verified" ->
         {<<S!Key(k)>>, <<S!Key(k), S!Cell(k, "item", Bob(1))>>,
          <<S!Key(k), S!Cell(k, "item", Ann(1)), S!Cell(k, "item", Bob(1)), S!Cell(k, "item", Ann(1))>>,
          <<S!Key(k), S!Cell(k, "flow", <<Bob(1)>>)>>, <<S!Key(k), S!Cell(k, "bare", Ann(1))>>}
    [] k = "integrity" ->
         {<<S!Key(k)>>, <<S!Key(k), S!Cell(k, "generated", "d0")>>, <<S!Key(k), S!Cell(k, "verified", Ann(1))>>,
          <<S!Key(k), S!Cell(k, "generated", "d0"), S!Cell(k, "verified", Bob(1)), S!Cell(k, "other", 0)>>}
    [] k = "generated" ->
         {<<S!Key(k)>>, <<S!Key(k), S!Cell(k, "by", "bot")>>,
          <<S!Key(k), S!Cell(k, "by", "bot"), S!Cell(k, "at", 1), S!Cell(k, "body_sha256", "x")>>}
Orders == UNION {S!SetToSeqs({"type"} \cup K) :
                   K \in SUBSET {"title", "status", "verified", "integrity"}}
          \cup UNION {S!SetToSeqs({"type", "verified"} \cup K) : K \in SUBSET {"integrity", "stale_after"}}
          \cup UNION {S!SetToSeqs({"type"} \cup K) : K \in SUBSET {"generated", "integrity"}}
Texts(order) == S!FoldLeft(LAMBDA ts, k : {t \o shape : t \in ts, shape \in Shapes(k)}, {<<>>}, order)
Splice == \E order \in Orders : \E t \in Texts(order) : case' = [alg |-> "splice", in |-> t]

Spliced(t) ==
  /\ \A status \in {"keep", "stable"} : S!VerifyExact(t, Ann(2), status)
  /\ S!RefreshExact(t, Ann(2), "w")
  /\ S!SyncExact(t, 2, "bot", "d1")
  /\ S!RevokeExact(t, "ann")
SplicesExact == [][case'.alg = "splice" => Spliced(case'.in)]_case

----------------------------------------------------------------------------
(* Format: one file of every kind with every frontmatter and two blocks, and *)
(* every tree of seven files that may be concepts or indexes.                *)
Block(type, items, date) == [type |-> type, items |-> items, date |-> date]
Item(link, text) == [link |-> link, text |-> text, ref |-> F!Ref("", <<>>, "a", TRUE)]
Blocks == {Block("h1", <<>>, FALSE), Block("h2", <<>>, TRUE), Block("h2", <<>>, FALSE), Block("other", <<>>, FALSE),
           Block("list", <<Item(TRUE, TRUE)>>, FALSE), Block("list", <<Item(FALSE, FALSE), Item(TRUE, TRUE)>>, FALSE)}
Text(fence, yaml, fields, type, computation, blocks) ==
  [fence |-> fence, yaml |-> yaml, fields |-> fields, type |-> type, computation |-> computation, blocks |-> blocks]
BlockLists == {<<>>} \cup {<<a, b>> : a \in Blocks, b \in Blocks}
Fields == UNION {[K -> BOOLEAN] : K \in {{}, {"type"}, {"okf_version"}, {"type", "title"}, {"type", "timestamp", "x"},
                   {"type", "timestamp", "generated"}, {"type", "title", "verified", "executor"},
                   {"type", "runtime", "executor", "okf_version"}}}
Paths == {F!Path(d, n, TRUE) : d \in {<<>>, <<"d">>}, n \in {"a", "index", "log"}}
         \cup {F!Path(<<".git">>, "a", TRUE), F!Path(<<"d">>, "pic", FALSE), F!Path(<<"d", "d", "d", "d">>, "a", TRUE)}
OneFile ==
  {[texts |-> [q \in {p} |-> Text(f[1], f[2], k, "A", c, b)], unreadable |-> u] :
     p \in Paths, f \in {<<"absent", TRUE>>, <<"unclosed", TRUE>>, <<"closed", TRUE>>, <<"closed", FALSE>>},
     k \in Fields, c \in BOOLEAN, b \in {<<>>}, u \in {{}, {<<"d">>}}}
  \cup {[texts |-> [q \in {p} |-> Text("closed", TRUE, <<>>, "A", FALSE, b)], unreadable |-> {}] :
         p \in Paths, b \in BlockLists}
Concept(type) == Text("closed", TRUE, [k \in {"type"} |-> TRUE], type, FALSE, <<>>)
Index == Text("absent", TRUE, <<>>, "", FALSE, <<>>)
Tree == {F!Path(<<>>, "a", TRUE), F!Path(<<"d">>, "b", TRUE), F!Path(<<"d">>, "c", TRUE), F!Path(<<"d", "e">>, "a", TRUE),
         F!Path(<<"f", "e">>, "b", TRUE)} \cup {F!IndexOf(d) : d \in {<<>>, <<"d">>, <<"f">>, <<"f", "g">>}}
Trees == {[texts |-> [p \in P |-> IF p.name = "index" THEN Index ELSE Concept(IF p.name = "b" THEN "B" ELSE "A")],
           unreadable |-> {}] : P \in SUBSET Tree}
Format == \/ \E disk \in OneFile : case' = [alg |-> "load", in |-> disk]
          \/ \E disk \in Trees : case' = [alg |-> "index", in |-> disk]

LoadAccounts == [][case'.alg = "load" => F!LoadAccounts(case'.in)]_case
IndexesSettle == [][case'.alg = "index" => F!IndexesSettle(case'.in)]_case

----------------------------------------------------------------------------
(* Actions: concepts with up to two verifications, by everyone who may; the  *)
(* allow-list is empty, or two of the three people.                          *)
Lists == {<<{}, <<>>>>, <<{"human:ann", "human:Ann", "human:bob"}, <<"human:Ann">>>>}
Stamps == {[by |-> b, at |-> at] : b \in {"human:ann", "human:Ann", "human:eve", "bot/1"}, at \in {1, 2}}
Identity(chosen, local, slug) == [chosen |-> chosen, local |-> local, slug |-> slug]
Identities == {Identity("human:bob", "none", "none"), Identity("human:ann", "none", "none"), Identity("team:x", "human:bob", "none"),
               Identity("none", "human:eve", "human:ann"), Identity("none", "none", "human:eve"), Identity("none", "none", "none")}
Drafted(type, status, verified, binding, content, odd) ==
  [path |-> F!Path(<<>>, "a", TRUE), type |-> type, status |-> status, verified |-> verified, binding |-> binding,
   content |-> content, odd |-> odd, stale |-> 0, generated |-> "none", keys |-> {"type"}, fields |-> {}, sources |-> {},
   marks |-> <<>>, refs |-> <<>>, slugs |-> {}, globs |-> {}, tags |-> {}]
Nobody == [by |-> "nobody", at |-> 0, content |-> "nothing"]
Bindings(verified) ==
  {Nobody} \cup {[by |-> verified[i].by, at |-> verified[i].at, content |-> k] :
                 i \in {j \in DOMAIN verified : verified[j].by # "bot/1"}, k \in {"x", "y"}}
Marks == << [label |-> "s", defines |-> FALSE, code |-> FALSE], [label |-> "n", defines |-> FALSE, code |-> FALSE],
            [label |-> "n", defines |-> TRUE, code |-> TRUE] >>
Globs == {[compiles |-> TRUE, deep |-> FALSE, segments |-> 2, skipped |-> {".git"}, links |-> {<<"l">>},
           entries |-> {[names |-> <<"l", "x">>, matches |-> TRUE], [names |-> <<"m", "x">>, matches |-> m]}] : m \in BOOLEAN}
Drafts ==
  UNION {{[Drafted(t, s, v, b, k, o) EXCEPT !.marks = Marks, !.sources = {"s"}, !.globs = Globs] : b \in Bindings(v)} :
           t \in {"Decision", "Note"}, s \in {"none", "draft", "stable", "deprecated"},
           v \in {<<>>} \cup {<<e>> : e \in Stamps} \cup {<<e, f>> : e \in Stamps, f \in Stamps},
           k \in {"x", "surrogate"}, o \in {{}, {"status"}, {"integrity"}}}
LintConfig == [types |-> [t \in {"Decision"} |-> [required |-> {"title"}, values |-> <<>>]], required |-> {"status"},
               agent |-> "bot/1", now |-> 3]
Actions == \E c \in Drafts : case' = [alg |-> "actions", in |-> c]

Fixed(c) ==
  \A l \in Lists : \A git \in Identities : \A inside \in BOOLEAN : A(l[1], l[2])!FixesHold(c, LintConfig, git, inside)
FixesHold == [][case'.alg = "actions" => Fixed(case'.in)]_case

----------------------------------------------------------------------------
(* Lint: a concept with one reference, in a bundle of three, with a picture  *)
(* and the indexes of both directories.                                      *)
Linking(path, refs) == [Drafted("Note", "stable", <<>>, Nobody, "x", {}) EXCEPT !.path = path, !.refs = refs, !.slugs = {"s"}]
Bundle == {F!Path(<<>>, "a", TRUE), F!Path(<<"d">>, "a", TRUE), F!Path(<<>>, "v.1", TRUE)}
References ==
  {[ref |-> [F!Ref(l, d, n, m) EXCEPT !.field = f], self |-> s, fragment |-> g] :
     l \in {"", "/", "./"}, d \in {<<>>, <<"d">>, <<"..">>}, n \in {"", "a", "v.1", "pic"}, m \in BOOLEAN,
     f \in {"body", "resource", "sources.resource"}, s \in BOOLEAN, g \in {"none", "s", "t"}}
Lint == \E from \in Bundle : \E r \in References :
  case' = [alg |-> "lint", in |-> {Linking(p, IF p = from THEN <<r>> ELSE <<>>) : p \in Bundle}]

Files == Bundle \cup {F!Path(<<"d">>, "pic", FALSE), F!IndexOf(<<>>), F!IndexOf(<<"d">>)}
BrokenIffLost == [][case'.alg = "lint" => A({}, <<>>)!BrokenIffLost(case'.in, Files)]_case

----------------------------------------------------------------------------
(* Scaffold: every one or two of five configuration files, a text in one of  *)
(* two places, and the flags and answers of a run in a project or below it.  *)
Dir(segments) == C!Below(segments)
Entries(more) == C!Doc({<< <<"extra">>, C!Table>>, << <<"extra", "k">>, C!Leaf("v")>>} \cup more)
TableOf(name) == << <<name>>, C!Table>>
Bundled(dir, profile) == Entries({TableOf("bundle"), << <<"bundle", "path">>, C!Leaf(dir)>>, << <<"bundle", "profile">>, C!Leaf(profile)>>})
Docs == {[parses |-> TRUE, doc |-> Bundled(Dir(<<"..", "kb">>), "none")],
         [parses |-> TRUE, doc |-> Entries({TableOf("lint"), << <<"lint", "stale">>, C!Leaf("off")>>, << <<"lint", "odd">>, C!Leaf("off")>>})],
         [parses |-> TRUE, doc |-> Entries({TableOf("lint"), << <<"lint", "stale">>, C!Bad>>})]}
ConfigPaths == {<<"p", ".okfit.toml">>, <<"p", "q", "okfit.toml">>, <<"p", ".config", "okfit.toml">>, <<"p", "ci.toml">>}
Personal == <<"home", "config.toml">>
ConfigFiles ==
  {<<>>} \cup UNION {[{a, b} -> Docs] : a \in ConfigPaths, b \in ConfigPaths \cup {Personal}}
Places == {F!Path(<<"p", "okf">>, "a", TRUE), F!IndexOf(<<"p", "q", "okf">>)}
Disks ==
  {[configs |-> f, personal |-> IF Personal \in DOMAIN f THEN <<Personal>> ELSE <<>>,
    texts |-> [p \in t |-> C!ConceptText("Note", {"type", "title", "description", "status"})]] :
     f \in ConfigFiles, t \in {{}} \cup {{p} : p \in Places}}
Inputs ==
  {[root |-> r, config |-> c, cwd |-> <<"p", "q">>, profile |-> IF r = {} THEN {} ELSE {"acme"}, bundle |-> b,
    location |-> IF b = {} THEN {} ELSE {C!ConfigNames[1]},
    interactive |-> y # 0, typed |-> [bundle |-> IF y = 2 THEN {} ELSE {Dir(<<"d", "kb">>)}, location |-> {C!ConfigNames[2]}]] :
     r \in {{}, {<<"p">>}}, c \in {{}, {<<"p", "ci.toml">>}}, b \in {{}, {Dir(<<"..">>)}, {Dir(<<"d", "..", "kb">>)}}, y \in 0 .. 2}
Scaffold == \E disk \in Disks : \E input \in Inputs : case' = [alg |-> "init", in |-> [disk |-> disk, input |-> input]]

InitAgrees == [][case'.alg = "init" => C!InitAgrees(case'.in.disk, case'.in.input)]_case
ScaffoldClean == [][case'.alg = "init" => C!ScaffoldClean(case'.in.disk, case'.in.input)]_case

----------------------------------------------------------------------------
(* Overlay: one or two documents, inside and outside of the bundle, spelled *)
(* in several ways, over disks with and without their directories.          *)
Root == <<"p", "okf">>
Spots == {F!Ref("/", <<>>, "a", TRUE), F!Ref("", <<>>, "a", FALSE), F!Ref("", <<"..">>, "a", TRUE)}
         \cup {F!Ref("", d, n, TRUE) : d \in {<<>>, <<"d">>, <<"d", "e">>, <<"d", "..">>, <<"..", "okf">>, <<".git">>}, n \in {"a", "index"}}
Documents == {[at |-> at, text |-> t] : at \in Spots, t \in {Concept("A"), Text("unclosed", TRUE, <<>>, "", FALSE, <<>>)}}
Drives ==
  {[dirs |-> D \cup {<<>>}, unreadable |-> u \cap D,
    texts |-> [p \in {q \in {F!Path(<<>>, "a", TRUE), F!Path(<<"d">>, "b", TRUE), F!IndexOf(<<"d">>)} : q.dir \in D \cup {<<>>}} |-> Concept("B")]] :
     D \in {{}, {<<"d">>}, {<<"d">>, <<"d", "e">>}, {<<".git">>}}, u \in {{}, {<<"d">>}}}
Overlay == \E disk \in Drives : \E docs \in {<<d>> : d \in Documents} \cup {<<d, e>> : d, e \in Documents} :
  case' = [alg |-> "overlay", in |-> [disk |-> disk, documents |-> docs]]

OverlayIsSaved == [][case'.alg = "overlay" => O!OverlayIsSaved(case'.in.disk, Root, case'.in.documents)]_case

----------------------------------------------------------------------------
(* Query: a bundle of some of seven files, one of them no concept, from     *)
(* three directories; one argument of every spelling, or two of some; and   *)
(* two concepts with one or two references and a verification each.         *)
Kept == {F!Path(<<>>, "a", TRUE), F!Path(<<"d">>, "a", TRUE), F!Path(<<"okf">>, "a", TRUE), F!Path(<<>>, "a.md", TRUE)}
Always == {F!Path(<<>>, "b", TRUE), F!IndexOf(<<"d">>), F!Path(<<>>, "pic", FALSE)}
Asked(p, refs, verified) ==
  [Drafted("Note", "none", verified, [by |-> "human:ann", at |-> 1, content |-> IF p.dir = <<>> THEN "x" ELSE "y"], "x", {})
     EXCEPT !.path = p, !.refs = [i \in DOMAIN refs |-> [ref |-> refs[i], self |-> FALSE, fragment |-> "none"]]]
Holding(files, concepts) == [root |-> Root, files |-> files, concepts |-> concepts]
DriveOf(P) == {F!Path(Root \o p.dir, p.name, p.md) : p \in P} \cup {F!Path(<<"p">>, "a", TRUE), F!Path(<<"d">>, "a", TRUE)}
Endings == ({"a", "index", "b", "pic"} \X BOOLEAN) \cup {<<"a.md", TRUE>>}   \* "a.md" alone is <<"a", TRUE>>
Arguments == {F!Ref(l, d, e[1], e[2]) : l \in {"", "/", "./"}, e \in Endings,
                d \in {<<>>, <<"d">>, <<"okf">>, <<"..">>, Root, Root \o <<"d">>}}
Few == {F!Ref(l, d, "a", TRUE) : l \in {"", "/"}, d \in {<<>>, <<"d">>, <<"okf">>, Root}} \cup {F!Ref("", <<>>, "a.md", TRUE)}
Targets == \E P \in SUBSET Kept : \E cwd \in {<<"p">>, Root, Root \o <<"d">>} :
             \E args \in {<<x>> : x \in Arguments} \cup {<<x, y>> : x, y \in Few} :
               case' = [alg |-> "targets", in |-> [files |-> P \cup Always, concepts |-> P, cwd |-> cwd, args |-> args]]
Spelled == {F!Ref(l, d, n, m) : l \in {"", "/"}, d \in {<<>>, <<"..">>, <<"d">>}, n \in {"a", "pic", "x"}, m \in BOOLEAN}
Neighbors == \E r \in Spelled : \E s \in Spelled : \E v, w \in {<<>>, <<[by |-> "human:ann", at |-> 1]>>} :
  case' = [alg |-> "neighbors", in |-> {Asked(F!Path(<<>>, "a", TRUE), <<r, s>>, v), Asked(F!Path(<<"d">>, "a", TRUE), <<s>>, w)}]

Exact(in) ==
  Q!TargetsExact(Holding(in.files, {Asked(p, <<>>, <<>>) : p \in in.concepts}), DriveOf(in.files), in.cwd, in.args, 3)
Mutual(concepts) ==
  Q!NeighborsMutual(Holding({c.path : c \in concepts} \cup Always, concepts), [types |-> <<>>, tags |-> {}], 3)
QueriesAgree == [][(case'.alg = "targets" => Exact(case'.in)) /\ (case'.alg = "neighbors" => Mutual(case'.in))]_case

----------------------------------------------------------------------------
(* Stamps: a note of every kind with every history of three commits, and a   *)
(* Publication of every kind with the note settled, edited or missing.       *)
Note == F!Path(<<>>, "note", TRUE)
Page == F!Path(<<"d">>, "page", TRUE)
Site == F!Path(<<>>, "site", TRUE)
Stamping(type, body, generated, stamp, garbled, renders, surface, odd) ==
  [type |-> type, words |-> "w", body |-> body, generated |-> generated, stamp |-> stamp, garbled |-> garbled,
   binding |-> "d", renders |-> renders, surface |-> surface, odd |-> odd]
Plain(type, body, generated, stamp, garbled, odd) == Stamping(type, body, generated, stamp, garbled, H!Malformed, <<>>, odd)
Written(at, legacy) == [by |-> "bot", at |-> at, legacy |-> legacy]
Notes == {Plain("Note", 1, g, s, z, o) : g \in {H!NoBlock} \cup {Written(at, l) : at \in 0 .. 2, l \in 0 .. 2},
            s \in 0 .. 2, z \in BOOLEAN, o \in {{}, {"integrity"}, {"generated"}}}
Histories ==
  {[born |-> TRUE, head |-> 1, log |-> <<>>], [born |-> FALSE, head |-> 0, log |-> <<>>], [born |-> TRUE, head |-> 0, log |-> <<>>],
   [born |-> TRUE, head |-> 2, log |-> <<[at |-> 1, body |-> 2, touched |-> TRUE]>>]}
  \cup {[born |-> TRUE, head |-> 1, log |-> <<[at |-> 4, body |-> b[1], touched |-> b[1] # 0], [at |-> 3, body |-> 1, touched |-> TRUE],
                                           [at |-> 2, body |-> b[2], touched |-> b[3]], [at |-> 1, body |-> b[4], touched |-> TRUE]>>] :
          b \in {0, 1} \X (0 .. 2) \X BOOLEAN \X (0 .. 2)}
Refs == {F!Ref(l, d, n, TRUE) : l \in {"", "/"}, d \in {<<>>, <<"..">>}, n \in {"note"}} \cup {F!Ref("", <<"..", "..">>, "note", TRUE)}
Rendered == {[ref |-> r, body |-> b, legacy |-> l] : r \in Refs, b \in 0 .. 2, l \in 0 .. 1}
Pages == {Stamping("Publication", 1, g, s, FALSE, r, u, o) :
            g \in {H!NoBlock, Written(1, 0), Written(2, 2)}, s \in 0 .. 1, u \in {<<>>, <<F!Ref("", <<"..">>, "site", TRUE)>>, <<F!Ref("", <<>>, "site", TRUE)>>},
            r \in {H!Malformed} \cup {H!Renders(e) : e \in {<<>>} \cup {<<x>> : x \in Rendered} \cup {<<x, [x EXCEPT !.body = 2, !.legacy = 0]>> : x \in Rendered}},
            o \in {{}, {"renders"}}}
Some == {Plain("Note", 1, Written(1, 0), 1, FALSE, {}), Plain("Note", 1, Written(1, 2), 0, FALSE, {})}
One == [born |-> TRUE, head |-> 1, log |-> <<[at |-> 3, body |-> 1, touched |-> TRUE]>>]
Resync ==
  \/ \E note \in Notes : \E git \in Histories : \E found \in BOOLEAN :
       case' = [alg |-> "stamps", in |-> [bundle |-> [p \in {Note} |-> note], repo |-> [found |-> found, files |-> [p \in {Note} |-> git]]]]
  \/ \E page \in Pages : \E note \in Some : \E type \in {"Surface", "Note"} :
       LET bundle == [p \in {Note, Page, Site} |-> IF p = Page THEN page ELSE IF p = Note THEN note ELSE Plain(type, 2, H!NoBlock, 2, FALSE, {})]
       IN case' = [alg |-> "stamps", in |-> [bundle |-> bundle, repo |-> [found |-> TRUE, files |-> [p \in DOMAIN bundle |-> One]]]]

Resynced(in) == \A agent \in {"none", "bot/1"} : H!StampsSettle(in.bundle, in.repo, agent)
StampsSettle == [][case'.alg = "stamps" => Resynced(case'.in)]_case

----------------------------------------------------------------------------
Begin(name) == case = [alg |-> "none", in |-> name]
Init == \/ Begin("splice") \/ Begin("stamps") \/ Begin("scaffold") \/ Begin("actions") \/ Begin("format")
        \/ Begin("lint") \/ Begin("overlay") \/ Begin("targets") \/ Begin("neighbors")

Next ==
  /\ case.alg = "none"
  /\ \/ case.in = "splice" /\ Splice
     \/ case.in = "stamps" /\ Resync
     \/ case.in = "scaffold" /\ Scaffold
     \/ case.in = "actions" /\ Actions
     \/ case.in = "format" /\ Format
     \/ case.in = "lint" /\ Lint
     \/ case.in = "overlay" /\ Overlay
     \/ case.in = "targets" /\ Targets
     \/ case.in = "neighbors" /\ Neighbors

Spec == Init /\ [][Next]_case
=============================================================================
