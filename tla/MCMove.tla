-------------------------------- MODULE MCMove --------------------------------
(* Three concepts in three directories, one of them moved, each of the two *)
(* that matter holding one reference in any spelling of the sets below.     *)
EXTENDS Move

CONSTANT DestinationNames
Dirs == {<<>>, <<"a">>, <<"a", "s">>}
BareDirs == Dirs \cup {<<"..">>, <<"..", "a">>, <<"b">>}
Refs ==
  {Ref("", d, n, m) : d \in BareDirs, n \in {"x", "c"}, m \in BOOLEAN}
  \cup {Ref(l, d, n, TRUE) : l \in {"/", "./"}, d \in Dirs, n \in {"x", "c"}}
  \cup {Ref(l, d, "", FALSE) : l \in {"", "/"}, d \in {<<"a">>, <<"..">>}} \cup {Ref("/", <<>>, "", FALSE)}
  \cup {[Ref("", d, "x", TRUE) EXCEPT !.odd = TRUE] : d \in Dirs}
  \cup {[Ref("", <<>>, n, TRUE) EXCEPT !.field = "sources.resource"] : n \in {"x", "c"}}
X == Path(<<"a">>, "x", TRUE)
Attest(refs, at) == IF at THEN refs ELSE <<Ref("/", <<>>, "gone", TRUE)>>
Bundle(c, c2, r, xRefs, rRefs, at, loads) ==
  (X :> Text("x", xRefs, Attest(xRefs, at), TRUE))
  @@ (Path(c, "c", TRUE) :> Text("c", <<>>, Attest(<<>>, at), TRUE))
  @@ (Path(r, "r", TRUE) :> Text("r", rRefs, Attest(rRefs, at), TRUE))
  @@ (IF c2 THEN Path(<<>>, "c", TRUE) :> Text("c2", <<>>, Attest(<<>>, at), loads) ELSE <<>>)
  @@ (IndexOf(<<"a">>) :> Text("i", <<>>, <<>>, TRUE))
  @@ (IndexOf(<<>>) :> Text("j", <<>>, <<>>, TRUE))
MCBundles ==
  {Bundle(c, c2, r, <<x>>, <<>>, TRUE, TRUE) : c \in Dirs \ {<<>>}, c2 \in BOOLEAN, r \in {<<>>}, x \in Refs}
  \cup {Bundle(c, TRUE, r, <<Ref("./", <<>>, "x", TRUE)>>, <<x>>, TRUE, TRUE) : c \in {<<"a">>}, r \in Dirs, x \in Refs}
  \cup {Bundle(<<"a">>, TRUE, <<>>, <<x>>, <<y>>, FALSE, loads) :
          x \in {Ref("", <<>>, "c", TRUE)}, y \in {Ref("", <<"a">>, "x", FALSE)}, loads \in BOOLEAN}
MCMoves ==
  {[src |-> X, to |-> d \o <<n>>, slash |-> FALSE, cwd |-> <<"..">>] :
     d \in {<<>>, <<"a", "s">>, <<"b">>, <<"..">>}, n \in DestinationNames}
  \cup {[src |-> X, to |-> <<"b">>, slash |-> TRUE, cwd |-> <<"a">>],
        [src |-> X, to |-> <<"..", "x">>, slash |-> FALSE, cwd |-> <<"a">>],
        [src |-> X, to |-> <<"okf", "a">>, slash |-> FALSE, cwd |-> <<"..">>]}
=============================================================================
