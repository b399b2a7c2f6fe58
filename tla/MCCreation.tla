----------------------------- MODULE MCCreation -----------------------------
(***************************************************************************)
(* Inputs for the three creations: small trees of files of every length up  *)
(* to two chunks, of several names and of no contents.                      *)
(***************************************************************************)
EXTENDS Creation, TLC

Top == <<1>>
Other == <<2>>
X(d) == <<d, 1>>
Y(d) == <<d, 2>>
Z(d) == <<d, 3>>
MCPaths == {Top, X(1), Y(1), Z(1), Other, X(2)}

Is(kind, len, id, to) == [kind |-> kind, len |-> len, id |-> id, to |-> to]
None == Is("none", 0, 0, "none")
Dir == Is("dir", 0, 0, "none")
Special == Is("special", 0, 0, "none")
File(n) == Is("file", n, 0, "none")
Named(n) == Is("file", n, 7, "none")
Link(to) == Is("link", 1, 0, to)
At(f) == f @@ [p \in MCPaths |-> None]
Folder(x, y, z) == At(Top :> Dir @@ X(1) :> x @@ Y(1) :> y @@ Z(1) :> z)
Two(x, y, other) == At(Top :> Dir @@ X(1) :> x @@ Y(1) :> y @@ Other :> Dir @@ X(2) :> other)

Files == {File(n) : n \in {0, 1, 2, 5}}
Fully == {Folder(x, y, z) : x, y, z \in Files}
Mixed == {Folder(x, y, None) : x, y \in {File(1), Link("file"), Link("dir"), Link("none"), Special, Dir}}
Hard == {Folder(x, y, z) : x, y, z \in {File(1), Named(2)}} \cup {Two(Named(2), y, x) : x, y \in {File(1), Named(2)}}

Given(f, worlds, given, choices) == [format |-> f, worlds |-> worlds, inputs |-> given, choices |-> choices]
Common == [symlinks |-> TRUE, recursive |-> TRUE, sparse |-> FALSE]
Ways == [symlinks : BOOLEAN, recursive : BOOLEAN, sparse : BOOLEAN]

MCInputs ==
  {Given("zip", Fully, {<<Top>>}, {Common @@ [chunked |-> c] : c \in BOOLEAN}),
   Given("zip", Mixed \cup Hard, {<<Top>>, <<Top, Other>>, <<Y(1), X(1)>>, <<<<>>>>}, {w @@ [chunked |-> TRUE] : w \in Ways}),
   Given("tar", Fully, {<<Top>>}, {w @@ [wrapper |-> v, refused |-> FALSE] : v \in {"plain", "split", "staged"}, w \in {Common, [Common EXCEPT !.sparse = TRUE]}}),
   Given("tar", Mixed \cup Hard, {<<Top>>, <<Top, Other>>, <<X(2), Y(1), X(1)>>}, {w @@ [wrapper |-> "split", refused |-> r] : w \in Ways, r \in BOOLEAN}),
   Given("7z", Fully, {<<Top>>}, {Common @@ [refused |-> FALSE]}),
   Given("7z", Mixed \cup Hard, {<<Top>>, <<Top, Other>>}, {w @@ [refused |-> r] : w \in Ways, r \in BOOLEAN})}
=============================================================================
