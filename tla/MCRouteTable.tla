---------------------------- MODULE MCRouteTable ----------------------------
(* Small sets of routes and targets for RouteTable. *)
EXTENDS RouteTable

a == Static("a")
b == Static("b")
c == Static("a:b")
x == Param("x")
y == Param("y")

MCForms == [s \in {"", "a", "b", "a:b", "%61", "a+b", "%zz"} |->
              CASE s = "%61" -> "escaped" [] s = "a+b" -> "plus" [] s = "%zz" -> "malformed"
                [] OTHER -> "plain"]
MCColons == {"a:b"}

Of(methods, sorts, patterns) == [method : methods, sort : sorts, pattern : patterns]
To(path) == [path |-> path, query |-> FALSE]
Asking(path) == [path |-> path, query |-> TRUE]

\* Shapes that overlap at every depth, so that a search goes wrong and comes
\* back; a colon inside a segment; bodies with tokens; handlers among templates.
MCRegistrable ==
  Of({"GET"}, {"template"}, {<<a>>, <<c>>, <<x>>, <<a, x>>, <<x, b>>, <<a, y, b>>, <<x, y>>, <<a, b>>})
  \cup Of({"HEAD"}, {"template"}, {<<a>>, <<x>>, <<a, x>>})
  \cup Of({"GET"}, {"tokens"}, {<<a>>, <<x, b>>})
  \cup Of({"GET"}, {"handler"}, {<<a>>, <<x>>, <<y, b>>, <<a, x>>})

MCTargets ==
  {To(<<"">>), To(<<"a">>), Asking(<<"a">>), To(<<"a", "">>), To(<<"a:b">>), To(<<"b">>),
   To(<<"%61", "">>), To(<<"a", "b">>), Asking(<<"b", "b">>), To(<<"a", "a">>),
   To(<<"b", "%zz">>), To(<<"", "b">>), To(<<"a", "b", "b">>), Asking(<<"a", "", "b">>),
   To(<<"b", "a", "b">>), To(<<"b", "a+b">>)}

=============================================================================
