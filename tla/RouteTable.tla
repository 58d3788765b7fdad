------------------------------ MODULE RouteTable ------------------------------
(***************************************************************************)
(* The routers of Fearless over one list of registered routes.             *)
(*                                                                         *)
(*  - App.addRoute keeps a map of exact routes and a trie per method; Node *)
(*    answers every request with App.findRoute.                            *)
(*  - On Bun, App.listen also hands the template routes to Bun's own       *)
(*    router; only what that one does not match reaches findRoute.         *)
(*  - On Rust, App.listen writes the template routes to a manifest, from   *)
(*    which RouteTable::from_manifest builds its own map and tries.        *)
(*  - The build compiles routes into an AotRouteTable, a list searched     *)
(*    from the front.                                                      *)
(*                                                                         *)
(* A pattern is a sequence of segments, a request target the sequence of   *)
(* what stands between its slashes ("/" is <<"">>, "/a/" is <<"a", "">>)   *)
(* and whether a query follows.                                            *)
(***************************************************************************)
EXTENDS Naturals, Sequences, SequencesExt, FiniteSets

CONSTANTS
  Registrable,  \* the routes an app may register
  Methods,      \* the HTTP methods it uses
  Targets,      \* the request targets clients ask for
  Keys,         \* the names of parameters
  Forms,        \* how a segment of a target is written, see Decoded
  Colons,       \* static segments with a colon that is not their first character
  MaxRoutes     \* bound: how many routes an app registers

Param(k) == [param |-> TRUE, name |-> k]
Static(s) == [param |-> FALSE, name |-> s]
\* A template's body is plain or holds tokens, {{...}}.
Sorts == {"handler", "template", "tokens"}
AnyParam == "*"
NoKey == "none"

ASSUME RouteAssumption ==
  /\ MaxRoutes \in Nat /\ "GET" \in Methods
  /\ \A r \in Registrable :
       /\ r.method \in Methods /\ r.sort \in Sorts
       /\ r.pattern \in Seq([param : {TRUE}, name : Keys]
                              \cup [param : {FALSE}, name : DOMAIN Forms])
  /\ \A t \in Targets : t.path \in Seq(DOMAIN Forms) /\ t.query \in BOOLEAN
  /\ AnyParam \notin DOMAIN Forms /\ NoKey \notin Keys

VARIABLES
  routes,       \* App.routes
  exact,        \* App.exactRoutes: <<method, path>> to the number of a route
  tries,        \* App.paramRoutesByMethod
  bunRoutes,    \* the route map given to Bun.serve: <<pattern, method>> to a number
  manifest,     \* the routes of the manifest given to the Rust core
  rust          \* its RouteTable: routes, static_get_routes, param_roots

vars == <<routes, exact, tries, bunRoutes, manifest, rust>>

-----------------------------------------------------------------------------
\* Patterns and paths

HasParams(p) == \E i \in DOMAIN p : p[i].param
\* The child edges a pattern follows in a trie, whatever its parameters are called.
Edges(p) == [i \in DOMAIN p |-> IF p[i].param THEN AnyParam ELSE p[i].name]
IsTemplate(r) == r.sort # "handler"

\* Trailing slashes and the query go; empty segments inside a path stay.
Filled(t) == {i \in DOMAIN t.path : t.path[i] # ""}
NormalizePath(t) ==
  SubSeq(t.path, 1, IF Filled(t) = {} THEN 0
                    ELSE CHOOSE i \in Filled(t) : \A j \in Filled(t) : j <= i)

\* The Rust core has no empty segments once it splits a path.
SplitPath(t) == SelectSeq(t.path, LAMBDA s : s # "")

\* What a parameter is bound to.  decodeURIComponent gives up on a malformed
\* segment as a whole; decode_segment reads + as a space and every escape as
\* one character.
Decoded ==
  [s \in DOMAIN Forms |-> IF Forms[s] = "escaped" THEN <<"decoded", s>> ELSE <<s>>]
DecodeSegment ==
  [s \in DOMAIN Forms |-> CASE Forms[s] = "plain" -> <<s>>
                            [] Forms[s] = "escaped" -> <<"decoded", s>>
                            [] OTHER -> <<"mangled", s>>]

-----------------------------------------------------------------------------
\* Maps and tries.  A trie is a function from nodes, named by the edges that
\* lead to them, to a route (0 for none) and the key of a parameter node.

Put(map, k, v) == [x \in DOMAIN map \cup {k} |-> IF x = k THEN v ELSE map[x]]
Get(map, k) == IF k \in DOMAIN map THEN map[k] ELSE 0

EmptyTrie == [q \in {<<>>} |-> [route |-> 0, key |-> NoKey]]
EmptyTries == [m \in Methods |-> EmptyTrie]

\* Nodes on the way that exist keep their key.
WithNodes(trie, p) ==
  LET e == Edges(p)
      Node(q) == [route |-> 0, key |-> IF p[Len(q)].param THEN p[Len(q)].name ELSE NoKey]
  IN [q \in DOMAIN trie \cup {SubSeq(e, 1, i) : i \in DOMAIN e} |->
        IF q \in DOMAIN trie THEN trie[q] ELSE Node(q)]

\* TypeScript keeps the first route of a node, Rust the last.
WithRoute(trie, q, n) == [trie EXCEPT ![q] = [route |-> n, key |-> trie[q].key]]
InsertParamRoute_LastWins(trie, p, n) == WithRoute(WithNodes(trie, p), Edges(p), n)
InsertParamRoute(trie, p, n) ==
  LET grown == WithNodes(trie, p)
  IN IF grown[Edges(p)].route = 0 THEN WithRoute(grown, Edges(p), n) ELSE grown
RouteNodeInsert(trie, p, n) == WithRoute(WithNodes(trie, p), Edges(p), n)

\* matchRouteTable and match_segments: the static child first, then the
\* parameter child, with one params object all the way.
Without_Kept(params, k) == params
Without(params, k) == [x \in DOMAIN params \ {k} |-> params[x]]
NoParams == [x \in {} |-> <<>>]
Found(route, params) == [route |-> route, params |-> params]
MatchNode(trie, segs, decode, match, q, params) ==
  LET s == segs[Len(q) + 1]
      static == IF Append(q, s) \in DOMAIN trie THEN match[<<Append(q, s), params>>]
                ELSE Found(0, params)
      child == Append(q, AnyParam)
      key == trie[child].key
      bound == match[<<child, Put(static.params, key, decode[s])>>]
  IN IF Len(q) >= Len(segs) THEN Found(trie[q].route, params)
     ELSE IF static.route # 0 \/ child \notin DOMAIN trie THEN static
     ELSE IF bound.route # 0 THEN bound
     ELSE Found(0, Without(bound.params, key))

\* The values parameters may have on the way, and all the ways to bind them.
Values(segs, decode) == {decode[segs[i]] : i \in DOMAIN segs}
Bindings(segs, decode) == UNION {[K -> Values(segs, decode)] : K \in SUBSET Keys}
Matches(trie, segs, decode) ==
  LET match[at \in (DOMAIN trie) \X Bindings(segs, decode)] ==
        MatchNode(trie, segs, decode, match, at[1], at[2])
  IN match
MatchRouteTable(trie, segs, decode) == Matches(trie, segs, decode)[<<<<>>, NoParams>>]

\* The first of the sources that has a route answers.
FirstFound(sources) ==
  LET found == {i \in DOMAIN sources : sources[i].route # 0}
  IN IF found = {} THEN Found(0, NoParams)
     ELSE sources[CHOOSE i \in found : \A j \in found : i <= j]
Plain(n) == Found(n, NoParams)

-----------------------------------------------------------------------------
\* App.findRoute

FindRoute(m, t) ==
  LET path == NormalizePath(t)
      Exact(x) == Plain(Get(exact, <<x, path>>))
      FromTrie(x) == MatchRouteTable(tries[x], path, Decoded)
  IN IF m = "HEAD" THEN FirstFound(<<Exact("HEAD"), Exact("GET"), FromTrie("HEAD"), FromTrie("GET")>>)
     ELSE FirstFound(<<Exact(m), FromTrie(m)>>)

-----------------------------------------------------------------------------
\* The Rust core's table

NoRust == [routes |-> <<>>, static_get_routes |-> <<>>, param_roots |-> EmptyTries]

\* has_params looks for a colon anywhere in the path.
RustHasParams(p) == HasParams(p) \/ \E i \in DOMAIN p : p[i].name \in Colons

AddEntry_AnyMethod(table, r, n) ==
  IF RustHasParams(r.pattern)
  THEN [table EXCEPT !.param_roots[r.method] = RouteNodeInsert(@, r.pattern, n)]
  ELSE [table EXCEPT
          !.routes = Put(@, <<r.method, Edges(r.pattern)>>, n),
          !.static_get_routes = IF r.sort = "template" THEN Put(@, Edges(r.pattern), n) ELSE @]
AddEntry(table, r, n) ==
  IF RustHasParams(r.pattern)
  THEN [table EXCEPT !.param_roots[r.method] = RouteNodeInsert(@, r.pattern, n)]
  ELSE [table EXCEPT
          !.routes = Put(@, <<r.method, Edges(r.pattern)>>, n),
          !.static_get_routes = IF r.method = "GET" /\ r.sort = "template"
                                THEN Put(@, Edges(r.pattern), n) ELSE @]

FromManifest(list) ==
  LET table[n \in 0 .. Len(list)] ==
        IF n = 0 THEN NoRust ELSE AddEntry(table[n - 1], list[n], n)
  IN table[Len(list)]

\* lookup_static_response_bytes takes the path as it came, so only when it
\* has neither a query nor a trailing slash.
StaticResponse(m, t) ==
  Plain(IF m = "GET" /\ ~t.query /\ (t.path = <<"">> \/ Last(t.path) # "")
        THEN Get(rust.static_get_routes, NormalizePath(t)) ELSE 0)

\* What handle_connection answers.
RustLookup(m, t) ==
  LET Exact(x) == Plain(Get(rust.routes, <<x, NormalizePath(t)>>))
      FromTrie(x) == MatchRouteTable(rust.param_roots[x], SplitPath(t), DecodeSegment)
  IN IF m = "HEAD" THEN FirstFound(<<Exact("HEAD"), Exact("GET"), FromTrie("HEAD"), FromTrie("GET")>>)
     ELSE FirstFound(<<StaticResponse(m, t), Exact(m), FromTrie(m)>>)

-----------------------------------------------------------------------------
\* Bun's router (external): of the patterns that fit, the most specific one
\* answers if it has the method.  Everything else is handleBunFallback's.

\* Of two template routes with one pattern and method the later one stays.
BuildBunRoutes(list) ==
  LET Templates == {n \in DOMAIN list : IsTemplate(list[n])}
      Entry(n) == <<list[n].pattern, list[n].method>>
  IN [k \in {Entry(n) : n \in Templates} |->
        CHOOSE n \in Templates : Entry(n) = k /\ \A i \in Templates : Entry(i) = k => i <= n]

Fits(p, segs) ==
  /\ Len(p) = Len(segs)
  /\ \A i \in DOMAIN p : p[i].param \/ p[i].name = segs[i]
\* Of two patterns that fit, p is static where they differ first.
Before(p, q) ==
  \E i \in DOMAIN p :
    /\ ~p[i].param /\ q[i].param
    /\ \A j \in 1 .. i - 1 : p[j].param = q[j].param

BunMatch(segs) ==
  LET fit == {p \in {k[1] : k \in DOMAIN bunRoutes} : Fits(p, segs)}
  IN {p \in fit : \A q \in fit : ~Before(q, p)}

HandleBunFallback(m, t) == FindRoute(m, t).route

\* The routes Bun may answer with: it may take either of two patterns alike.
BunLookup(m, t) ==
  LET matched == BunMatch(NormalizePath(t))
  IN IF matched = {} THEN {HandleBunFallback(m, t)}
     ELSE {IF <<p, m>> \in DOMAIN bunRoutes THEN bunRoutes[<<p, m>>]
           ELSE HandleBunFallback(m, t) : p \in matched}

-----------------------------------------------------------------------------
\* The table of compiled routes.  try_aot_dispatch looks up the target as it
\* came: a query is part of its last segment.

AotTable == {n \in DOMAIN routes : routes[n].sort = "handler" \/ routes[n].method = "GET"}

AotSegments(t) ==
  LET Bare(segs) == [i \in DOMAIN segs |-> <<segs[i]>>]
  IN IF t.query THEN Append(Bare(SplitPath([t EXCEPT !.path = Front(@)])), <<Last(t.path), "?">>)
     ELSE Bare(SplitPath(t))

MatchSegments(p, segs) ==
  /\ Len(p) = Len(segs)
  /\ \A i \in DOMAIN p : p[i].param \/ <<p[i].name>> = segs[i]

\* The last of two parameters of one name stays.
Captured(p, segs) ==
  [k \in {p[i].name : i \in {j \in DOMAIN p : p[j].param}} |->
     segs[CHOOSE i \in DOMAIN p : p[i] = Param(k) /\ \A j \in i + 1 .. Len(p) : p[j] # Param(k)]]

AotLookup(m, t) ==
  LET segs == AotSegments(t)
      matching == {n \in AotTable : /\ routes[n].method = m
                                    /\ MatchSegments(routes[n].pattern, segs)}
      first == CHOOSE n \in matching : \A k \in matching : n <= k
  IN IF matching = {} THEN Plain(0)
     ELSE Found(first, Captured(routes[first].pattern, segs))

-----------------------------------------------------------------------------
Init ==
  /\ routes = <<>> /\ exact = <<>> /\ tries = EmptyTries
  /\ bunRoutes = <<>> /\ manifest = <<>> /\ rust = NoRust

NewNumber == Len(routes) + 1

\* addRoute
Register(r) ==
  /\ Len(routes) < MaxRoutes
  /\ routes' = Append(routes, r)
  /\ IF HasParams(r.pattern)
     THEN /\ tries' = [tries EXCEPT ![r.method] = InsertParamRoute(@, r.pattern, NewNumber)]
          /\ UNCHANGED exact
     ELSE /\ exact' = Put(exact, <<r.method, Edges(r.pattern)>>, NewNumber)
          /\ UNCHANGED tries
  /\ UNCHANGED <<bunRoutes, manifest, rust>>

Listening == bunRoutes # <<>> \/ manifest # <<>>

\* listen on Bun
ListenBun ==
  /\ ~Listening
  /\ bunRoutes' = BuildBunRoutes(routes)
  /\ UNCHANGED <<routes, exact, tries, manifest, rust>>

\* listen on the Rust core, which an app with handlers may not use
ListenRust ==
  /\ ~Listening
  /\ \A n \in DOMAIN routes : IsTemplate(routes[n])
  /\ manifest' = routes
  /\ rust' = FromManifest(routes)
  /\ UNCHANGED <<routes, exact, tries, bunRoutes>>

Next ==
  \/ \E r \in Registrable : Register(r)
  \/ ListenBun
  \/ ListenRust

Spec == Init /\ [][Next]_vars

-----------------------------------------------------------------------------
\* What the routers promise

\* The documented precedence, by definition: the last exact route registered;
\* else, of the parameter routes that fit, the one static where two differ
\* first, and the first registered of two alike.  HEAD may use GET's routes.
LastExact(list, m, segs) ==
  LET same == {n \in DOMAIN list : /\ list[n].method = m
                                   /\ ~HasParams(list[n].pattern)
                                   /\ Fits(list[n].pattern, segs)}
  IN IF same = {} THEN 0 ELSE CHOOSE n \in same : \A k \in same : k <= n
BestParam(list, m, segs) ==
  LET fit == {n \in DOMAIN list : /\ list[n].method = m
                                  /\ HasParams(list[n].pattern)
                                  /\ Fits(list[n].pattern, segs)}
      Beats(n, k) == \/ Before(list[n].pattern, list[k].pattern)
                     \/ ~Before(list[k].pattern, list[n].pattern) /\ n <= k
  IN IF fit = {} THEN 0 ELSE CHOOSE n \in fit : \A k \in fit : Beats(n, k)
Expected(m, segs) ==
  LET Exact(x) == Plain(LastExact(routes, x, segs))
      Best(x) == Plain(BestParam(routes, x, segs))
  IN IF m = "HEAD" THEN FirstFound(<<Exact("HEAD"), Exact("GET"), Best("HEAD"), Best("GET")>>)
     ELSE FirstFound(<<Exact(m), Best(m)>>)

\* The trie with its backtracking finds the route the precedence asks for.
RoutesByPrecedence ==
  \A m \in Methods, t \in Targets :
    FindRoute(m, t).route = Expected(m, NormalizePath(t)).route

\* Patterns of one method call a parameter by one name, and no two of a
\* pattern's by the same.
ConsistentNames ==
  \A n, k \in DOMAIN routes : routes[n].method = routes[k].method =>
    LET p == routes[n].pattern
        q == routes[k].pattern
    IN /\ \A i \in DOMAIN p \cap DOMAIN q :
            /\ SubSeq(Edges(p), 1, i) = SubSeq(Edges(q), 1, i)
            /\ p[i].param
            => p[i] = q[i]
       /\ \A i, j \in DOMAIN p : p[i].param /\ p[i] = p[j] => i = j

\* A handler sees its own parameters, decoded, and nothing a branch the search
\* gave up has bound.
ParamsBound ==
  ConsistentNames =>
    \A m \in Methods, t \in Targets :
      LET found == FindRoute(m, t)
          path == NormalizePath(t)
      IN found.route # 0 =>
           found.params = Captured(routes[found.route].pattern,
                                   [i \in DOMAIN path |-> Decoded[path[i]]])

DistinctShapes ==
  \A n, k \in DOMAIN routes :
    /\ routes[n].method = routes[k].method
    /\ Edges(routes[n].pattern) = Edges(routes[k].pattern)
    => n = k

\* The Rust core finds what Node finds, for paths without empty segments or
\* escapes that the two decode differently.  A path with a colon inside a
\* segment is a parameter route to the Rust core, which HEAD can tell.
RustAgrees ==
  manifest = routes /\ DistinctShapes =>
    \A m \in Methods, t \in Targets :
      /\ SplitPath(t) = NormalizePath(t)
      /\ \A i \in DOMAIN t.path : Forms[t.path[i]] \in {"plain", "escaped"}
      /\ m = "HEAD" => \A n \in DOMAIN routes :
                         RustHasParams(routes[n].pattern) => HasParams(routes[n].pattern)
      => RustLookup(m, t) = FindRoute(m, t)

OnBun == bunRoutes # <<>> /\ bunRoutes = BuildBunRoutes(routes)

\* On Bun, splitting the routes between its router and handleBunFallback does
\* not change the answer when Node would answer with a template or not at all.
BunTemplatesAgree ==
  OnBun /\ DistinctShapes =>
    \A m \in Methods \ {"HEAD"}, t \in Targets :
      LET n == FindRoute(m, t).route
      IN n = 0 \/ IsTemplate(routes[n]) => BunLookup(m, t) = {n}

\* A compiled route is found, with the parameters its handler expects, for a
\* plain target that fits one route only.
AotAgrees ==
  \A m \in Methods \ {"HEAD"}, t \in Targets :
    LET fit == {n \in DOMAIN routes : /\ routes[n].method = m
                                      /\ Fits(routes[n].pattern, NormalizePath(t))}
    IN /\ ConsistentNames
       /\ SplitPath(t) = NormalizePath(t) /\ ~t.query
       /\ \A i \in DOMAIN t.path : Forms[t.path[i]] = "plain"
       /\ Cardinality(fit) <= 1
       /\ fit \subseteq AotTable
       => AotLookup(m, t) = FindRoute(m, t)

\* The one list of routes goes to three lookups of their own, and each finds
\* what findRoute finds, under the conditions its conjunct names.
TablesAgree == RustAgrees /\ BunTemplatesAgree /\ AotAgrees

===============================================================================
