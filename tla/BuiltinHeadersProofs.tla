-------------------------- MODULE BuiltinHeadersProofs --------------------------
(***************************************************************************)
(* For any features, routes and calls of use(): on Node a response has the *)
(* builtin headers and its own, exactly; on Bun, where responses share an  *)
(* object that routes write into, it has a header of every builtin name    *)
(* and its own on top; and preflights are answered as configured.          *)
(***************************************************************************)
EXTENDS BuiltinHeaders, TLAPS

\* What makes NodeExact inductive: the cached object, where Bun has not been at
\* it, is what App.builtin says, and nobody answers before listen().
CacheIsBuiltin ==
  /\ runtime # "bun" => cache \in {Null, WithCors(builtin)}
  /\ runtime = Null => reply = NoReply

HeadersInv == CacheIsBuiltin /\ NodeExact

\* While Bun has not been at it, the cached object or a fresh one is the same.
LEMMA BuiltFromConfig ==
  ASSUME CacheIsBuiltin, runtime # "bun"
  PROVE  BuildBuiltinHeaders = WithCors(builtin)
  BY DEF CacheIsBuiltin, BuildBuiltinHeaders

\* Configuration drops the cached object, and listening touches it on Bun only.
LEMMA ConfigureStep ==
  ASSUME HeadersInv, Configure
  PROVE  HeadersInv'
<1> USE HeadersAssumption DEF HeadersInv, CacheIsBuiltin, NodeExact
<1>1. ASSUME NEW f \in Features, Use(f) PROVE HeadersInv'
  BY <1>1 DEF Use, Forget
<1>2. ASSUME NEW r \in Registrable, Register(r) PROVE HeadersInv'
  BY <1>2 DEF Register
<1>3. CASE ListenNode
  BY <1>3 DEF ListenNode
<1>4. CASE ListenBun
  BY <1>4 DEF ListenBun
<1>5. CASE ListenRust
  BY <1>5 DEF ListenRust
<1> QED
  BY <1>1, <1>2, <1>3, <1>4, <1>5 DEF Configure

\* A response on Node is built from what App.builtin says.
LEMMA NodeStep ==
  ASSUME HeadersInv, NEW r, NEW method, NodeRequest(r, method)
  PROVE  HeadersInv'
<1> DEFINE now == WithCors(builtin)
<1>1. /\ runtime = "node" /\ runtime' = runtime /\ builtin' = builtin
      /\ cache' = BuildBuiltinHeaders /\ runtime # Null
  BY HeadersAssumption DEF NodeRequest, Idle
<1>2. BuildBuiltinHeaders = now
  BY <1>1, BuiltFromConfig DEF HeadersInv
<1>3. CacheIsBuiltin'
  <2>1. WithCors(builtin)' = now
    BY <1>1 DEF WithCors
  <2> QED
    BY <1>1, <1>2, <2>1 DEF CacheIsBuiltin
<1>4. NodeExact'
  <2>1. CASE Reply(NoRoute, method, BuildBuiltinHeaders, FALSE)
    <3>1. reply'.route = NoRoute /\ reply'.headers = now /\ reply'.builtin = builtin
      BY <1>2, <2>1 DEF Reply
    <3> QED
      BY <3>1 DEF NodeExact, WithCors
  <2>2. CASE r # NoRoute /\ Reply(r, method, ApplyBuiltins(Own(r)), FALSE)
    <3>1. reply'.route = r /\ reply'.headers = Overlay(now, Own(r)) /\ reply'.builtin = builtin
      BY <1>2, <2>2 DEF Reply, ApplyBuiltins
    <3> QED
      BY <2>2, <3>1 DEF NodeExact, WithCors
  <2> QED
    BY <2>1, <2>2 DEF NodeRequest
<1> QED
  BY <1>3, <1>4 DEF HeadersInv

\* The other runtimes answer for themselves; the Rust core keeps off the cache.
LEMMA OtherStep ==
  ASSUME HeadersInv, runtime \in {"bun", "rust"}, UNCHANGED <<runtime, builtin>>,
         runtime = "rust" => UNCHANGED cache
  PROVE  HeadersInv'
<1>1. runtime' # "node" /\ runtime' # Null
  BY HeadersAssumption
<1>2. CacheIsBuiltin'
  BY <1>1 DEF HeadersInv, CacheIsBuiltin, WithCors
<1> QED
  BY <1>1, <1>2 DEF HeadersInv, NodeExact

LEMMA RequestStep ==
  ASSUME HeadersInv, NEW r, RequestFor(r)
  PROVE  HeadersInv'
<1>1. CASE BunMapped(r) \/ BunFallback(r)
  BY <1>1, OtherStep DEF BunMapped, BunFallback, Idle
<1>2. CASE RustRequest(r, r.method)
  BY <1>2, OtherStep DEF RustRequest, Idle
<1> QED
  BY <1>1, <1>2, NodeStep DEF RequestFor

LEMMA RequestForNothingStep ==
  ASSUME HeadersInv, NEW method, RequestForNothing(method)
  PROVE  HeadersInv'
<1>1. CASE BunNotFound(method)
  BY <1>1, OtherStep DEF BunNotFound, Idle
<1>2. CASE RustRequest(NoRoute, method)
  BY <1>2, OtherStep DEF RustRequest, Idle
<1> QED
  BY <1>1, <1>2, NodeStep DEF RequestForNothing

\* The invariant of the cached object.
THEOREM HeadersInvariant == Spec => []HeadersInv
<1>1. Init => HeadersInv
  BY HeadersAssumption DEF Init, HeadersInv, CacheIsBuiltin, NodeExact
<1>2. HeadersInv /\ [Next]_vars => HeadersInv'
  <2> SUFFICES ASSUME HeadersInv, [Next]_vars PROVE HeadersInv'
    OBVIOUS
  <2>1. CASE BunPreflight
    BY <2>1, OtherStep DEF BunPreflight, Idle
  <2>2. CASE UNCHANGED vars
    BY <2>2 DEF vars, HeadersInv, CacheIsBuiltin, NodeExact, WithCors
  <2> QED
    BY <2>1, <2>2, ConfigureStep, RequestStep, RequestForNothingStep DEF Next
<1> QED
  BY <1>1, <1>2, PTL DEF Spec

\* use() takes effect on Node with the next response, whenever it is called, and
\* no response carries a header of another route.
THEOREM NodeHeadersExact == Spec => []NodeExact
<1>1. HeadersInv => NodeExact
  BY DEF HeadersInv
<1> QED
  BY <1>1, HeadersInvariant, PTL

-----------------------------------------------------------------------------
(***************************************************************************)
(* What lasts on Bun, where template routes write into the cached object   *)
(* and responses built earlier are kept: each of these objects has every   *)
(* builtin header, with the value that was configured or, for a name that  *)
(* a registered route sets, with whatever such a route has left there.     *)
(***************************************************************************)
OnTop(h, r) == \A n \in DOMAIN Own(r) : n \in DOMAIN h /\ h[n] = Own(r)[n]
RouteSets(n) == \E i \in DOMAIN routes : n \in DOMAIN Own(routes[i])
Configured(h, b) ==
  \A n \in DOMAIN WithCors(b) : n \in DOMAIN h /\ (h[n] = WithCors(b)[n] \/ RouteSets(n))

\* Neither cors() nor securityHeaders() sets a Content-Type.
NoType(b) == ContentType \notin DOMAIN b.headers /\ (b.cors # Null => ContentType \notin DOMAIN b.cors)

Kept == \A h \in {cache, notFound, options} : h # Null => Configured(h, builtin)
Ahead == \A r \in DOMAIN bunRoutes : bunRoutes[r] # Null => OnTop(bunRoutes[r], r)
BunReplied ==
  runtime = "bun" /\ reply # NoReply =>
    /\ ~reply.ahead => Configured(reply.headers, reply.builtin)
    /\ reply.ahead => reply.route # NoRoute
    /\ reply.route # NoRoute => OnTop(reply.headers, reply.route)
RustReplied ==
  runtime = "rust" /\ reply # NoReply /\ reply.route = NoRoute /\ reply.method = "OPTIONS"
    /\ manifest.cors # Null => reply.headers = CorsOptions

SharedInv ==
  /\ NoType(builtin) /\ NoType(manifest)
  /\ routes \in Seq(Registrable) /\ runtime \in {Null, "node", "bun", "rust"}
  /\ Kept /\ Ahead /\ BunReplied /\ RustReplied

-----------------------------------------------------------------------------
\* Operators

LEMMA OverlayOnTop ==
  ASSUME NEW f, NEW r
  PROVE  OnTop(Overlay(f, Own(r)), r)
  BY DEF OnTop, Overlay

LEMMA FreshConfigured ==
  ASSUME NEW b
  PROVE  Configured(WithCors(b), b)
  BY DEF Configured

\* The cached object, or a fresh one, has what App.builtin says.
LEMMA BaseConfigured ==
  ASSUME Kept
  PROVE  Configured(BuildBuiltinHeaders, builtin)
  BY FreshConfigured DEF Kept, BuildBuiltinHeaders

\* What a registered route writes over it is excused by that route.
LEMMA OverlayConfigured ==
  ASSUME NEW h, NEW b, Configured(h, b), NEW i \in DOMAIN routes
  PROVE  Configured(Overlay(h, Own(routes[i])), b)
  BY DEF Configured, Overlay, RouteSets

\* Registering a route excuses no less than before.
LEMMA ConfiguredKept ==
  ASSUME NEW h, NEW b, Configured(h, b), routes' = routes \/ \E r : routes' = Append(routes, r),
         routes \in Seq(Registrable)
  PROVE  Configured(h, b)'
  <1>1. \A n : RouteSets(n) => RouteSets(n)'
    BY DEF RouteSets
  <1> QED BY <1>1 DEF Configured

-----------------------------------------------------------------------------
\* The responses that Bun is given in advance.

LEMMA CachedConfigured ==
  ASSUME Kept, NEW k \in Nat, k <= Len(routes), routes \in Seq(Registrable)
  PROVE  Configured(CachedUpTo(k), builtin)
  <1>1. Configured(BuildBuiltinHeaders, builtin)
    BY BaseConfigured
  <1>2. PICK f : f = CachedUpTo(k)
    OBVIOUS
  <1>3. DOMAIN f = NamesUpTo(k) /\ \A n \in NamesUpTo(k) : f[n] = ValueUpTo(k, n)
    BY <1>2 DEF CachedUpTo
  <1>4. ASSUME NEW n \in DOMAIN WithCors(builtin)
        PROVE  n \in DOMAIN f /\ (f[n] = WithCors(builtin)[n] \/ RouteSets(n))
    <2>1. n \in DOMAIN BuildBuiltinHeaders
      BY <1>1 DEF Configured
    <2>2. n \in NamesUpTo(k)
      BY <2>1 DEF NamesUpTo
    <2>3. CASE \E j \in StaticUpTo(k) : n \in DOMAIN Own(routes[j])
      <3>1. RouteSets(n)
        BY <2>3 DEF RouteSets, StaticUpTo
      <3> QED BY <1>3, <2>2, <3>1
    <2>4. CASE ~ \E j \in StaticUpTo(k) : n \in DOMAIN Own(routes[j])
      <3>1. ValueUpTo(k, n) = BuildBuiltinHeaders[n]
        BY <2>4 DEF ValueUpTo
      <3> QED BY <1>1, <1>3, <2>2, <3>1 DEF Configured
    <2> QED BY <2>3, <2>4
  <1> QED BY <1>2, <1>4 DEF Configured

\* The route itself has written last.
LEMMA CachedOnTop ==
  ASSUME NEW k \in DOMAIN routes, routes \in Seq(Registrable),
         Mapped(routes[k]), routes[k].sort = "static"
  PROVE  OnTop(CachedUpTo(k), routes[k])
  <1>1. k \in StaticUpTo(k) /\ StaticUpTo(k) \in SUBSET (1 .. k) /\ k \in Nat
    BY DEF StaticUpTo
  <1>2. PICK f : f = CachedUpTo(k)
    OBVIOUS
  <1>3. DOMAIN f = NamesUpTo(k) /\ \A n \in NamesUpTo(k) : f[n] = ValueUpTo(k, n)
    BY <1>2 DEF CachedUpTo
  <1>4. ASSUME NEW n \in DOMAIN Own(routes[k])
        PROVE  n \in DOMAIN f /\ f[n] = Own(routes[k])[n]
    <2>1. n \in NamesUpTo(k)
      BY <1>1 DEF NamesUpTo
    <2>2. PICK S : S = {j \in StaticUpTo(k) : n \in DOMAIN Own(routes[j])}
      OBVIOUS
    <2>3. k \in S /\ \A j \in S : j \in Nat /\ j <= k
      BY <1>1, <2>2
    <2>4. Max(S) = k
      BY <1>1, <2>3 DEF Max
    <2>5. ValueUpTo(k, n) = Own(routes[k])[n]
      BY <2>2, <2>3, <2>4 DEF ValueUpTo
    <2> QED BY <1>3, <2>1, <2>5
  <1> QED BY <1>2, <1>4 DEF OnTop

LEMMA BuiltAhead ==
  ASSUME routes \in Seq(Registrable), NEW r \in DOMAIN BuildBunRoutes, BuildBunRoutes[r] # Null
  PROVE  OnTop(BuildBunRoutes[r], r)
  <1>1. r \in ToSet(routes) /\ Mapped(r) /\ r.sort = "static"
    BY DEF BuildBunRoutes
  <1>2. \E i \in DOMAIN routes : routes[i] = r
    BY <1>1 DEF ToSet
  <1>3. PICK k : k = CHOOSE i \in DOMAIN routes : routes[i] = r
    OBVIOUS
  <1>4. k \in DOMAIN routes /\ routes[k] = r
    BY <1>2, <1>3
  <1>5. BuildBunRoutes[r] = CachedUpTo(k)
    BY <1>1, <1>3 DEF BuildBunRoutes
  <1> QED BY <1>1, <1>4, <1>5, CachedOnTop

-----------------------------------------------------------------------------
\* Steps

\* use() forgets all that was built from the configuration before.
LEMMA UseShared ==
  ASSUME HeadersInv, SharedInv, NEW f \in Features, Use(f)
  PROVE  SharedInv'
  <1>1. /\ cache' = Null /\ notFound' = Null /\ options' = Null
        /\ UNCHANGED <<routes, runtime, bunRoutes, manifest, reply>>
    BY DEF Use, Forget
  <1>2. ContentType \notin DOMAIN f.headers
    BY HeadersAssumption
  <1>3. NoType(builtin)'
    <2>1. CASE f.kind = "cors"
      BY <1>2, <2>1 DEF Use, NoType, SharedInv
    <2>2. CASE f.kind # "cors"
      <3>1. PICK h : h = Overlay(builtin.headers, f.headers)
        OBVIOUS
      <3>2. ContentType \notin DOMAIN h
        BY <1>2, <3>1 DEF Overlay, NoType, SharedInv
      <3>3. builtin' = [builtin EXCEPT !.headers = h]
        BY <2>2, <3>1 DEF Use
      <3> QED BY <3>2, <3>3 DEF NoType, SharedInv
    <2> QED BY <2>1, <2>2
  <1>4. NoType(manifest)' /\ Kept' /\ Ahead' /\ BunReplied' /\ RustReplied' /\ (routes \in Seq(Registrable))' /\ runtime' = runtime
    BY <1>1 DEF SharedInv, NoType, Kept, Ahead, BunReplied, RustReplied, Configured, OnTop, RouteSets, CorsOptions
  <1> QED BY <1>3, <1>4 DEF SharedInv

LEMMA RegisterShared ==
  ASSUME SharedInv, NEW r \in Registrable, Register(r)
  PROVE  SharedInv'
  <1>1. /\ routes' = Append(routes, r) /\ routes \in Seq(Registrable)
        /\ UNCHANGED <<builtin, cache, notFound, options, runtime, bunRoutes, manifest, reply>>
    BY DEF Register, SharedInv
  <1>2. ASSUME NEW h, NEW b, Configured(h, b) PROVE Configured(h, b)'
    BY <1>1, <1>2, ConfiguredKept
  <1>3. Kept'
    <2>1. PICK b : b = builtin
      OBVIOUS
    <2>2. ASSUME NEW h \in {cache, notFound, options}, h # Null PROVE Configured(h, b)'
      BY <1>2, <2>1, <2>2 DEF SharedInv, Kept
    <2> QED BY <1>1, <2>1, <2>2 DEF Kept, Configured
  <1>4. BunReplied'
    <2>1. PICK h, b : h = reply.headers /\ b = reply.builtin
      OBVIOUS
    <2>2. runtime = "bun" /\ reply # NoReply /\ ~reply.ahead => Configured(h, b)'
      BY <1>2, <2>1 DEF SharedInv, BunReplied
    <2>3. runtime = "bun" /\ reply # NoReply =>
            /\ reply.ahead => reply.route # NoRoute
            /\ reply.route # NoRoute => OnTop(reply.headers, reply.route)
      BY DEF SharedInv, BunReplied
    <2> QED BY <1>1, <2>1, <2>2, <2>3 DEF BunReplied, Configured, OnTop
  <1>5. routes' \in Seq(Registrable)
    BY <1>1
  <1> QED BY <1>1, <1>3, <1>4, <1>5 DEF SharedInv, NoType, Ahead, OnTop, RustReplied, CorsOptions

LEMMA ListenShared ==
  ASSUME HeadersInv, SharedInv, ListenNode \/ ListenBun \/ ListenRust
  PROVE  SharedInv'
  <1>1. /\ runtime = Null /\ reply = NoReply /\ UNCHANGED <<builtin, notFound, options, routes, reply>>
           /\ runtime' \in {"node", "bun", "rust"}
    BY DEF ListenNode, ListenBun, ListenRust, HeadersInv, CacheIsBuiltin
  <1>2. BunReplied' /\ RustReplied'
    BY <1>1 DEF BunReplied, RustReplied, NoReply
  <1>3. CASE ListenNode
    BY <1>1, <1>2, <1>3
       DEF ListenNode, SharedInv, NoType, Kept, Ahead, Configured, OnTop, RouteSets
  <1>4. CASE ListenBun
    <2>1. /\ bunRoutes' = BuildBunRoutes /\ manifest' = manifest
          /\ cache' = cache \/ cache' = CachedUpTo(Len(routes))
      BY <1>4 DEF ListenBun
    <2>2. Ahead'
      BY <2>1, BuiltAhead DEF Ahead, OnTop, SharedInv
    <2>3. Configured(CachedUpTo(Len(routes)), builtin)
      BY CachedConfigured DEF SharedInv
    <2>4. PICK c : c = cache'
      OBVIOUS
    <2>5. \A h \in {c, notFound, options} : h # Null => Configured(h, builtin)
      BY <2>1, <2>3, <2>4 DEF SharedInv, Kept
    <2>6. Kept'
      BY <1>1, <2>4, <2>5 DEF Kept, Configured, RouteSets
    <2> QED BY <1>1, <1>2, <2>1, <2>2, <2>6 DEF SharedInv, NoType
  <1>5. CASE ListenRust
    <2>1. /\ manifest'.headers = builtin.headers /\ manifest'.cors = builtin.cors
          /\ UNCHANGED <<cache, bunRoutes>>
      BY <1>5 DEF ListenRust
    <2> QED BY <1>1, <1>2, <2>1
            DEF SharedInv, NoType, Kept, Ahead, Configured, OnTop, RouteSets
  <1> QED BY <1>3, <1>4, <1>5

\* A request on Bun: what it keeps and what it answers is configured, and the
\* route's own headers are on top.
LEMMA BunAnswers ==
  ASSUME SharedInv, runtime = "bun", Idle, NEW r, NEW method, NEW h, NEW ahead \in BOOLEAN,
         Reply(r, method, h, ahead),
         ~ahead => Configured(h, builtin), ahead => r # NoRoute, r # NoRoute => OnTop(h, r),
         \A c \in {cache', notFound', options'} : c # Null => Configured(c, builtin)
  PROVE  SharedInv'
  <1>1. UNCHANGED <<builtin, routes, runtime, bunRoutes, manifest>>
    BY DEF Idle
  <1>2. reply'.route = r /\ reply'.headers = h /\ reply'.ahead = ahead /\ reply'.builtin = builtin
    BY DEF Reply
  <1>3. Kept'
    BY <1>1 DEF Kept, Configured, RouteSets
  <1>4. BunReplied'
    BY <1>1, <1>2 DEF BunReplied, Configured, RouteSets, OnTop
  <1>5. RustReplied'
    BY <1>1 DEF RustReplied
  <1> QED BY <1>1, <1>3, <1>4, <1>5 DEF SharedInv, NoType, Ahead, OnTop

\* CreateBunResponse writes into the object it answers with.
LEMMA CreateShared ==
  ASSUME SharedInv, runtime = "bun", Idle, UNCHANGED <<notFound, options>>,
         NEW i \in DOMAIN routes, CreateBunResponse(routes[i])
  PROVE  SharedInv'
  <1>1. PICK h : h = BuildRouteHeaders(BuildBuiltinHeaders, routes[i])
    OBVIOUS
  <1>2. Configured(h, builtin) /\ OnTop(h, routes[i])
    BY <1>1, BaseConfigured, OverlayConfigured, OverlayOnTop DEF SharedInv, BuildRouteHeaders
  <1>3. cache' = h /\ Reply(routes[i], routes[i].method, h, FALSE)
    BY <1>1 DEF CreateBunResponse
  <1>4. \A c \in {cache', notFound', options'} : c # Null => Configured(c, builtin)
    BY <1>2, <1>3 DEF SharedInv, Kept
  <1> QED BY <1>2, <1>3, <1>4, BunAnswers

LEMMA MappedShared ==
  ASSUME SharedInv, NEW i \in DOMAIN routes, BunMapped(routes[i])
  PROVE  SharedInv'
  <1>1. runtime = "bun" /\ Idle /\ UNCHANGED <<notFound, options>> /\ routes[i] \in DOMAIN bunRoutes
    BY DEF BunMapped
  <1>2. CASE /\ bunRoutes[routes[i]] # Null /\ UNCHANGED cache
             /\ Reply(routes[i], routes[i].method, bunRoutes[routes[i]], TRUE)
    <2>1. OnTop(bunRoutes[routes[i]], routes[i]) /\ routes[i] # NoRoute
      BY <1>1, <1>2, HeadersAssumption DEF SharedInv, Ahead
    <2>2. \A c \in {cache', notFound', options'} : c # Null => Configured(c, builtin)
      BY <1>1, <1>2 DEF SharedInv, Kept
    <2> QED BY <1>1, <1>2, <2>1, <2>2, BunAnswers
  <1>3. CASE CreateBunResponse(routes[i])
    BY <1>1, <1>3, CreateShared
  <1> QED BY <1>2, <1>3 DEF BunMapped

LEMMA FallbackShared ==
  ASSUME SharedInv, NEW i \in DOMAIN routes, BunFallback(routes[i])
  PROVE  SharedInv'
  <1>1. runtime = "bun" /\ Idle /\ UNCHANGED <<notFound, options>>
    BY DEF BunFallback
  <1>2. CASE CreateBunResponse(routes[i])
    BY <1>1, <1>2, CreateShared
  <1>3. CASE /\ ~IsTemplate(routes[i]) /\ cache' = BuildBuiltinHeaders
             /\ Reply(routes[i], routes[i].method, ApplyBuiltins(routes[i].headers), FALSE)
    <2>1. PICK h : h = Overlay(BuildBuiltinHeaders, Own(routes[i]))
      OBVIOUS
    <2>2. ApplyBuiltins(routes[i].headers) = h
      BY <1>3, <2>1 DEF ApplyBuiltins, Own
    <2>3. Configured(BuildBuiltinHeaders, builtin)
      BY BaseConfigured DEF SharedInv
    <2>4. Configured(h, builtin) /\ OnTop(h, routes[i])
      BY <2>1, <2>3, OverlayConfigured, OverlayOnTop
    <2>5. \A c \in {cache', notFound', options'} : c # Null => Configured(c, builtin)
      BY <1>1, <1>3, <2>3 DEF SharedInv, Kept
    <2> QED BY <1>1, <1>3, <2>2, <2>4, <2>5, BunAnswers
  <1> QED BY <1>2, <1>3 DEF BunFallback

\* The kept responses to preflights and to unknown paths.
LEMMA KeptShared ==
  ASSUME SharedInv, BunPreflight \/ \E method : BunNotFound(method)
  PROVE  SharedInv'
  <1>1. Configured(BuildBuiltinHeaders, builtin)
    BY BaseConfigured DEF SharedInv
  <1>2. CASE BunPreflight
    <2>1. PICK h : h = options'
      OBVIOUS
    <2>2. /\ runtime = "bun" /\ Idle /\ notFound' = notFound
          /\ h = IF options = Null THEN BuildBuiltinHeaders ELSE options
          /\ cache' = IF options = Null THEN BuildBuiltinHeaders ELSE cache
          /\ Reply(NoRoute, "OPTIONS", h, FALSE)
      BY <1>2, <2>1 DEF BunPreflight
    <2>3. Configured(h, builtin)
      BY <1>1, <2>2 DEF SharedInv, Kept
    <2>4. \A c \in {cache', notFound', options'} : c # Null => Configured(c, builtin)
      BY <1>1, <2>1, <2>2, <2>3 DEF SharedInv, Kept
    <2> QED BY <2>2, <2>3, <2>4, BunAnswers
  <1>3. ASSUME NEW method, BunNotFound(method) PROVE SharedInv'
    <2>1. PICK h : h = notFound'
      OBVIOUS
    <2>2. /\ runtime = "bun" /\ Idle /\ options' = options
          /\ h = IF notFound = Null THEN BuildBuiltinHeaders ELSE notFound
          /\ cache' = IF notFound = Null THEN BuildBuiltinHeaders ELSE cache
          /\ Reply(NoRoute, method, h, FALSE)
      BY <1>3, <2>1 DEF BunNotFound
    <2>3. Configured(h, builtin)
      BY <1>1, <2>2 DEF SharedInv, Kept
    <2>4. \A c \in {cache', notFound', options'} : c # Null => Configured(c, builtin)
      BY <1>1, <2>1, <2>2, <2>3 DEF SharedInv, Kept
    <2> QED BY <2>2, <2>3, <2>4, BunAnswers
  <1> QED BY <1>2, <1>3

\* Node fills the cached object from App.builtin; the core leaves it alone.
LEMMA NodeShared ==
  ASSUME HeadersInv, SharedInv, NEW r, NEW method, NodeRequest(r, method)
  PROVE  SharedInv'
  <1>1. /\ runtime = "node" /\ UNCHANGED <<builtin, routes, runtime, bunRoutes, manifest, notFound, options>>
        /\ cache' = BuildBuiltinHeaders
    BY DEF NodeRequest, Idle
  <1>2. PICK h : h = BuildBuiltinHeaders
    OBVIOUS
  <1>3. Configured(h, builtin)
    BY <1>2, BaseConfigured DEF SharedInv
  <1>4. Kept'
    BY <1>1, <1>2, <1>3 DEF SharedInv, Kept, Configured, RouteSets
  <1> QED BY <1>1, <1>4 DEF SharedInv, NoType, Ahead, OnTop, BunReplied, RustReplied

LEMMA RustShared ==
  ASSUME SharedInv, NEW r, NEW method, RustRequest(r, method), r \in Registrable \cup {NoRoute}
  PROVE  SharedInv'
  <1>1. runtime = "rust" /\ UNCHANGED <<builtin, routes, runtime, bunRoutes, manifest, cache, notFound, options>>
    BY DEF RustRequest, Idle
  <1>2. RustReplied'
    <2>1. CASE manifest.cors # Null /\ method = "OPTIONS" /\ Reply(NoRoute, method, CorsOptions, FALSE)
      BY <1>1, <2>1 DEF Reply, RustReplied, CorsOptions
    <2>2. CASE ~(manifest.cors # Null /\ method = "OPTIONS")
      <3>1. reply'.method = method
        BY <2>2 DEF RustRequest, Reply
      <3> QED BY <1>1, <2>2, <3>1 DEF RustReplied
    <2> QED BY <2>1, <2>2 DEF RustRequest
  <1> QED BY <1>1, <1>2 DEF SharedInv, NoType, Kept, Ahead, Configured, OnTop, RouteSets, BunReplied

LEMMA SharedStep ==
  ASSUME HeadersInv, SharedInv, [Next]_vars
  PROVE  SharedInv'
  <1>1. CASE Configure
    BY <1>1, UseShared, RegisterShared, ListenShared DEF Configure
  <1>2. ASSUME NEW i \in DOMAIN routes, RequestFor(routes[i]) PROVE SharedInv'
    <2>1. routes[i] \in Registrable
      BY DEF SharedInv
    <2> QED BY <1>2, <2>1, NodeShared, MappedShared, FallbackShared, RustShared DEF RequestFor
  <1>3. ASSUME NEW method, RequestForNothing(method) PROVE SharedInv'
    BY <1>3, NodeShared, KeptShared, RustShared DEF RequestForNothing
  <1>4. CASE BunPreflight
    BY <1>4, KeptShared
  <1>5. CASE UNCHANGED vars
    BY <1>5 DEF vars, SharedInv, NoType, Kept, Ahead, Configured, OnTop, RouteSets,
                BunReplied, RustReplied, CorsOptions
  <1> QED BY <1>1, <1>2, <1>3, <1>4, <1>5 DEF Next

LEMMA InitShared ==
  ASSUME Init
  PROVE  SharedInv
  <1>1. NoType(builtin) /\ NoType(manifest)
    BY DEF Init, NoType, NoHeaders
  <1>2. cache = Null /\ notFound = Null /\ options = Null /\ routes = <<>> /\ runtime = Null
        /\ DOMAIN bunRoutes = {} /\ reply = NoReply
    BY DEF Init
  <1> QED BY <1>1, <1>2 DEF SharedInv, Kept, Ahead, BunReplied, RustReplied

\* What the shared objects keep: the cached headers, the two kept responses, the
\* responses built in advance and the last reply have the configured headers,
\* and a route's own on top (app.ts:652-819, 1153-1156; lib.rs:653-696).
THEOREM SharedInvariant == Spec => []SharedInv
<1>1. Init => SharedInv
  BY InitShared
<1>2. HeadersInv /\ SharedInv /\ [Next]_vars => SharedInv'
  BY SharedStep
<1> QED
  BY <1>1, <1>2, HeadersInvariant, PTL DEF Spec

\* On Bun a response has the headers its route or handler sets, with their values,
\* and, unless it was built in advance, one of each builtin name of the moment:
\* whatever routes have written into the cached object (app.ts:695-748, 846-858).
THEOREM BunHeadersComplete == Spec => []BunComplete
<1>1. SharedInv => BunComplete
  BY DEF SharedInv, BunReplied, Configured, OnTop, BunComplete
<1> QED
  BY <1>1, SharedInvariant, PTL

\* A preflight is answered with what cors() and securityHeaders() were given, on
\* each runtime, unless on Bun a route sets a header of that name
\* (app.ts:804-819, 935-940; lib.rs:653-696).
THEOREM PreflightAsConfigured == Spec => []PreflightConfigured
<1>1. HeadersInv /\ SharedInv => PreflightConfigured
  <2> SUFFICES ASSUME HeadersInv, SharedInv PROVE PreflightConfigured
    OBVIOUS
  <2>1. PICK known : known = IF runtime = "rust" THEN manifest ELSE reply.builtin
    OBVIOUS
  <2>2. SUFFICES ASSUME reply.route = NoRoute, reply.method = "OPTIONS", known.cors # Null,
                        NEW n \in DOMAIN known.headers \cup DOMAIN known.cors
                 PROVE  \/ n \in DOMAIN reply.headers /\ reply.headers[n] = WithCors(known)[n]
                        \/ runtime = "bun" /\ \E i \in DOMAIN routes : n \in DOMAIN Own(routes[i])
    BY <2>1 DEF PreflightConfigured
  <2>3. reply # NoReply /\ n \in DOMAIN WithCors(known) /\ runtime # Null
    BY <2>2 DEF NoReply, WithCors, Overlay, HeadersInv, CacheIsBuiltin
  <2>4. CASE runtime = "node"
    BY <2>1, <2>2, <2>3, <2>4 DEF HeadersInv, NodeExact
  <2>5. CASE runtime = "bun"
    <3>1. ~reply.ahead
      BY <2>2, <2>3, <2>5 DEF SharedInv, BunReplied
    <3> QED BY <2>1, <2>3, <2>5, <3>1 DEF SharedInv, BunReplied, Configured, RouteSets
  <2>6. CASE runtime = "rust"
    <3>1. reply.headers = Overlay(WithCors(manifest), Typed("text"))
      BY <2>1, <2>2, <2>3, <2>6 DEF SharedInv, RustReplied, CorsOptions, WithCors
    <3>2. n # ContentType
      BY <2>1, <2>2, <2>6 DEF SharedInv, NoType
    <3> QED BY <2>1, <2>3, <2>6, <3>1, <3>2 DEF Overlay, Typed
  <2> QED BY <2>3, <2>4, <2>5, <2>6 DEF SharedInv
<1> QED
  BY <1>1, HeadersInvariant, SharedInvariant, PTL
=============================================================================
