----------------------------- MODULE BuiltinHeaders -----------------------------
(***************************************************************************)
(* The headers of responses: what App.use configures for all of them       *)
(* (cors(), securityHeaders()), what a route or a handler sets itself, and *)
(* how Node, Bun and the Rust core put the two together.                   *)
(*                                                                         *)
(* App keeps the headers of the builtin features in one cached object.     *)
(* Node copies it into every response.  On Bun a template route writes its *)
(* own headers into the cached object, and responses built earlier are     *)
(* kept.  The Rust core gets the configuration once, with the manifest.    *)
(*                                                                         *)
(* Headers are functions from names to values; no name is written in two   *)
(* cases.  What frames a response (Date, Content-Length, Connection) is    *)
(* left out, and so are HEAD requests.                                     *)
(***************************************************************************)
EXTENDS Naturals, Sequences, FiniteSets, SequencesExt

CONSTANTS
  Features,   \* what may be passed to use(): [kind, headers]
  Registrable,\* routes that may be registered: [id, method, sort, headers, type]
  Runtimes,   \* the runtimes an app may listen on
  MaxUses,    \* bound: calls of use()
  Null,       \* TypeScript's null
  NoRoute     \* where a response has no route

ContentType == "content-type"

ASSUME HeadersAssumption ==
  /\ MaxUses \in Nat /\ Runtimes \subseteq {"node", "bun", "rust"}
  /\ Null \notin {"node", "bun", "rust"} /\ NoRoute \notin Registrable
  /\ \A f \in Features : f.kind \in {"cors", "security"} /\ ContentType \notin DOMAIN f.headers
  /\ \A r \in Registrable : r.sort \in {"handler", "static", "dynamic"}

VARIABLES
  builtin,   \* App.builtin: the headers of securityHeaders(), those of cors() or Null
  cache,     \* App.builtinHeadersCache
  notFound,  \* App.bunNotFoundResponse, by its headers
  options,   \* App.bunOptionsResponse, by its headers
  routes,    \* App.routes
  runtime,   \* what the app listens on, Null before
  bunRoutes, \* the route map given to Bun.serve: per route the headers of a
             \* response built in advance, Null for a function
  manifest,  \* what the Rust core was given: headers, cors, routes
  uses,      \* how often use() was called
  reply      \* the last response: the route that made it, the method, its
             \* headers, whether it was built in advance, and App.builtin then

vars == <<builtin, cache, notFound, options, routes, runtime, bunRoutes, manifest, uses, reply>>

-----------------------------------------------------------------------------
\* g's headers on top of f's
Overlay(f, g) == [n \in DOMAIN f \cup DOMAIN g |-> IF n \in DOMAIN g THEN g[n] ELSE f[n]]
NoHeaders == [n \in {} |-> n]
Typed(t) == [n \in {ContentType} |-> t]

IsTemplate(r) == r.sort # "handler"
\* A template's Content-Type is that of its kind, whatever its headers say.
Own(r) == IF IsTemplate(r) THEN Overlay(r.headers, Typed(r.type)) ELSE r.headers

WithCors(b) == IF b.cors = Null THEN b.headers ELSE Overlay(b.headers, b.cors)
BuildBuiltinHeaders == IF cache = Null THEN WithCors(builtin) ELSE cache

\* Both end in the cached object.
BuildRouteHeaders(base, r) == Overlay(base, Own(r))

\* The headers of a handler's response, merged on Node and on Bun.
ApplyBuiltins(response) == Overlay(BuildBuiltinHeaders, response)

Reply(r, method, headers, ahead) ==
  reply' = [route |-> r, method |-> method, headers |-> headers, ahead |-> ahead,
            builtin |-> builtin]

NoReply == [route |-> NoRoute, method |-> "GET", headers |-> NoHeaders, ahead |-> FALSE,
            builtin |-> [headers |-> NoHeaders, cors |-> Null]]

Init ==
  /\ builtin = [headers |-> NoHeaders, cors |-> Null]
  /\ cache = Null /\ notFound = Null /\ options = Null
  /\ routes = <<>> /\ runtime = Null /\ bunRoutes = <<>>
  /\ manifest = [headers |-> NoHeaders, cors |-> Null, routes |-> {}]
  /\ uses = 0 /\ reply = NoReply

-----------------------------------------------------------------------------
\* Configuration

\* Mutants: use() forgets one of the three.
Forget_NotCache == cache' = cache /\ notFound' = Null /\ options' = Null
Forget_NotOptions == cache' = Null /\ notFound' = Null /\ options' = options
Forget == cache' = Null /\ notFound' = Null /\ options' = Null

\* use(): at any time
Use(f) ==
  /\ uses < MaxUses
  /\ uses' = uses + 1
  /\ Forget
  /\ builtin' = IF f.kind = "cors" THEN [builtin EXCEPT !.cors = f.headers]
                ELSE [builtin EXCEPT !.headers = Overlay(@, f.headers)]
  /\ UNCHANGED <<routes, runtime, bunRoutes, manifest, reply>>

\* get(), text(), ...: at any time, too late for Bun's map and for the manifest
Register(r) ==
  /\ r \notin ToSet(routes)
  /\ routes' = Append(routes, r)
  /\ UNCHANGED <<builtin, cache, notFound, options, runtime, bunRoutes, manifest, uses, reply>>

ListenNode ==
  /\ runtime = Null /\ "node" \in Runtimes
  /\ runtime' = "node"
  /\ UNCHANGED <<builtin, cache, notFound, options, routes, bunRoutes, manifest, uses, reply>>

\* With cors() an OPTIONS request is always left to the fallback.
Mapped(r) == IsTemplate(r) /\ ~(builtin.cors # Null /\ r.method = "OPTIONS")

\* createBunRouteHandler builds the responses of static routes in advance, in the
\* order of registration, and each leaves its headers in the cached object.
StaticUpTo(i) == {j \in 1 .. i : Mapped(routes[j]) /\ routes[j].sort = "static"}
NamesUpTo(i) ==
  DOMAIN BuildBuiltinHeaders \cup UNION {DOMAIN Own(routes[j]) : j \in StaticUpTo(i)}
ValueUpTo(i, n) ==
  LET setters == {j \in StaticUpTo(i) : n \in DOMAIN Own(routes[j])}
  IN IF setters = {} THEN BuildBuiltinHeaders[n] ELSE Own(routes[Max(setters)])[n]

\* The cached object when the first i routes have been through.
CachedUpTo(i) == [n \in NamesUpTo(i) |-> ValueUpTo(i, n)]

\* buildBunRoutes
BuildBunRoutes ==
  [r \in {x \in ToSet(routes) : Mapped(x)} |->
     IF r.sort = "static" THEN CachedUpTo(CHOOSE i \in DOMAIN routes : routes[i] = r) ELSE Null]

ListenBun ==
  /\ runtime = Null /\ "bun" \in Runtimes
  /\ runtime' = "bun"
  /\ bunRoutes' = BuildBunRoutes
  /\ cache' = IF StaticUpTo(Len(routes)) = {} THEN cache ELSE CachedUpTo(Len(routes))
  /\ UNCHANGED <<builtin, notFound, options, routes, manifest, uses, reply>>

\* An app with handlers may not use the core.
ListenRust ==
  /\ runtime = Null /\ "rust" \in Runtimes
  /\ \A i \in DOMAIN routes : IsTemplate(routes[i])
  /\ runtime' = "rust"
  /\ manifest' = [headers |-> builtin.headers, cors |-> builtin.cors, routes |-> ToSet(routes)]
  /\ UNCHANGED <<builtin, cache, notFound, options, routes, bunRoutes, uses, reply>>

-----------------------------------------------------------------------------
\* Requests: for a route that is registered, or for a path that has none

Idle == UNCHANGED <<builtin, routes, runtime, bunRoutes, manifest, uses>>
Preflight(method) == builtin.cors # Null /\ method = "OPTIONS"

\* handleNodeRequest
NodeRequest(r, method) ==
  /\ runtime = "node"
  /\ cache' = BuildBuiltinHeaders
  /\ \/ /\ Preflight(method) \/ r = NoRoute
        /\ Reply(NoRoute, method, BuildBuiltinHeaders, FALSE)
     \/ /\ ~Preflight(method) /\ r # NoRoute
        /\ Reply(r, method, ApplyBuiltins(Own(r)), FALSE)
  /\ UNCHANGED <<notFound, options>> /\ Idle

\* A template route answers and leaves its headers in the cached object.
CreateBunResponse(r) ==
  /\ cache' = BuildRouteHeaders(BuildBuiltinHeaders, r)
  /\ Reply(r, r.method, BuildRouteHeaders(BuildBuiltinHeaders, r), FALSE)

\* What Bun's map has
BunMapped(r) ==
  /\ runtime = "bun" /\ r \in DOMAIN bunRoutes
  /\ \/ bunRoutes[r] # Null /\ Reply(r, r.method, bunRoutes[r], TRUE) /\ UNCHANGED cache
     \/ bunRoutes[r] = Null /\ CreateBunResponse(r)
  /\ UNCHANGED <<notFound, options>> /\ Idle

\* handleBunFallback
BunPreflight ==
  /\ runtime = "bun" /\ Preflight("OPTIONS")
  /\ options' = IF options = Null THEN BuildBuiltinHeaders ELSE options
  /\ cache' = IF options = Null THEN BuildBuiltinHeaders ELSE cache
  /\ Reply(NoRoute, "OPTIONS", options', FALSE)
  /\ UNCHANGED notFound /\ Idle

BunNotFound(method) ==
  /\ runtime = "bun" /\ ~Preflight(method)
  /\ notFound' = IF notFound = Null THEN BuildBuiltinHeaders ELSE notFound
  /\ cache' = IF notFound = Null THEN BuildBuiltinHeaders ELSE cache
  /\ Reply(NoRoute, method, notFound', FALSE)
  /\ UNCHANGED options /\ Idle

BunFallback(r) ==
  /\ runtime = "bun" /\ r \notin DOMAIN bunRoutes /\ ~Preflight(r.method)
  /\ \/ IsTemplate(r) /\ CreateBunResponse(r)
     \/ /\ ~IsTemplate(r)
        /\ cache' = BuildBuiltinHeaders
        /\ Reply(r, r.method, ApplyBuiltins(r.headers), FALSE)
  /\ UNCHANGED <<notFound, options>> /\ Idle

\* Mutant: the preflight's headers leave the global ones out.
CorsOptions_Only == Overlay(manifest.cors, Typed("text"))
\* The blueprints of from_manifest: only this one has the CORS headers.
CorsOptions == Overlay(Overlay(manifest.headers, manifest.cors), Typed("text"))
NotFound == Overlay(manifest.headers, Typed("text"))
FromRoute(r) == Overlay(manifest.headers, Own(r))

\* RouteTable::lookup
RustRequest(r, method) ==
  /\ runtime = "rust"
  /\ \/ /\ manifest.cors # Null /\ method = "OPTIONS"
        /\ Reply(NoRoute, method, CorsOptions, FALSE)
     \/ /\ ~(manifest.cors # Null /\ method = "OPTIONS")
        /\ \/ r \in manifest.routes /\ Reply(r, method, FromRoute(r), FALSE)
           \/ r \notin manifest.routes /\ Reply(NoRoute, method, NotFound, FALSE)
  /\ UNCHANGED <<cache, notFound, options>> /\ Idle

-----------------------------------------------------------------------------
Configure ==
  \/ \E f \in Features : Use(f)
  \/ \E r \in Registrable : Register(r)
  \/ ListenNode \/ ListenBun \/ ListenRust

RequestFor(r) ==
  NodeRequest(r, r.method) \/ BunMapped(r) \/ BunFallback(r) \/ RustRequest(r, r.method)
RequestForNothing(method) ==
  NodeRequest(NoRoute, method) \/ BunNotFound(method) \/ RustRequest(NoRoute, method)

Next ==
  \/ Configure
  \/ \E i \in DOMAIN routes : RequestFor(routes[i])
  \/ \E method \in {"GET", "OPTIONS"} : RequestForNothing(method)
  \/ BunPreflight

Spec == Init /\ [][Next]_vars

-----------------------------------------------------------------------------
\* use() takes effect on the next response: on Node that has the builtin headers
\* of the moment and its own, and no others.
NodeExact ==
  runtime = "node" /\ reply # NoReply =>
    reply.headers = IF reply.route = NoRoute THEN WithCors(reply.builtin)
                    ELSE Overlay(WithCors(reply.builtin), Own(reply.route))

\* On Bun, whatever the cached object has been through, a response has the headers
\* its route or handler sets, with their values, and one that was not built in
\* advance has a header of each builtin name of the moment as well.
BunComplete ==
  runtime = "bun" /\ reply # NoReply =>
    /\ reply.route # NoRoute =>
         \A n \in DOMAIN Own(reply.route) :
           n \in DOMAIN reply.headers /\ reply.headers[n] = Own(reply.route)[n]
    /\ ~reply.ahead => DOMAIN WithCors(reply.builtin) \subseteq DOMAIN reply.headers

\* The answer to a preflight has the headers cors() and securityHeaders() were
\* given, on each runtime, at the latest use() it can know of: unless, on Bun,
\* a route sets a header of that name.
PreflightConfigured ==
  LET known == IF runtime = "rust" THEN manifest ELSE reply.builtin
  IN reply.route = NoRoute /\ reply.method = "OPTIONS" /\ known.cors # Null =>
       \A n \in DOMAIN known.headers \cup DOMAIN known.cors :
         \/ n \in DOMAIN reply.headers /\ reply.headers[n] = WithCors(known)[n]
         \/ runtime = "bun" /\ \E i \in DOMAIN routes : n \in DOMAIN Own(routes[i])

\* securityHeaders() configures headers for all responses: each has them as
\* configured, where its own route does not say otherwise.
SecurityHeadersGlobal ==
  reply # NoReply /\ ~reply.ahead =>
    LET own == IF reply.route = NoRoute THEN NoHeaders ELSE Own(reply.route)
    IN \A n \in DOMAIN reply.builtin.headers \ DOMAIN own :
         n \in DOMAIN reply.headers /\ reply.headers[n] = WithCors(reply.builtin)[n]
=============================================================================
