--------------------------- MODULE TemplateResponse ---------------------------
(***************************************************************************)
(* Template routes, app.json("/u/:id", { id: "{{ params.id }}" }), and     *)
(* what a client is sent for them: by Node, by Bun, which builds responses *)
(* without tokens in advance, and by the Rust core, which has a renderer,  *)
(* a query parser and prebaked responses of its own.                       *)
(*                                                                         *)
(* A body is a syntax tree of AotHandler without reads; a string of it is  *)
(* one token of a template or a text without any.  How a path finds its    *)
(* route and its parameters is RouteTable's, the headers BuiltinHeaders'.  *)
(***************************************************************************)
EXTENDS AotHandler

CONSTANT Alphabet   \* the names in use, in the order a BTreeMap has them

\* A template: its kind, body and status ("" for none given), whether its path
\* has a parameter, whether one of its headers has braces in its value.
Template(kind, body, status, hasParams, braces) ==
  [kind |-> kind, body |-> body, status |-> status, hasParams |-> hasParams, braces |-> braces]

\* A request: its method, whether its path ends in a slash, the parameters of its
\* route, its query and its headers, as pairs, and the client's address.
Pair(name, value, written) == [name |-> name, value |-> value, written |-> written]
\* A pair of a query may be written plainly, as a name alone, or with escapes
\* that URLSearchParams and decode_segment read differently.
Writings == {"plain", "bare", "odd"}
Request(method, slash, params, query, headers) ==
  [method |-> method, slash |-> slash, params |-> params, query |-> query,
   headers |-> headers, ip |-> "127.0.0.1"]

-----------------------------------------------------------------------------
\* The context a body is rendered in: method, path and ip as texts; params, query
\* and headers as collections, their names in order and the values of each name.

Named(pairs, n) == SelectSeq(pairs, LAMBDA p : p.name = n)
Collection(pairs) ==
  [names |-> FoldLeft(LAMBDA ns, p : IF Contains(ns, p.name) THEN ns ELSE Append(ns, p.name), <<>>, pairs),
   at |-> [n \in {p.name : p \in Range(pairs)} |->
            [i \in DOMAIN Named(pairs, n) |-> Text(Named(pairs, n)[i].value)]]]
Joined(vs) == FlattenSeq([i \in DOMAIN vs |-> IF i = 1 THEN vs[i] ELSE <<", ">> \o vs[i]])
Lowered(pairs) == [i \in DOMAIN pairs |-> [pairs[i] EXCEPT !.name = Lower(@)]]

Context(req, path, query, headers) ==
  [method |-> <<req.method>>, path |-> path, ip |-> <<req.ip>>,
   params |-> Collection(req.params), query |-> query, headers |-> headers]
Slash(req) == IF req.slash THEN <<"/">> ELSE <<>>
Path == <<"/path">>

\* A header that is sent twice comes as one value on Node and on Bun.
ParseHeaders(req) ==
  LET all == Collection(Lowered(req.headers))
  IN [all EXCEPT !.at = [n \in DOMAIN all.at |-> <<Joined(all.at[n])>>]]
ParseQuery(req) == Collection(req.query)
\* A query of one character is no query.
JoinQueryParams(req) ==
  IF Len(req.query) = 1 /\ req.query[1].written = "bare" THEN Collection(<<>>) ELSE Collection(req.query)

NodeContext(req) == Context(req, Path, ParseQuery(req), ParseHeaders(req))
BunContext(req) == Context(req, Path, JoinQueryParams(req), ParseHeaders(req))
EmptyContext ==
  Context([method |-> "GET", ip |-> "", params |-> <<>>], <<"/">>, Collection(<<>>), Collection(<<>>))

\* The Rust core: the path as it was sent, names in the order of a BTreeMap, the
\* last of equal headers, and none named connection.
Sorted(c) == [c EXCEPT !.names = SelectSeq(Alphabet, LAMBDA n : n \in DOMAIN c.at)]
RustQuery(req) ==
  Sorted(Collection([i \in DOMAIN req.query |->
           IF req.query[i].written = "odd" THEN [req.query[i] EXCEPT !.value = "mangled"] ELSE req.query[i]]))
RustHeaders(req) ==
  LET kept == Collection(SelectSeq(Lowered(req.headers), LAMBDA h : h.name # "connection"))
  IN Sorted([kept EXCEPT !.at = [n \in DOMAIN kept.at |-> <<Last(kept.at[n])>>]])
RustContext(req) ==
  LET c == Context(req, Path \o Slash(req), RustQuery(req), RustHeaders(req))
  IN [c EXCEPT !.params = Sorted(@)]

-----------------------------------------------------------------------------
\* Rendering

\* What a string with braces asks for: a field of the context, a name in it.
Token(t) ==
  CASE t = "{{method}}" -> <<"method">>
    [] t = "{{path}}" -> <<"path">>
    [] t = "{{ip}}" -> <<"ip">>
    [] t = "{{params}}" -> <<"params">>
    [] t = "{{query}}" -> <<"query">>
    [] t = "{{params.id}}" -> <<"params", "id">>
    [] t = "{{query.k}}" -> <<"query", "k">>
    [] t = "{{headers.X-Id}}" -> <<"headers", "X-Id">>
    [] t = "{{headers.connection}}" -> <<"headers", "connection">>
    [] t = "{{unknown}}" -> <<"unknown">>
    [] t = "{{}}" -> <<"">>
    [] t = "{{open" -> <<"no token">>
    [] OTHER -> <<>>
Braces(t) == Token(t) # <<>>

\* {"a":"1","b":["2","3"]}
CollectionJson(c) ==
  LET quoted(v) == InQuotes(EscAll(v))
      value(vs) == IF Len(vs) = 1 THEN quoted(vs[1])
                   ELSE Between("[", [i \in DOMAIN vs |-> quoted(vs[i])], "]")
  IN Between("{", [i \in DOMAIN c.names |->
       InQuotes(<<c.names[i]>>) \o <<":">> \o value(c.at[c.names[i]])], "}")

\* resolveTemplateToken and resolve_token
ResolveToken(token, context) ==
  LET of == token[1]
      name == IF of = "headers" THEN Lower(token[2]) ELSE token[2]
      one == context[of].at[name]
  IN CASE of \in {"method", "path", "ip"} -> context[of]
       [] of \in Collections /\ Len(token) = 1 -> CollectionJson(context[of])
       [] of \in Collections /\ Len(token) = 2 ->
            IF name \in DOMAIN context[of].at THEN Joined(one) ELSE <<>>
       [] OTHER -> <<>>

\* The pattern of renderTemplateString asks for a character between the braces,
\* render_template_string does not; without closing braces both leave a string as
\* it is.
IsToken(t, rust) == Braces(t) /\ t # "{{open" /\ (rust \/ t # "{{}}")
RenderString(t, context, rust) ==
  IF IsToken(t, rust) THEN ResolveToken(Token(t), context) ELSE Text(t)

\* The manifest's bodies come out of serde_json with their keys sorted.
SortedProps(props) ==
  FlattenSeq([i \in DOMAIN Alphabet |-> SelectSeq(props, LAMBDA p : p.v = Alphabet[i])])
RECURSIVE RenderValue(_, _, _)
RenderValue(e, context, rust) ==
  IF e.k = "str"
  THEN LET ts == RenderString(e.v, context, rust) IN Tmpl([i \in DOMAIN ts |-> Str(ts[i])])
  ELSE LET kids == IF rust /\ e.k = "object" THEN SortedProps(e.kids) ELSE e.kids
       IN [e EXCEPT !.kids = [i \in DOMAIN kids |-> RenderValue(kids[i], context, rust)]]
\* A text or html route with a body that is no string sends it as JSON, too.
RenderBody(t, context, rust) ==
  LET rendered == RenderValue(t.body, context, rust)
  IN IF t.kind # "json" /\ t.body.k = "str" THEN Eval(rendered, <<>>, <<>>).ts
     ELSE Json(rendered, <<>>, <<>>)

-----------------------------------------------------------------------------
\* Answers

StatusOf(t) == IF t.status = "" THEN "200" ELSE t.status
Bodyless == {"204", "304"}

\* Mutant: only a body that is itself a string is searched.
ContainsToken_Shallow(body) == body.k = "str" /\ Braces(body.v)
ContainsToken(body) == \E x \in Range(Nodes(body, {})) : x.k = "str" /\ Braces(x.v)

\* Response.end: Node sends no body with a status that has none.
End(status, type, suppressBody, body) ==
  Answer(status, type, {}, IF suppressBody \/ status \in Bodyless THEN <<>> ELSE body)
\* writeRouteResponse: HEAD ends before a Content-Type is set.
NodeAnswer(t, req) ==
  LET head == req.method = "HEAD"
  IN End(StatusOf(t), IF head THEN "" ELSE t.kind, head, RenderBody(t, NodeContext(req), FALSE))

\* createBunRouteHandler, createStaticBunResponse, createBunResponse.  Bun sends no
\* body for HEAD.
CanUseStaticBunResponse(t) == ~t.hasParams /\ ~ContainsToken(t.body) /\ ~t.braces
BunAnswer(t, req) ==
  LET context == IF CanUseStaticBunResponse(t) THEN EmptyContext ELSE BunContext(req)
  IN Answer(StatusOf(t), t.kind, {},
            IF req.method = "HEAD" \/ StatusOf(t) \in Bodyless THEN <<>> ELSE RenderBody(t, context, FALSE))

\* from_parts prebakes what has no braces; lookup_static_response_bytes and
\* lookup_static_response find it for GET, its exact path and no query.
Prebaked(t, req) ==
  /\ ~t.hasParams /\ ~ContainsToken(t.body) /\ ~t.braces
  /\ req.method = "GET" /\ req.query = <<>> /\ ~req.slash
RustAnswer(t, req) ==
  Answer(StatusOf(t), t.kind, {},
         IF Prebaked(t, req) THEN RenderBody(t, EmptyContext, TRUE)
         ELSE IF req.method = "HEAD" \/ StatusOf(t) \in Bodyless THEN <<>>
         ELSE RenderBody(t, RustContext(req), TRUE))

-----------------------------------------------------------------------------
\* Where the three are known to differ.

Asks(t, of) == \E x \in Range(Nodes(t.body, {})) : x.k = "str" /\ Braces(x.v) /\ Token(x.v)[1] = of
InOrder(names) == names = SelectSeq(Alphabet, LAMBDA n : Contains(names, n))
\* The path is rendered with its trailing slash by the Rust core only.
PathDiffers(t, req) == Asks(t, "path") /\ req.slash
QueryDiffers(t, req) ==
  /\ Asks(t, "query")
  /\ \/ \E p \in Range(req.query) : p.written = "odd"
     \/ Len(req.query) = 1 /\ req.query[1].written = "bare"
     \/ ~InOrder(ParseQuery(req).names)
HeadersDiffer(t, req) ==
  /\ Asks(t, "headers")
  /\ \/ Len(req.headers) # Len(ParseHeaders(req).names)
     \/ \E h \in Range(req.headers) : h.name = "connection"
ParamsDiffer(t, req) == Asks(t, "params") /\ ~InOrder(Collection(req.params).names)
KeysDiffer(t) ==
  \E x \in Range(Nodes(t.body, {})) : x.k = "object" /\ SortedProps(x.kids) # x.kids
\* A prebaked response sends its body whatever its status.
BodyWhereNone(t, req) == Prebaked(t, req) /\ StatusOf(t) \in Bodyless
Differs(t, req) ==
  \/ PathDiffers(t, req) \/ QueryDiffers(t, req) \/ HeadersDiffer(t, req) \/ ParamsDiffer(t, req)
  \/ KeysDiffer(t) \/ Asks(t, "") \/ BodyWhereNone(t, req)

\* A client is sent one status, type and body whichever runtime the app listens
\* on, for every template and every request without one of the named differences;
\* a HEAD request is never sent a body, and has no Content-Type on Node.
SameOnAllRuntimes(t, req) ==
  LET node == NodeAnswer(t, req)
      bun == BunAnswer(t, req)
      rust == RustAnswer(t, req)
  IN Differs(t, req) \/ (bun = rust /\ node = IF req.method = "HEAD" THEN [bun EXCEPT !.type = ""] ELSE bun)
===============================================================================
