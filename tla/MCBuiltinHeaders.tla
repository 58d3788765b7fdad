--------------------------- MODULE MCBuiltinHeaders ---------------------------
(***************************************************************************)
(* A small app for TLC: cors() twice over, securityHeaders() twice over,   *)
(* and routes of each sort that set headers of each kind.                  *)
(***************************************************************************)
EXTENDS BuiltinHeaders

Header(n, v) == [x \in {n} |-> v]

\* A second call of cors() replaces the first, also what only the first has;
\* one of securityHeaders() adds to the first.
MCFeatures ==
  {[kind |-> "cors", headers |-> Overlay(Header("allow-methods", "all"), Header("max-age", "600"))],
   [kind |-> "cors", headers |-> Header("allow-methods", "some")],
   [kind |-> "security", headers |-> Header("frame", "deny")],
   [kind |-> "security", headers |-> Header("sniff", "no")]}

Route(id, method, sort, headers, type) ==
  [id |-> id, method |-> method, sort |-> sort, headers |-> headers, type |-> type]

\* The first sets a builtin header, the second a Content-Type its kind overrules.
MCRegistrable ==
  {Route("framed", "GET", "static", Header("frame", "same"), "html"),
   Route("item", "GET", "dynamic", Overlay(Header("x", "1"), Typed("csv")), "json"),
   Route("hook", "GET", "handler", Typed("json"), "json"),
   Route("menu", "OPTIONS", "static", NoHeaders, "text")}
=============================================================================
