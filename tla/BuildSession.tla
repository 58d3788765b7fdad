----------------------------- MODULE BuildSession -----------------------------
(***************************************************************************)
(* fearless-build: a session of builds of one project.  Each build visits  *)
(* the route calls of the app in order, compiles what it can, writes three *)
(* files into rust-core and has cargo build the binary from them.  It may  *)
(* be killed anywhere, cargo may fail, and between builds the developer    *)
(* may run cargo with the pg-handles feature, which the script never sets. *)
(*                                                                         *)
(* What the analyzer and the transpiler make of a call is a parameter;     *)
(* AotBuild gives it its value.  The compiled routes are sets: the number  *)
(* in a route's name is its place among them.                              *)
(***************************************************************************)
EXTENDS Naturals, Sequences, FiniteSets, Functions

CONSTANTS
  Sessions,       \* sequences of apps, [decls, calls], built one after the other
  Sanitized,      \* each path with what is not a letter or a digit replaced by _
  Compile(_, _),  \* a call and the app's declarations to [call, kind, program]
  CargoAccepts(_) \* whether the Rust of a program compiles

VARIABLES
  todo,       \* the apps still to build
  app,        \* the app of this build
  routes,     \* the routes discovered so far
  phase,      \* what the build does next
  runCargo,   \* not --no-cargo
  handlers,   \* handlers.rs: the compiled routes
  manifest,   \* dispatch_manifest.json
  registry,   \* registry_init.rs: STATEMENTS and the registered names
  agree,      \* history: handlers.rs and registry_init.rs come from one build
  binary,     \* fearless-core: its routes, its registry, with pg-handles or not
  exit        \* how the last build ended

vars == <<todo, app, routes, phase, runCargo, handlers, manifest, registry, agree, binary, exit>>
files == <<handlers, manifest, registry, agree>>

NoStatements == [statements |-> <<>>, names |-> {}]
NoBinary == [routes |-> {}, registry |-> NoStatements, pg |-> FALSE, agree |-> TRUE]

Compiled(rs) == {r \in Range(rs) : r.kind = "aot"}
Sync(compiled) == {r \in compiled : r.program.kind = "sync"}
Async(compiled) == {r \in compiled : r.program.kind = "async"}

Init ==
  /\ todo \in Sessions
  /\ app = [decls |-> <<>>, calls |-> <<>>]
  /\ routes = <<>> /\ phase = "idle" /\ runCargo = TRUE
  /\ handlers = {} /\ manifest = <<>> /\ registry = NoStatements /\ agree = TRUE
  /\ binary = NoBinary /\ exit = "none"

Start(cargo) ==
  /\ phase = "idle" /\ todo # <<>>
  /\ app' = Head(todo) /\ todo' = Tail(todo) /\ runCargo' = cargo
  /\ routes' = <<>> /\ phase' = "visit" /\ exit' = "running"
  /\ UNCHANGED <<files, binary>>

\* The number in a compiled route's name: how many were compiled before it.
IdCounter == Cardinality({i \in DOMAIN routes : routes[i].kind = "aot"})

Identified(r) ==
  [call |-> r.call, kind |-> r.kind, program |-> r.program,
   name |-> <<IdCounter, r.call.sort = "template", Sanitized[r.call.path]>>]
Visit ==
  /\ phase = "visit" /\ Len(routes) < Len(app.calls)
  /\ routes' = Append(routes, Identified(Compile(app.calls[Len(routes) + 1], app.decls)))
  /\ UNCHANGED <<todo, app, phase, runCargo, files, binary, exit>>

\* collectSql
Keys(rs) == {r.program.key : r \in Async(Compiled(rs))}
Texts(rs, key) == {r.program.statement : r \in {x \in Async(Compiled(rs)) : x.program.key = key}}
Collides_Never(rs) == FALSE
Collides(rs) == \E key \in Keys(rs) : \E t, u \in Texts(rs, key) : t # u
CollectSql(rs) ==
  [statements |-> [key \in Keys(rs) |-> CHOOSE t \in Texts(rs, key) : TRUE],
   names |-> {r.program.handle : r \in Async(Compiled(rs))}]

\* compileApp returns, or throws because two statements have one key.
CompileApp ==
  /\ phase = "visit" /\ Len(routes) = Len(app.calls)
  /\ IF Collides(routes) THEN phase' = "idle" /\ exit' = "failed"
     ELSE phase' = "handlers" /\ UNCHANGED exit
  /\ UNCHANGED <<todo, app, routes, runCargo, files, binary>>

WriteHandlers ==
  /\ phase = "handlers" /\ phase' = "manifest"
  /\ handlers' = Compiled(routes) /\ agree' = FALSE
  /\ UNCHANGED <<todo, app, routes, runCargo, manifest, registry, binary, exit>>
WriteManifest ==
  /\ phase = "manifest" /\ phase' = "registry"
  /\ manifest' = [i \in DOMAIN routes |-> [kind |-> routes[i].kind, path |-> routes[i].call.path]]
  /\ UNCHANGED <<todo, app, routes, runCargo, handlers, registry, agree, binary, exit>>
\* A build without SQL handlers writes an empty registry.
WriteRegistry ==
  /\ phase = "registry" /\ phase' = "cargo"
  /\ registry' = CollectSql(routes) /\ agree' = TRUE
  /\ UNCHANGED <<todo, app, routes, runCargo, handlers, manifest, binary, exit>>

Ends(how) == phase' = "idle" /\ exit' = how
Skip ==
  /\ phase = "cargo" /\ (~runCargo \/ Compiled(routes) = {})
  /\ Ends("ok") /\ UNCHANGED <<todo, app, routes, runCargo, files, binary>>
Runs == phase = "cargo" /\ runCargo /\ Compiled(routes) # {}
\* The script's features leave the async handlers and their registrations out.
CargoBuild ==
  /\ Runs /\ \A r \in Sync(handlers) : CargoAccepts(r.program)
  /\ binary' = [routes |-> Sync(handlers), registry |-> NoStatements, pg |-> FALSE, agree |-> agree]
  /\ Ends("ok") /\ UNCHANGED <<todo, app, routes, runCargo, files>>
CargoFails_Ignored == Runs /\ Ends("ok") /\ UNCHANGED <<todo, app, routes, runCargo, files, binary>>
CargoFails ==
  /\ Runs /\ Ends("failed")
  /\ UNCHANGED <<todo, app, routes, runCargo, files, binary>>

Killed ==
  /\ phase # "idle" /\ Ends("killed")
  /\ UNCHANGED <<todo, app, routes, runCargo, files, binary>>
HandBuild ==
  /\ phase = "idle" /\ \A r \in handlers : CargoAccepts(r.program)
  /\ binary' = [routes |-> handlers, registry |-> registry, pg |-> TRUE, agree |-> agree]
  /\ UNCHANGED <<todo, app, routes, phase, runCargo, files, exit>>

Next ==
  \/ \E cargo \in BOOLEAN : Start(cargo)
  \/ Visit \/ CompileApp \/ WriteHandlers \/ WriteManifest \/ WriteRegistry
  \/ Skip \/ CargoBuild \/ CargoFails \/ Killed \/ HandBuild
Spec == Init /\ [][Next]_vars

-----------------------------------------------------------------------------
\* What generated code refers to by a name is what the build meant.  No two
\* functions have one name, or cargo rejects the whole file; in a binary with
\* pg-handles whose files come from one build, every async route finds its handle
\* registered and its own SQL text under its key: the expect in the emitted code
\* never fails and no route runs the SQL of another (index.ts:93-165,
\* sql-collection.ts:33-45).
NamesResolve ==
  /\ \A i, j \in DOMAIN routes :
       routes[i].kind = "aot" /\ routes[j].kind = "aot" /\ routes[i].name = routes[j].name => i = j
  /\ binary.pg /\ binary.agree =>
       \A r \in Async(binary.routes) :
         /\ r.program.handle \in binary.registry.names
         /\ r.program.key \in DOMAIN binary.registry.statements
         /\ binary.registry.statements[r.program.key] = r.program.statement

\* After a build that ended well and ran cargo, the binary serves the sync routes
\* this build reported, whatever earlier builds wrote, failed or were killed at
\* (fearless-build.mjs:64-143).
BinaryCurrent ==
  phase = "idle" /\ exit = "ok" /\ runCargo /\ Compiled(routes) # {} /\ ~binary.pg =>
    binary.routes = Sync(Compiled(routes)) /\ binary.agree
===============================================================================
