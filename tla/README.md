# Fearless in TLA+

Fearless is an HTTP microframework with two halves: a small TypeScript surface
(`src/src`) that runs on Node or Bun, and a Rust core (`src/rust-core`) that
serves declarative routes, and handlers compiled ahead of time, from io_uring
workers.  This directory holds the specifications of its parts, the TLC
configurations that check them, and the theorems TLAPS proves about them.

Paths below are relative to the repository; `connection.rs:142` means
`src/rust-core/src/uring/connection.rs`, line 142.

## Inventory

| Component | State it keeps | Operations | What is hard | What makes it correct |
|---|---|---|---|---|
| io_uring worker (`uring/accept.rs`, `connection.rs`, `buffers.rs`) | slab of connections, stack of buffer slots, generation counter, operations in the ring, one read and one write region per slot | accept, Recv and Send completions, async delivery | completions arrive in any order, partial reads and writes, pipelining past every limit, slot and index reuse, the kernel ending the accept | each connection has one operation of its own outstanding; slots and descriptors have one owner each; regions are never overrun; responses are complete, in order, exactly once; nobody waits forever |
| Async bridge (`runtime/async_bridge.rs`) | queue of completions, eventfd counter | spawn (push, signal), drain | another thread pushes while the loop drains and re-arms | no wake-up is lost; a response reaches the connection that asked |
| HTTP pipeline (`benchmark/parser.rs`, `connection.rs:167-382`) | none (pure) | cut the buffer into requests, classify, choose the batch | MAX_PIPELINE, regions that fill up, async requests in the middle | the batch is a prefix; what is left over is served later |
| AOT table and handles (`aot/*.rs`, `runtime/pg_pool.rs`) | route list, handle registry, Postgres pool | lookup, handler calls, pool get with a two-second wait | order of registration, pool at its limit | the handler found is the one the TypeScript router finds |
| Prebaked responses (`benchmark/responses.rs`, `date.rs`) | an ArcSwap of byte strings, a refresher thread holding a Weak | refresh, snapshot | refresher against readers and shutdown | a snapshot is whole and recent |
| Sync server (`rust-core/src/lib.rs`) | route table, date cache; per connection a reader and a writer | worker loop, request loop | one connection at a time per worker; prebaked bytes | same routing as TypeScript; one response for each request, in order, truly labelled; a thread is never lost |
| TypeScript router (`src/src/app.ts`, `path.ts`) | exact map, one trie per method, Bun's route map | addRoute, findRoute, buildBunRoutes | backtracking, shared parameter nodes, three registries of one route list | the same request finds the same route on every runtime |
| Builtin headers (`app.ts:652-712, 794-858, 1153-1187`) | cache of header object, cached 404 and OPTIONS responses | use, buildBuiltinHeaders, buildRouteHeaders | the cache is one mutable object | a response carries the builtins and its own headers only |
| App lifecycle (`app.ts:1193-1274`, `rust-core.ts`) | three server handles, a child process, a temporary directory | listen, close, start, stop | close during start, child dying, SIGTERM to SIGKILL | nothing is left running after close; the callback tells the truth |
| Hook chain and context (`middleware.ts`, `ctx.ts`, `request.ts`, `response.ts`) | hook lists; per request the pending response and the body | execute, text, body, formData, builders | exceptions at each point, the body stream read once | one response, from the stage that decides; error hooks see the latest error; nothing set on `ctx` is used twice |
| Template routes (`app.ts:152-398, 714-770, 997-1032`, `request.ts`, `response.ts`, `lib.rs:1065-1148, 1434-1821`) | none beyond responses built in advance | parse the query and headers, render, answer | two renderers, two query parsers, three contexts, and prebaked responses on two runtimes | a template is answered alike on every runtime |
| AOT build (`packages/aot-analyzer`, `aot-transpiler`, `aot-build`, `scripts/fearless-build.mjs`) | the routes found so far; three generated files and a binary on disk | analyze, transpile, collect SQL, write, run cargo | what is silently dropped; names and statement keys; a build killed or failing between two files | a compiled handler answers as its source does; the binary is the one the last good build reports |
| Supervisor (`scripts/fearless-serve.mjs`) | a container under a fixed name, its log tail, a Bun child | bring up, shut down | one side dying, a run killed half-way, leftovers of an earlier run, docker commands that fail | a stop comes to an end and leaves only what docker refuses to remove; a run never takes a leftover container for its own |
| Worker start-up (`uring/runtime.rs`), launchers, benchmarks, deployment, examples | - | - | pure I/O and tooling | not modelled |

The parts interact so: `App.listen` picks a runtime; on Node or Bun the router
and the hook chain answer in process; otherwise a manifest goes to a child
process of the Rust core, whose sync server (manifest) or io_uring workers
(benchmark and AOT routes) answer.  In a worker, `run_loop` owns everything and
is single threaded; only the bridge's queue and eventfd are shared with the
tokio runtime, and only completions connect it to the kernel.  The compiled
handlers a worker answers with are written by `fearless-build`, which reads the
same `app.ts` the Bun side runs; `fearless-serve` starts both sides on one host.

## Modules

| Module | Models |
|---|---|
| `HttpPipeline` | the pure part of a connection: requests as records, regions as sequences of cells, what a client sends and is owed for its first requests (`RequestCells`, `ReplyCells`), `RequestEnds` (`parse_pipeline`), `BatchSize` (the loop of `process_buffered`) |
| `PipelinedService` | the abstract specification: what a worker promises clients, over `peer`, `nread`, `got` only |
| `UringWorker` | the worker: registry, slots, connections, bridge; the kernel and the clients as environment |
| `RouteTable` | the routers over one list of routes: Node's, Bun's with its fallback, the Rust core's, the AOT table's |
| `BuiltinHeaders` | `use()` and the headers of responses on the three runtimes |
| `RustCoreLifecycle` | `listen()` and `close()` over the child process of the Rust core |
| `HookChain` | one request through `execute` with its `RequestContext`, and its response's way out |
| `SyncServer` | the blocking servers of the Rust core: threads, request loop, prebaked and cached dates |
| `AotHandler` | handlers as syntax trees, and the answer TypeScript gives for them |
| `AotAnalyzer` | the rules that decide whether a handler may be compiled |
| `AotTranspiler` | the program a handler is compiled to, and the answer the compiled code gives |
| `TemplateResponse` | a template route's answer on Node, on Bun and from the Rust core |
| `BuildSession` | builds of one project: routes, files, cargo, the binary, for any analyzer and transpiler |
| `AotBuild` | the session with this project's analyzer and transpiler, and how compiled answers compare with their sources |
| `ServeSupervisor` | runs of `fearless-serve` on one host |
| `MC...` | the instances for TLC: scripts and symmetry, routes and targets, features |
| `...Proofs` | theorems about `UringWorker`, `RouteTable`, `SyncServer`, `HookChain`, `BuiltinHeaders`, `RustCoreLifecycle`, `BuildSession`, `ServeSupervisor` |

`UringWorker` extends `HttpPipeline` and implements `PipelinedService`
(`ImplementsService`): `Service` instantiates the abstract module with the
worker's own view of its clients as the refinement mapping.  `AotBuild` extends
`BuildSession`, whose parameter `Compile` it defines, and `TemplateResponse` and
`AotTranspiler`, which extend `AotHandler` and `AotAnalyzer`.  The others stand alone: they share no state with the
worker or with each other, only the list of routes, which each of them takes as
it needs it.

### UringWorker

A byte is a *cell*: `[c, k, j]` is the j-th piece of request `k` of client `c`,
or of its response.  Lengths (`READ_REGION_BYTES`, `WRITE_REGION_BYTES`,
responses) are counted in cells, so a region of three cells has the same edges
as one of 4096 bytes: empty, partly filled, exactly full, and one too many.

| State | Code |
|---|---|
| `conns`, `vacant` | the `Slab<RegistryEntry>` and its list of free keys, a stack (accept.rs:48) |
| `free` | `FixedBuffers.free` (buffers.rs:39-56) |
| `next_generation` | accept.rs:49; modulo `GenMod` instead of 2^32 |
| `rmem`, `wmem` | the two regions of each slot |
| `ring[i]`, `acceptOp`, `acceptCqe`, `eventfdOp` | what was pushed with a token of index i, with `ACCEPT_TOKEN`, with `EVENTFD_TOKEN`, and how far it has got: `sq`, `kernel`, `cq`, `batch` |
| `eventfd`, `queue`, `tasks`, `drained` | the eventfd counter (zero or not), `WorkerBridge.completions`, the spawned futures, and the vector `drain` returned while the loop of accept.rs:83 walks it |
| `fds`, `peer`, `nread`, `got` | the environment: who is behind a descriptor, what has been read from and delivered to each client |

`Submit` and `Collect` are the two effects of `submit_and_wait(1)` and of copying
the completion queue.  Every completion of the batch is then one action:
`HandleConn` (accept.rs:141-158 with all of `handle_completion` and
`process_buffered`), `HandleAccept`, `Drain` and `Deliver`.  The kernel may
complete operations in any order, so a batch has no order either except among
completions of the accept; `Deliver` keeps the worker to itself until `drained`
is empty, as the loop does.

The completions of a batch are steps of their own, which lets the kernel, the
tokio threads and the clients act between any two of them, as they can.

`Ledger` is the property of the bytes: for each connection whose client is there,
what the client has got, with what the write region still holds, is the responses to
its first requests (less one that a handler owes), and the read region holds what it
sent after those.  `RegionsRespected` and `ResourcePartition` say that the memory
and the descriptors it moves through are nobody else's: `HandleAccept` closes the
descriptor of a client that finds no slot, and every end of a connection closes its
own once; a full read region closes the connection before a Recv of length zero can
be staged for it, since the result of such a Recv would be read as the client's end.

### RouteTable

A pattern is a sequence of segments, a request target the sequence of what
stands between its slashes with a flag for a query, so that empty segments,
trailing slashes and escapes are all there and strings are not.  How a segment
is written (plain, escaped, with a `+`, malformed) decides what the two decoders
make of it (`Decoded`, `DecodeSegment`).

| State | Code |
|---|---|
| `routes` | `App.routes`; a route is its number in it |
| `exact`, `tries` | `App.exactRoutes`, `App.paramRoutesByMethod`: a trie is a function from nodes, named by the edges that lead to them, to a route and the key of the parameter |
| `bunRoutes` | the map `buildBunRoutes` returns |
| `manifest`, `rust` | the manifest's routes and the `RouteTable` that `from_manifest` builds: `routes`, `static_get_routes`, `param_roots` |

`Register`, `ListenBun` and `ListenRust` are the actions; lookups change nothing
and are operators (`FindRoute`, `BunLookup`, `RustLookup`, `AotLookup`), which
the invariants compare for every method and target in every state.
`MatchRouteTable` is the recursive search of both tries: `MatchNode` is its body at
a node, with the one mutable `params` object as argument and in the result, and
`Matches` ties the recursion as a function of node and parameters.  Bun's own router is not in the repository:
`Fits`, `Before` and `BunMatch` say what the code relies on, that a matching
pattern answers and a more specific one first.

### BuiltinHeaders

Headers are functions from names to values.  `builtin`, `cache`, `notFound` and
`options` are the fields of `App`; `bunRoutes` has the headers of each response
built in advance, or `Null` for a function; `manifest` is what the core got.
`reply` is the last response together with `App.builtin` at that moment.
`buildBunRoutes` makes routes one after another, each of which may write into the
object the next one starts from; `StaticUpTo`, `NamesUpTo` and `ValueUpTo` say for
each header what is in it when route i is made, and from which route, instead of
running the loop.  `cors()` and `securityHeaders()` have fixed sets of names, none
of them Content-Type (`HeadersAssumption`).  `Use`
and `Register` may come at any time, also after `listen()`.  A request is one
action, since nothing is awaited between the point where a response's builtin
headers are read and the point where they are in the response.

### RustCoreLifecycle

`startRustCoreServer` and `stop` are async functions: every stretch between two
awaits is an action, and what is awaited may succeed, fail or never happen.
`start[a]` and `close[n]` say where a call is; `rustServer`, `child`, `dirs`,
`killed` and `timers` are the field of `App`, the child processes, the temporary
directories, the SIGKILLs sent and the three-second timers.  A child may exit at
any time, ignore SIGTERM, or not exist at all (`missing`); a `stranger` may hold
the port.  `misled` is a history variable.  `Patient` is the one assumption
about the caller: it does not call `listen()` while an earlier `listen()` or
`close()` is under way; `close()` it may call at any time.

### HookChain

A *stage* is a call of a hook or of the handler, arbitrary code: it may call any
shaper, builder or parser of `ctx`, and returns or throws.  `phase` and `at` say
where `execute` is, `response` and `error` are its locals; `pending` is
`RequestContext.pending`, where each call that sets a status or a header leaves
its number as a *mark*, so that it can be seen where it ends up.  `text` is the
memoised promise of `text()`: not asked for, reading, read, failed, or `silent`
when it can never settle.  `waiting` has the parsers that a stage awaits.  After
`execute`, `WriteToNode` and `ReturnToBun` take the response to the client.
`log`, `asked` and `told` are history variables.

### SyncServer

The servers of lib.rs read lines, so a client is a sequence of lines (`script`),
of which it has sent some and may half-close or reset after any.  `worker[w]`
holds the locals of a thread: `pc` (in `accept`, at a request line, among the
headers, about to write), the connection, the request line, `close`, the slot of
the prebaked responses, the bytes cached by `BenchmarkCachedResponses`.  Each line read is an
action, with everything done before the next read; writing is one of its own, as
other threads may write between the moment bytes are dated and written.  `mode`
tells `handle_connection` from `handle_benchmark_connection`; `backlog[w]` is the
listen queue of the thread's own `SO_REUSEPORT` listener.  `wire` is the history
of each client's responses, `latest` the newest Date written, which a request
keeps as its `floor` when its line is read.  A request's body is glued to the
next line: a line of kind `garbage`.  Scripts are `WellFormed`: request lines are
numbered as they come, and each is followed by its headers up to the empty line.

### AotHandler, AotAnalyzer, AotTranspiler, TemplateResponse, AotBuild

A node of a syntax tree is `[k, v, kids]`; a text is a token, of which `Quoted` is
one that JSON and Rust have to escape; a body is a sequence of tokens.  On these
trees three evaluators stand side by side:

- `Source(h, req, db)` runs the handler as TypeScript does on a `Ctx`: statements
  in order, the builders' status, content type and body, the error response when
  nothing is returned.
- `Reasons(h, handles)` has one operator for each file of `rules/`; a handler is
  compiled when the set is empty.
- `Transpile(h, handles)` is a list of guarded responses (sync), or a statement key
  with bindings and columns (async); `RunSync` and `RunAsync` are what the emitted
  Rust does with a request, chunk by chunk (`Written`, which is `emitChunk`).

Templates, `app.json(path, body, options)`, have a body that is a tree without reads,
whose strings may be tokens.  `NodeAnswer`, `BunAnswer` and `RustAnswer` are what
`TemplateResponse` has a client be sent: each has a context of its own (`NodeContext`,
`BunContext`, `RustContext`: how the query is parsed, what becomes of a header that
is sent twice, in which order names come), a renderer (`RenderValue`, with the
differences of the Rust one as the flag `rust`), and what is built in advance
(`CanUseStaticBunResponse`, `Prebaked`).  Parameters are given as the router bound
them.  A compiled template is a handler, `Synthesized`, with whatever the options
said lost.

The trees and evaluators are definitions; the state is in `BuildSession`: a session
of builds, two in the run, each of which visits the calls of its app one by one (`Visit`, with
the running number of `aotIdCounter`), collects statements or throws because two
texts share a hash (`CompileApp`), writes `handlers.rs`, `dispatch_manifest.json`
and `registry_init.rs` in that order, and runs cargo, which refuses ill-typed
conditions (`CompilesInRust`) and may fail anyway.  `Killed` may come at each
step; `HandBuild` is cargo run by hand with `pg-handles`, a feature
`fearless-build` never passes.  `agree` is a history variable.  What the analyzer and
the transpiler make of a call (`Compile`) and whether cargo takes it (`CargoAccepts`)
are parameters there, which `aot.cfg` sets to `Discover` and `CompilesInRust` of
`AotBuild`: the session is proved about for any compiler, and run with this one.  The
compiled routes of a file are a set, since no property is about their order and a
route's number is in its name.

### ServeSupervisor

`pc[r]` says where a run of the script is.  `owner` and `up` are the container with
the name `fearless-aot`, `tail` and `bun` the run's two children.  What
`bringUpRust` does before and after `docker run` are two actions, as both are
synchronous and the rest of `main` is one turn of the event loop; `Signal` and
`BunExitSeen` are the two ways into `shutdown`, `Finish` is `docker rm` and
`exit(0)`.  Before the handlers are installed a signal kills the run (`Killed`), and a
program that cannot be spawned does too (`SpawnFails`).

Any docker command may fail.  The script ignores the result of `docker rm` in both
places, so `RemoveOld` and `Finish` go on with the container gone (`Removed`) or, when
the name is taken, still there and perhaps stopped (`NotRemoved`).  It looks at the
result of `docker run`: `DockerFails` ends the run with status 1, and may have created
or even started the container (`Attempt`).  The command under way when a run is killed
may still do its work.  Two variables are history: `since[r]`, the runs that took the
name since `r` was started, which is what `OwnContainer` is about, and `kept`, the
runs whose own `docker rm` failed at shutdown, the one reason `CleanStop` admits for
a container that is left under status 0.

## Runs

The numbers are chosen so that each limit is met and passed.  Deadlock is
checked for the worker, whose clients reconnect for ever, so that a worker that
stops shows as a deadlock, and for the headers.  It is not checked where the
system may really stop: an app registers so many routes and listens once, a
caller calls `listen()` and `close()` so many times, there is one request or one
connection per client (`hooks`, `sync`), so many builds (`aot`) or runs (`serve`).

| Run | Instance | Shows |
|---|---|---|
| `uring_pipeline` | two clients for one slot, one with seven requests of every kind, the other with a request larger than its region; `MaxPipeline` 2, regions of 3 cells, two generations | the ledger of every byte, regions that are never overrun and no operation of length zero, the abstract service, and that every accepted client is answered |
| `uring_pair` | two clients on async routes, one of them with a response larger than its region; two slots, all generations equal, a submission queue of 4 | ownership of operations and async completions, wake-ups, and that the queue never overflows |
| `uring_full_pool` | two clients for one slot, the accept may fail or end, no handle registry, a response too large to deliver | the accept is armed exactly once; each slot and each open descriptor has one owner; every queued client is accepted, every abandoned connection reclaimed |
| `routes` | apps of up to three routes out of seventeen, sixteen targets | the trie search finds the route the precedence asks for, with its own parameters; the three other routers agree where they can (`TablesAgree`) |
| `hooks` | up to two hooks of any kinds, registered before or during the request, and a handler; two calls on `ctx` besides; statuses 205, 304, 400; Node and Bun | hooks in order, the right response, nothing of `ctx` used twice, parsers that tell the truth, an end, and a crash from two named causes only |
| `sync` | two clients of three to six lines each, two threads, one tick of the clock, both servers | one response for each request, in order; true `Connection` headers; no Date older than one already sent; no thread lost |
| `headers` | two calls of `use()`, four routes, the three runtimes | own headers win, `use()` takes effect at once, preflights are as configured |
| `lifecycle` | two starts, three calls of `close()` | nothing orphaned, `close()` final, the callback truthful; the callback is called, `close()` ends |
| `aot` | every builder, shaper, condition and statement the analyzer accepts and a handler for each rule that rejects, compiled one by one and answered for 27 requests; templates of three kinds with every token, with a status and without, for a hundred requests; sessions of two builds over eight apps of at most two routes | compiled handlers answer as their sources do and templates alike on all runtimes, outside the named differences; names and statements resolve; the binary is the one reported |
| `serve` | two runs of the supervisor | a stop ends and leaves nothing but a container its own `docker rm` could not remove; a run that gets to its children has a container of its own, and no leftover holds the name |
| `aot_dropped` | violation | finding 2 |
| `headers_bun` | violation | finding 1 |

Why the bounds are enough:

- Worker.  `RingEntries` is the code's 4096 scaled to the instance: one entry per
  slot and one each for the accept and the eventfd Read; the invariant `SqFits`
  shows that no more are ever waiting.  `GenMod` 1 makes all generations equal,
  the worst wrap there is: whatever a larger modulus tells apart, this does not.
(`SubmissionsFit` and `CompletionsOwned` hold for any ring and any modulus, `LedgerKept`
  and `WorkerImplementsService` besides for any scripts, regions and `MaxPipeline`.)
  One slot for two clients is the full pool; three descriptors for two clients let a
  number be reused.
- Routes.  The seventeen routes overlap at every depth up to three segments.  Three
  of them are needed for a search that enters a static branch, fails two levels
  down, and comes back to a parameter; a parameter that such a branch has bound;
  and an exact route, a template and a handler for one path.
- Hook chain.  Two hooks are the fewest for a second error hook that sees the
  first one's exception, a response hook after a request hook that answers, and a
  hook registered behind the one that runs.  Two calls are a `status` that one
  stage sets and another loses, two parsers at once or one after another, and a
  body inspected before an answer of the stage's own.  304 is an error that cannot
  be answered, 205 a status that makes a builder throw.
- Sync server.  The scripts have a request to close, one to keep alive, a request
  behind one that closes, three static requests, and a line that is no request; a client may stop before
  any line.  Two threads show a date rendered by one while the other keeps an
  older one; one backlog with two clients shows a client behind another.
- Headers.  One call of `use()` before and one after a response is what makes a
  cached value stale.  The routes set a builtin header, a header of their own and
  a Content-Type that their kind overrules.
- AOT.  Guards are nested two deep, as `if` in `if` and as `else if`, which is where
  a guard is composed with another.  Each of the three places of a request is
  absent or empty, plain or in need of escapes, independently.  A template's query has
  up to three pairs, which is a name given twice with another between; each of the
  named differences shows in some request, as the run fails without it.  Two routes show names that
  are sanitized alike and texts that share a key; two builds show files and a
  binary that the first has left.
- Supervisor.  Two runs are a run and its leftovers, and two at once under one name;
  the theorems hold for any number.
- Lifecycle.  Two starts are needed for a child that outlives its start to answer
  for a later one; three closes for two that stop one server and one that comes
  too early.

### Fairness

Worker.  `WF(WorkerStep)`: the worker is a thread that blocks only in
`submit_and_wait`.  `WF` of each Recv and Send: the kernel completes what it can
complete.  `WF` of the handler of an index: futures await queries that the
database answers, and the pool's wait is two seconds; a handler that panics ends
the process (`panic = "abort"`, rust-core/Cargo.toml:54), and with it the worker.  `SF(KernelAccept(c))`: the accept is
armed and disarmed over and over, and the listen queue is served first come first
served, so a client is not passed over for ever.  Clients have no fairness: they
may connect, hang up, or do neither.

Hook chain.  `WF` of the stages, of `execute`'s steps, of a promise that has
settled and of an event that has been emitted: application code returns or throws
sooner or later, the event loop turns.  `WF` of the client's end: it sends its
body or leaves.  Hooks registered and calls of `ctx` are not fair.

Sync server.  `WF(WorkerStep(w))`: the threads run.  `WF(Stop(c))`: a client that
has connected is gone sooner or later.  That is an assumption about clients, not
about the code, which has no timeout: without it a client that stays keeps the
backlog of its thread waiting.

Lifecycle.  `WF` of each start and each close: file operations, the build and
timers settle, in particular the deadline of `waitForTcp` and the three seconds of
`stop`.  `WF` of the exit of a child that was sent SIGKILL: the kernel ends it.
Nothing else is fair: a child may start for ever, never listen, and ignore
SIGTERM, and no caller has to call anything.

Supervisor.  `WF` of `BunExitSeen` and `Finish`: an event that is queued is handled,
and `docker rm` returns, whether or not it has removed anything.  Nobody has to send a signal, and Bun may ignore one.

### Findings

1. `headers_bun`: `buildRouteHeaders` writes into the cached object (app.ts:707),
   so on Bun one route's headers reach all responses that follow, and its security
   headers replace the configured ones (README.md:245, ARCHITECTURE.md:53).
2. `aot_dropped`: an `if` whose condition cannot be rendered is skipped
   (aot-transpiler/src/index.ts:169) and the handler compiled without it, where the
   comment at line 211 says that the handler falls back to Bun.  A guard such as
   `if (!ctx.query.q) return ctx.status(400).json(...)` is in the Bun server and
   not in the binary.

### Divergences met while modelling, without a run

They are left out of the properties by a named condition, or stay outside the
model; each is visible in the definitions next to one another.

- Routing.  Of two parameter routes of one shape TypeScript keeps the first, Rust
  the last; a template without tokens stays in `static_get_routes` when a later
  route of its path replaces it in `routes` (lib.rs:637) (both: `DistinctShapes`).
  Rust drops empty segments, reads `+` as a space and an escape as one character,
  and takes a colon inside a segment for a parameter (the conditions of
  `RustAgrees`).  On Bun a template with a parameter shadows an exact handler of
  the same path, which handleBunFallback is never asked for (`BunTemplatesAgree`
  claims nothing of handlers).  A node of the trie keeps the parameter name of the
  route that made it (app.ts:471), so of `/:x` and `/:y/b` the second finds its
  parameter under `x` (`ConsistentNames`).  The AOT table answers with the first route that
  matches, whatever is more specific, has no GET for HEAD, and does not decode
  parameters (the conditions of `AotAgrees`).  `try_aot_dispatch` looks the target
  up with its query (connection.rs:409), so `/a?q` does not find the compiled
  `/a`, though README.md:300 lets a compiled handler use `ctx.query`.
- Headers.  The Rust core puts the headers of `cors()` on preflights only
  (lib.rs:646-696: `FromRoute` has no `manifest.cors`), Node and Bun put them on
  every response, as test/cors.test.ts:76 asks on Node.
- Worker.  `classify` says `close: false` for every request that is not one of the
  two benchmark routes (parser.rs:30-40), so an HTTP/1.0 request on an async
  route does not end its connection as connection.rs:526-528 says.
- Hook chain.  `execute` does not "Always resolve to a Response"
  (middleware.ts:46-47, README.md:163): `toResponse()` of an `HttpError` with
  status 204, 205 or 304 throws, because those allow no body, and as
  `handleNodeRequest` is not awaited (app.ts:648) the rejection ends a Node
  process.  So does a response hook that reads the body it inspects
  (README.md:209), since `arrayBuffer()` then rejects (app.ts:986).  These are the
  two causes that `Outcome` admits.  `readNodeBody` called after the client has
  left waits for events that have passed (ctx.ts:55-67): the exception in
  `Settles`.  On Bun `formData()` after `text()` is answered 400, on Node it is
  not: `TakenByForm`.
- Sync server.  `parse_benchmark_fast` means to find "HTTP/1.0 (close connection)"
  in the last bytes of a line (lib.rs:1374), but the line still ends in its line
  break: the response says keep-alive and the connection stays open (`CloseOf`; no
  property is about it).  Static routes and the benchmark server ignore `Connection: close`.  A request's body is left in the
  stream and read as the next request line.  Prebaked responses carry the Date of
  the start of the process, or of the second after it, and a connection goes from
  one to the other in either direction.
- Compiled handlers against their sources (each a disjunct of `Diverges`, or a
  condition of its property).  A second argument of `json` or `html`, headers, and
  every status but the first are dropped; `redirect` takes the chained status;
  `ctx.text(...)`, a body parser of the context, is compiled as a builder; the text
  of a template inside JSON is not escaped; what is absent reads as an empty
  string; `ctx.headers.Foo` finds its value only once compiled; a handler that
  returns nothing answers 500 in another form; returns inside `try` and `switch`
  are ignored.  Hooks, `cors()` and security headers do not run in front of a
  compiled route.  A read compared with a number compiles to ill-typed Rust, and
  cargo then rejects the whole file.  A compiled template sends its tokens as they
  stand, and status 200 without headers whatever its options say
  (aot-build/src/index.ts:134-150 reads two arguments).
- Template routes (each a disjunct of `Differs`).  The Rust core sends a prebaked
  response with its body whatever its status (lib.rs:893-941), so that a 204 or 304
  on a kept connection is followed by bytes the client takes for the next response;
  the same request with a query or a trailing slash, and Bun and Node, send none.
  Only the Rust core keeps a trailing slash in `{{path}}`, sorts the keys of objects
  (serde_json without `preserve_order`), forgets `connection` and all but the last of
  equal headers, and reads `{{}}` as a token; its `decode_segment` and URLSearchParams
  read a malformed or non-ASCII escape differently.  Bun drops a query of one
  character (app.ts:358).  On Node an answer to HEAD has no Content-Type.  Header
  values with braces keep a response from being built in advance and are rendered
  nowhere.  A token that names a member of `Object.prototype` finds it in TypeScript;
  the model has no such names.
- Async handlers.  Statements around the await other than the documented ones are
  dropped; a missing row is a 404 without a body; `queryMany` and `execute` with
  columns do not compile; a parameter that is no 32-bit integer is a 400, which the
  source would not give.
- Build.  `fearless-build` reports async routes as Rust though its features leave
  them out of the binary; a build with no compiled route keeps the old binary.
- Supervisor.  The end of the container is noticed by nobody.  Two runs at once
  share the container's name, and the stop of one removes the other's.  `shutdown`
  ignores the result of `docker rm -f` (fearless-serve.mjs:117), says "cleaned up"
  and exits 0, so a container that could not be removed is left behind, where lines
  10-11 say that SIGINT stops it: the exception `CleanStop` names (`kept`).  A signal
  before the handlers are installed (line 139) leaves the container.  In the model a
  docker command of a killed run takes effect at once or never, not later.
- Lifecycle.  `close()` during a start returns at once and the server comes up
  later; the child of a start that timed out is killed but not waited for, and may
  answer the next start's probe (`misled`); a child without a binary takes the
  process down (rust-core.ts:157, no `error` listener); a manifest that cannot be
  written leaves its directory.

## Proofs

Eight modules hold the theorems, each about one specification and for every value
of its constants.  A theorem named below is proved to the last leaf; the invariant
that carries it is proved first, as a theorem of its own.

### The worker (`UringWorkerProofs`)

For any number of clients, slots and descriptors, any scripts and any ring.

- `OperationsOwned` (`[]OwnOperation`), `SlotsPartitioned` (`[]SlotPartition`), from
  `OwnershipInvariant`.  Neither is inductive.  `Ownership` is: for each index, the
  ring holds nothing, or one operation that is the one the connection's state waits
  for; the vacant keys and the occupied ones partition `Idx`, the free slots and
  the held ones partition `Slot`, as sequences without repetition.  `ConnStep`
  reduces every handler, whatever it computes from the bytes, to one of three
  outcomes (goes on with one operation, parks, is removed), and each preserves
  `Ownership`.  The kernel changes only the stage and result of an operation, the
  tokio tasks nothing that `Ownership` mentions.
- `AcceptArmedOnce` (`[]ArmedOnce`), from `ArmedInvariant`, which says besides
  that the operations of the accept and the eventfd are sequences.
- `CompletionsOwned` (`[]CompletionOwner`), from `BridgeInvariant`: what runs on
  tokio, lies in the queue or has been drained names one parked connection each,
  and every parked connection is named exactly once.  Its three parts are the parts
  of `CompletionOwner`; what is added are the types of the queues, and
  `Ownership`, by which a completion of an operation is never handled for a parked
  connection, so that nothing but `Deliver` ends the parking.  The generation plays
  no part in the argument: a parked connection is not removed, so its index is not
  reused while a handler is away.
- `WakeupKept` (`[]NoLostWakeup`) is inductive as it stands, next to the two above:
  pushing a completion leaves a task that has still to signal, and what the signal
  becomes on its way is one of the other disjuncts until the queue is drained.
- `SubmissionsFit` (`[]SqFits`) under `SlotCount + 2 <= RingEntries`, which is 1024
  slots and 4096 entries in the code: one operation for each index, one accept, one
  eventfd Read.  This is a count, by the library's facts about cardinality.

In this half the numeric fields of a connection stay untyped (`IsConn`): no owner
depends on what they hold.  The second half is about them, and about the cells.

- `LedgerKept` (`[]Ledger`), `RegionsKept` (`[]RegionsRespected`) and
  `DescriptorsPartitioned` (`[]DescriptorPartition`), from `BalancedInvariant`;
  `ResourcesPartitioned` (`[]ResourcePartition`) puts the slots and the descriptors
  together.
  `Ledger` is far from inductive: it says nothing of a connection whose client has
  hung up, of how full a region is, of the offsets and lengths of the operation in
  the ring, of whether the connection was about to be closed.  `Balanced` does, in
  four parts: `NetOK`, each open descriptor has one owner, one client behind it, and a
  client not yet accepted has sent and got nothing; `MemoryTyped`; `FreeClean`, the
  regions of free slots are empty; and `Accounts`, one account for each connection.
- The account (`ConnOK`) is a number k with the following: the cells read from the
  client are those of its first k requests and then the read region (`Consistent`);
  in state Reading it has got the first k responses and the Recv asks for exactly the
  rest of the region (`ReadingOK`); in Writing, what it got and what is left of the write
  region are the first k responses (`WritingOK`), and `close_after_drain` is set only if
  the k-th ends the connection; parked, it has got k - 1 of them and request k is what
  every handler away for this connection answers (`ParkedOK`, `owed`).  Each clause
  about the client is under the condition that it is still there.
- The operators are first described by cells instead of by the folds and recursive
  functions that define them.  `FlattenSeq` concatenates (`JoinedStep`, from the
  existence and uniqueness of the function it is defined by); requests laid out one
  after another put cell j of request k at a computed place (`LaidAt`), and nothing else
  anywhere (`LaidFind`); `RequestEnds`, on a buffer that starts at a request's
  beginning, finds the ends of the complete requests and no others (`EndsSound`); the
  responses of a batch are the next ones (`ResponsesSound`), and only a response that does
  not fit by itself makes a batch empty (`BatchSound`).
- From these, one lemma for each branch of the handlers: `ReadMoreKeeps`,
  `TooLarge`, `ParkKeeps`, `WriteKeeps`, `DeliverKeeps`, `SentOutcome`.  `ConnResult`
  puts them together: handling a completion either keeps the account (`Keeps`) or closes
  the connection, and then its client is gone or has been given a reason (`Closes`,
  `Refused`).  `BalancedStep` is one lemma for each action.  An action changes at most
  one account; the others are `Apart` from it, as no two connections share a slot, a
  descriptor or a client (`Distinct`, from `SlotsPartitioned` and `NetOK`).
- `WorkerImplementsService` (`Spec => ImplementsService`), the refinement, with the
  service's variables the worker's own of the same names.  Connecting, hanging up and
  accepting are the service's steps.  A Recv is `SRead`, a Send `SReply`: it extends
  `got` to a longer prefix of the replies, and those cells answer requests read to
  their end, by `WritingOK` (`AnswersReply`).  A connection that `Closes` is `SClose`
  (`RefusedMayClose`: having got the first k responses, `Answered` is at least k, and
  every response has a cell, so it is k), and so is a client that
  finds no slot, from which nothing was read.  All else the worker, the tokio tasks
  and the kernel do leaves the three variables alone.

### The router (`RouteTableProofs`)

For any routes, any number of them and any targets.

- `RouterInvariant`: `exact` holds the last route without parameters of each method
  and path (`ExactOf`), and the trie of a method (`TrieOf`) has exactly the nodes
  some parameter route goes through, each with the first route that ends there and
  with the parameter name of the first route that goes through it.  Every trie is closed
  under beginnings (`Searchable`), which is why the search never asks for what is
  not there.
- `PrecedenceKept` (`[]RoutesByPrecedence`).  `MatchesExist` first shows that the
  recursive search is a function at all: it is the limit of its approximations, by
  induction on the segments that are left, and `MatchesFix` that it then equals its
  body at each node.  `SearchBest` is the induction proper: below a node the search
  finds the best (`IsBest`) of the routes that go through it and fit (`Candidates`), or none
  if there is none.  The step splits the candidates of a node into those of the
  static child and those of the parameter child (`Splits`); one of the former is
  ahead of each of the latter, by definition of `Before`, which is why the first
  answer may stand.
- `OwnParamsBound` (`[]ParamsBound`).  By the same induction: a search that finds
  nothing returns the parameters it was given (`Restores`: what was bound for the
  parameter child is taken out again), and one that finds a route has added that
  route's own parameters from this node on (`Binds`).  The condition that gives
  it is `Fresh`, that no parameter still to come is bound already, which
  `ConsistentNames` yields (`OneName`) and without which the deletion after a failed
  branch would also take an outer parameter of the same name.
- `RustInvariant`: the Rust core's table is that of the manifest it was given
  (`RustTableOf`).  `ManifestTable` gets that from `FromManifest` by induction on the
  length of the list, one route at a time (`RustEntry`): of each method and path the
  last exact route, a template for each static answer, and tries (`RustTrieOf`) like
  `TrieOf` but with the last route of a node, and with the routes that only
  `RustHasParams` takes for parameter routes.
- `TablesAgreed` (`[]TablesAgree`), one lemma for each table, under the
  conditions its conjunct names.
  `RustAgreed`: where no two routes share a path, the two searches are the same,
  node by node (`SearchSame`), because the nodes that only the core's trie has are dead
  ends for this path (`NodesAlike`), and the parameter edges are in both, under one
  name (`ParamNodesAlike`); and a static route with a colon, which the core keeps in
  its trie, is the first that its search comes to (`SearchColon`).  `DistinctShapes`
  is needed because of two alike one router keeps the first and the other the last.
  `BunAgrees`: what Bun's router finds has a pattern that nothing that fits is before,
  and of these there is only one (`NeitherBefore`), the one `findRoute` takes
  (`FindRouteFound`).  `AotAgreed`: with one route that fits, its number is the same
  by `FindRouteFound` and its parameters by `ParamsBound`.

### The sync server (`SyncServerProofs`)

For any number of clients and threads, any scripts of well-formed lines, any time:
`RequestsAnswered` (`[]OneEach`), `ConnectionAsTold` (`[]LabelTruthful`),
`DatesInOrder` (`[]DateOrder`), from `ServerInvariant`.  Its parts: a connection is
in one backlog or with one thread (`Placed`), so that no two threads write to one
client; a thread between two requests has answered all that its client has begun,
one inside a request all but that one (`Parsed`); the date a thread is about to send
is between the floor of its request and the date cache (`Dated`); what a client has
received (`Received`).  The prebaked dates come down to a parity: the first static
response of a connection is taken from one slot and all others from the other
(`FastDates`), as `flipped` remembers.

### The hook chain (`HookChainProofs`)

For any number of hooks, calls and statuses, with hooks registered at any time.

- `ShapeAppliedOnce` (`[]AppliedOnce`), from `MarksInvariant`, which adds the types of what
  a stage logs and that a mark is the number of a call that has been made
  (`FreshMarks`), without which the next call could reuse one.  Every step
  either logs nothing and leaves old or new marks in `ctx` (`Quiet`), or ends a stage
  with marks that are gone from `ctx` then (`StageEnds`).
- `HooksInOrder` (`[]InOrder`), `OutcomeDecided` (`[]Outcome`), `ParsersHonest`
  (`[]ParsersTruthful`), from `ChainInvariant`.  `OrderInv` relates the place of
  `execute` to the last entry of the log, between two stages by `Between` and
  inside one by `Follows`: what comes next is a function of the last stage and of
  the lists as they were when it ended.  `OutcomeInv` says whose the response and
  the error are that `execute` holds: of the last stage that answered, of the last
  that threw.  `BodyInv` ties the memoised text to the stream and to what has been
  told: text is read only when the body has come to its end, and a failure has
  a named excuse.

### Headers, lifecycle, build, supervisor

- `BuiltinHeadersProofs`, for any features, routes and calls of `use()`.
  `NodeHeadersExact` (`[]NodeExact`): what makes it inductive is `CacheIsBuiltin`,
  that until Bun writes into it the cached object is absent or equal to what
  `App.builtin` says.  The same formula is false once Bun listens, which is
  finding 1.  `BunHeadersComplete` (`[]BunComplete`) and `PreflightAsConfigured`
  (`[]PreflightConfigured`) are what is still true then, from `SharedInvariant`: each kept
  object (the cache, the 404, the OPTIONS response) has every builtin header, with the configured value or for
  a name that a registered route sets (`Configured`), and a response built in
  advance has its route's headers on top (`OnTop`).
- `RustCoreLifecycleProofs`, for any number of calls: `LifecycleTypes` (`[]TypeOK`),
  `NothingOrphaned` (`[]Owned`), `CloseIsFinal` (`[]Closed`), `StartIsTruthful`
  (`[]Truthful`).  `LifecycleInvariant` is their conjunction with `OneAtATime`, which
  none of them holds without: at most one start is under way, and then no server is
  held and no `close()` waits; a `close()` under way stops the server that is held,
  or one that has gone; a start has a child only from `Spawn` on.  `OneAtATime`
  rests on `Patient`.
- `BuildSessionProofs`, for any apps, any analyzer and transpiler, any cargo, and
  builds that fail or are killed at any step: `GeneratedNamesResolve`
  (`[]NamesResolve`) and `BinaryIsCurrent` (`[]BinaryCurrent`), from
  `SessionInvariant`.  A number in a name is below `IdCounter`, hence new; how far a
  build has come tells which of the three files are its own (`FilesInv`), and files
  of one build resolve each other.
- `ServeSupervisorProofs`, for any number of runs on one host: `StopsClean`
  (`[]CleanStop`), `ContainerIsOwn` (`[]OwnContainer`), from
  `SupervisorInvariant`.  `CleanStop` needs what a run has done by the time
  it stops (`Stopping`), that a run which serves has had a Bun (`Serving`), and that a
  run which ended never acts again (`Working`).  `OwnContainer` is kept because
  whoever takes the name is recorded by every run, and a run forgets only at its
  start.

### Assumptions, and what is only model-checked

The theorems rest on the named assumptions of their modules, which the runs
evaluate: `WorkerAssumption`, `PipelineAssumption`, `RouteAssumption`,
`ServerAssumption`, `HooksAssumption`, `HeadersAssumption`, `LifecycleAssumption`,
`NoneIsNoRun`; `BuildSession` has none.  `SubmissionsFit` has one of its own, stated
with it.  All are about shapes (a route's segments, a client's lines) or keep
reserved values apart.  `CONSTANTS` that bound the instances (`MaxRoutes`,
`MaxHooks`, `MaxCalls`, `MaxUses`, `MaxTime`, `MaxStarts`, `MaxCloses`) may have
any value.

Model-checked only:

- all liveness (`Served`, `Accepted`, `Reclaimed`, `Answered`, `CloseEnds`,
  `Settles`, `StopEnds`): fairness and ENABLED are out of the prover's reach;
- `CompiledAnswers`, `AsyncAnswers`, `TemplatesAgree`: they compare recursive
  evaluators of syntax trees (RECURSIVE operators, which TLC alone evaluates);
- the two violations, which are refutations.

Induction itself is not out of reach where it is over numbers: `Induct`
(`RouteTableProofs`, `UringWorkerProofs`) takes the set of the numbers that have the property and is proved
from the library's `WFMin`; the library's own induction theorems take an operator as
parameter and cannot be used.

## Not modelled

Text and bytes: parsing of a request line, strings of a template that mix tokens and
text, how numbers are written, TypeScript's own parser, and generated text beyond what decides an
answer.  HTTP/2 and TLS.  Thread placement, socket options and the set-up of
listeners.  The Node and Bun servers themselves; of the wrappers of
their requests and responses (`request.ts`, `response.ts`) what no code under `src/`
calls: `Request.parseBody`, `Response.send`.  The launchers (`techempower-spawn.ts`, `packages/bun-runtime`),
the benchmark harness, the deployment scripts and the examples.

The Postgres pool: its queue and limit are deadpool's; of `pg_pool.rs` remains that a
handler's answer may be late and may be an error, which the worker's tasks and
`RunAsync` have.  The refresher of prebaked responses: one `ArcSwap` store, which a
reader sees whole.

## Plan

Done: `HttpPipeline`, `PipelinedService`, `UringWorker`, `RouteTable`,
`BuiltinHeaders`, `RustCoreLifecycle`, `HookChain`, `SyncServer`, `BuildSession` and the `Aot` modules,
`ServeSupervisor`, in this order: the worker carries the program's concurrency, the
routers and the headers decide what it answers, the lifecycle is its other
process, the hook chain and the blocking server are the other two ways to an
answer; then the compiler whose output the worker runs, and the process that runs
both sides.

Done, theorems: every safety property the runs check of the worker, with the
refinement; of the routers, precedence, parameters and the agreement of their four
tables; of the sync server, the hook chain, the headers, the lifecycle, the session of
builds and the supervisor.
