-------------------------- MODULE BuildSessionProofs --------------------------
(***************************************************************************)
(* For any apps, analyzer and transpiler, and builds that fail or are      *)
(* killed anywhere: generated names resolve, and the binary of a build     *)
(* that ended well is that build's.                                        *)
(***************************************************************************)
EXTENDS BuildSession, FiniteSetTheorems, SequenceTheorems, TLAPS

\* The routes that have a number, by their places.
Numbered == {i \in DOMAIN routes : routes[i].kind = "aot"}

RoutesInv ==
  /\ routes \in Seq(Range(routes))
  /\ IdCounter \in Nat
  /\ \A i \in Numbered : routes[i].name[1] \in Nat /\ routes[i].name[1] < IdCounter
  /\ \A i, j \in Numbered : routes[i].name = routes[j].name => i = j

Resolves(compiled, reg) ==
  \A r \in Async(compiled) :
    /\ r.program.handle \in reg.names
    /\ r.program.key \in DOMAIN reg.statements
    /\ reg.statements[r.program.key] = r.program.statement

\* How far a build has come tells which files are its own.
FilesInv ==
  /\ phase \in {"handlers", "manifest", "registry", "cargo"} => ~Collides(routes)
  /\ phase \in {"manifest", "registry", "cargo"} => handlers = Compiled(routes)
  /\ phase = "cargo" => agree
  /\ agree => Resolves(handlers, registry)
  /\ binary.pg /\ binary.agree => Resolves(binary.routes, binary.registry)

SessionInv == RoutesInv /\ FilesInv /\ BinaryCurrent

-----------------------------------------------------------------------------
LEMMA NoRoutes ==
  ASSUME routes = <<>>
  PROVE  RoutesInv
  <1>1. Numbered = {} /\ IdCounter = Cardinality(Numbered)
    BY DEF Numbered, IdCounter
  <1>2. IdCounter = 0
    BY <1>1, FS_EmptySet
  <1> QED BY <1>1, <1>2 DEF RoutesInv

\* A name carries a number no name has yet.
LEMMA VisitRoutes ==
  ASSUME RoutesInv, Visit
  PROVE  RoutesInv'
  <1>1. PICK r : r = Compile(app.calls[Len(routes) + 1], app.decls)
    OBVIOUS
  <1>2. PICK e, c : e = Identified(r) /\ c = IdCounter
    OBVIOUS
  <1>3. routes' = Append(routes, e) /\ e.kind = r.kind /\ e.name[1] = c /\ c \in Nat
    BY <1>1, <1>2 DEF Visit, Identified, RoutesInv
  <1>4. PICK n \in Nat : n = Len(routes)
    BY DEF RoutesInv
  <1>5. /\ DOMAIN routes = 1 .. n /\ DOMAIN routes' = 1 .. n + 1
        /\ routes'[n + 1] = e /\ \A i \in 1 .. n : routes'[i] = routes[i]
    BY <1>3, <1>4 DEF RoutesInv
  <1>6. routes' \in Seq(Range(routes'))
    <2>1. Range(routes) \subseteq Range(routes') /\ e \in Range(routes')
      BY <1>5 DEF Range
    <2> QED BY <1>3, <2>1 DEF RoutesInv
  <1>7. Numbered' = IF e.kind = "aot" THEN Numbered \cup {n + 1} ELSE Numbered
    BY <1>5 DEF Numbered
  <1>8. IsFiniteSet(Numbered) /\ n + 1 \notin Numbered /\ c = Cardinality(Numbered)
    <2>1. IsFiniteSet(1 .. n) /\ Numbered \subseteq 1 .. n
      BY <1>5, FS_Interval DEF Numbered
    <2> QED BY <1>2, <2>1, FS_Subset DEF IdCounter, Numbered
  <1>9. IdCounter' = IF e.kind = "aot" THEN c + 1 ELSE c
    <2>1. IdCounter' = Cardinality(Numbered')
      BY DEF IdCounter, Numbered
    <2> QED BY <1>7, <1>8, <2>1, FS_AddElement
  <1>10. \A i \in Numbered : i \in 1 .. n /\ routes[i].name[1] \in Nat /\ routes[i].name[1] < c
    BY <1>2, <1>5 DEF RoutesInv, Numbered
  <1>11. \A i \in Numbered' : routes'[i].name[1] \in Nat /\ routes'[i].name[1] < IdCounter'
    BY <1>3, <1>5, <1>7, <1>9, <1>10
  <1>12. \A i, j \in Numbered' : routes'[i].name = routes'[j].name => i = j
    <2>1. \A i \in Numbered : routes'[i] = routes[i] /\ routes[i].name[1] # c
      BY <1>3, <1>5, <1>10
    <2>2. \A i, j \in Numbered : routes[i].name = routes[j].name => i = j
      BY DEF RoutesInv
    <2>3. CASE e.kind # "aot"
      BY <1>7, <2>1, <2>2, <2>3
    <2>4. CASE e.kind = "aot"
      <3>1. routes'[n + 1].name[1] = c
        BY <1>3, <1>5
      <3>2. \A i \in Numbered : routes'[i].name # routes'[n + 1].name
        BY <2>1, <3>1
      <3>3. \A i, j \in Numbered : routes'[i].name = routes'[j].name => i = j
        BY <2>1, <2>2
      <3> QED BY <1>7, <2>4, <3>2, <3>3
    <2> QED BY <2>3, <2>4
  <1>13. IdCounter' \in Nat
    BY <1>3, <1>9
  <1> QED BY <1>6, <1>11, <1>12, <1>13 DEF RoutesInv

\* What collectSql collects has each async route's own text under its key.
LEMMA Collected ==
  ASSUME NEW rs, ~Collides(rs)
  PROVE  Resolves(Compiled(rs), CollectSql(rs))
  <1> SUFFICES ASSUME NEW r \in Async(Compiled(rs))
               PROVE  /\ r.program.handle \in CollectSql(rs).names
                      /\ r.program.key \in DOMAIN CollectSql(rs).statements
                      /\ CollectSql(rs).statements[r.program.key] = r.program.statement
    BY DEF Resolves
  <1>1. PICK k : k = r.program.key
    OBVIOUS
  <1>2. k \in Keys(rs) /\ r.program.statement \in Texts(rs, k)
    BY <1>1 DEF Keys, Texts
  <1>3. \A t, u \in Texts(rs, k) : t = u
    BY <1>2 DEF Collides
  <1>4. CollectSql(rs).statements[k] = CHOOSE t \in Texts(rs, k) : TRUE
    BY <1>2 DEF CollectSql
  <1> QED BY <1>1, <1>2, <1>3, <1>4 DEF CollectSql

LEMMA BuildStep ==
  ASSUME SessionInv, [Next]_vars
  PROVE  SessionInv'
  <1> USE DEF SessionInv
  <1>1. ASSUME NEW cargo \in BOOLEAN, Start(cargo) PROVE SessionInv'
    <2>1. routes' = <<>> /\ phase' = "visit" /\ UNCHANGED <<handlers, registry, agree, binary>>
      BY <1>1 DEF Start, files
    <2>2. RoutesInv'
      <3>1. (routes = <<>> => RoutesInv)'
        BY NoRoutes, PTL
      <3> QED BY <2>1, <3>1
    <2>3. FilesInv'
      BY <2>1 DEF FilesInv, Resolves
    <2> QED BY <2>1, <2>2, <2>3 DEF BinaryCurrent
  <1>2. CASE Visit
    <2>1. phase = "visit" /\ UNCHANGED <<phase, handlers, registry, agree, binary>>
      BY <1>2 DEF Visit, files
    <2>2. FilesInv'
      BY <2>1 DEF FilesInv, Resolves
    <2> QED BY <1>2, <2>1, <2>2, VisitRoutes DEF BinaryCurrent
  <1>3. CASE CompileApp
    <2>1. /\ UNCHANGED <<routes, handlers, registry, agree, binary>>
          /\ \/ phase' = "idle" /\ exit' = "failed"
             \/ phase' = "handlers" /\ ~Collides(routes)
      BY <1>3 DEF CompileApp, files
    <2>2. RoutesInv'
      BY <2>1 DEF RoutesInv, Numbered, IdCounter
    <2>3. FilesInv'
      BY ZenonT(60), <2>1 DEF FilesInv, Resolves, Collides, Keys, Texts
    <2> QED BY <2>1, <2>2, <2>3 DEF BinaryCurrent
  <1>4. CASE WriteHandlers
    <2>1. /\ phase = "handlers" /\ phase' = "manifest" /\ handlers' = Compiled(routes) /\ agree' = FALSE
          /\ UNCHANGED <<routes, registry, binary>>
      BY <1>4 DEF WriteHandlers
    <2>2. RoutesInv'
      BY <2>1 DEF RoutesInv, Numbered, IdCounter
    <2>3. FilesInv'
      BY ZenonT(60), <2>1 DEF FilesInv, Resolves, Collides, Keys, Texts, Compiled
    <2> QED BY <2>1, <2>2, <2>3 DEF BinaryCurrent
  <1>5. CASE WriteManifest
    <2>1. /\ phase = "manifest" /\ phase' = "registry"
          /\ UNCHANGED <<routes, handlers, registry, agree, binary>>
      BY <1>5 DEF WriteManifest
    <2>2. RoutesInv'
      BY <2>1 DEF RoutesInv, Numbered, IdCounter
    <2>3. FilesInv'
      BY ZenonT(60), <2>1 DEF FilesInv, Resolves, Collides, Keys, Texts, Compiled
    <2> QED BY <2>1, <2>2, <2>3 DEF BinaryCurrent
  <1>6. CASE WriteRegistry
    <2>1. /\ phase = "registry" /\ phase' = "cargo" /\ registry' = CollectSql(routes) /\ agree' = TRUE
          /\ UNCHANGED <<routes, handlers, binary>>
      BY <1>6 DEF WriteRegistry
    <2>2. RoutesInv'
      BY <2>1 DEF RoutesInv, Numbered, IdCounter
    <2>3. Resolves(handlers, CollectSql(routes)) /\ ~Collides(routes) /\ handlers = Compiled(routes)
      BY <2>1, Collected DEF FilesInv
    <2>4. FilesInv'
      BY <2>1, <2>3 DEF FilesInv, Resolves, Collides, Keys, Texts, Compiled
    <2> QED BY <2>1, <2>2, <2>4 DEF BinaryCurrent
  <1>7. CASE CargoBuild
    <2>1. /\ phase = "cargo" /\ phase' = "idle"
          /\ binary'.routes = Sync(handlers) /\ binary'.pg = FALSE /\ binary'.agree = agree
          /\ UNCHANGED <<routes, handlers, registry, agree>>
      BY <1>7 DEF CargoBuild, Runs, Ends, files
    <2>2. RoutesInv'
      BY <2>1 DEF RoutesInv, Numbered, IdCounter
    <2>3. FilesInv'
      BY <2>1 DEF FilesInv, Resolves
    <2>4. handlers = Compiled(routes) /\ agree
      BY <2>1 DEF FilesInv
    <2>5. BinaryCurrent'
      BY <2>1, <2>4 DEF BinaryCurrent, Compiled, Sync
    <2> QED BY <2>2, <2>3, <2>5
  <1>8. CASE Skip
    <2>1. /\ phase' = "idle" /\ (~runCargo \/ Compiled(routes) = {})
          /\ UNCHANGED <<routes, runCargo, handlers, registry, agree, binary>>
      BY <1>8 DEF Skip, Ends, files
    <2>2. RoutesInv'
      BY <2>1 DEF RoutesInv, Numbered, IdCounter
    <2>3. FilesInv'
      BY <2>1 DEF FilesInv, Resolves
    <2>4. BinaryCurrent'
      BY <2>1 DEF BinaryCurrent, Compiled
    <2> QED BY <2>2, <2>3, <2>4
  <1>9. CASE CargoFails \/ Killed
    <2>1. /\ phase' = "idle" /\ exit' \in {"failed", "killed"}
          /\ UNCHANGED <<routes, handlers, registry, agree, binary>>
      BY <1>9 DEF CargoFails, Killed, Ends, files
    <2>2. RoutesInv'
      BY <2>1 DEF RoutesInv, Numbered, IdCounter
    <2>3. FilesInv'
      BY <2>1 DEF FilesInv, Resolves
    <2> QED BY <2>1, <2>2, <2>3 DEF BinaryCurrent
  <1>10. CASE HandBuild
    <2>1. /\ phase = "idle" /\ phase' = "idle"
          /\ binary'.routes = handlers /\ binary'.registry = registry
          /\ binary'.pg = TRUE /\ binary'.agree = agree
          /\ UNCHANGED <<routes, handlers, registry, agree>>
      BY <1>10 DEF HandBuild, files
    <2>2. RoutesInv'
      BY <2>1 DEF RoutesInv, Numbered, IdCounter
    <2>3. FilesInv'
      BY <2>1 DEF FilesInv, Resolves
    <2> QED BY <2>1, <2>2, <2>3 DEF BinaryCurrent
  <1>11. CASE UNCHANGED vars
    <2>1. UNCHANGED <<routes, phase, runCargo, handlers, registry, agree, binary, exit>>
      BY <1>11 DEF vars
    <2>2. RoutesInv'
      BY <2>1 DEF RoutesInv, Numbered, IdCounter
    <2>3. FilesInv'
      BY ZenonT(60), <2>1 DEF FilesInv, Resolves, Collides, Keys, Texts, Compiled
    <2>4. BinaryCurrent'
      BY <2>1 DEF BinaryCurrent, Compiled, Sync
    <2> QED BY <2>2, <2>3, <2>4
  <1> QED BY <1>1, <1>2, <1>3, <1>4, <1>5, <1>6, <1>7, <1>8, <1>9, <1>10, <1>11 DEF Next

\* The inductive invariant of a session of builds: the numbers in names, which of
\* the three files a build has written at each point of it, and what follows for
\* the binary (index.ts:93-165, fearless-build.mjs:64-143).
THEOREM SessionInvariant == Spec => []SessionInv
<1>1. Init => SessionInv
  <2> SUFFICES ASSUME Init PROVE SessionInv
    OBVIOUS
  <2>1. FilesInv
    BY DEF Init, FilesInv, Resolves, Async, NoBinary
  <2> QED BY <2>1, NoRoutes DEF Init, SessionInv, BinaryCurrent
<1>2. SessionInv /\ [Next]_vars => SessionInv'
  BY BuildStep
<1> QED
  BY <1>1, <1>2, PTL DEF Spec

\* What generated code refers to by a name is what the build meant, for any app
\* and any sequence of builds, however they end (index.ts:93-165,
\* sql-collection.ts:33-45).
THEOREM GeneratedNamesResolve == Spec => []NamesResolve
<1>1. SessionInv => NamesResolve
  BY DEF SessionInv, RoutesInv, Numbered, FilesInv, Resolves, NamesResolve
<1> QED
  BY <1>1, SessionInvariant, PTL

\* The binary a build leaves is that build's, whatever earlier builds wrote,
\* failed or were killed at (fearless-build.mjs:64-143).
THEOREM BinaryIsCurrent == Spec => []BinaryCurrent
<1>1. SessionInv => BinaryCurrent
  BY DEF SessionInv
<1> QED
  BY <1>1, SessionInvariant, PTL
===============================================================================
