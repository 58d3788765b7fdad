--------------------------- MODULE HookChainProofs ---------------------------
(***************************************************************************)
(* Theorems about HookChain, for any number of hooks, calls and statuses:  *)
(* what a stage sets on ctx reaches one response at most (Marks); the      *)
(* history of stages runs in order and decides the outcome (Chain); and    *)
(* what the parsers of the body have said (Parsers).                       *)
(***************************************************************************)
EXTENDS HookChain, SequenceTheorems, TLAPS

Stages == {"request", "handler", "response", "error"}
Outcomes == {"response", "error", "void"}
Entry == [phase : Stages, at : Nat, of : Lists, end : Outcomes, marks : SUBSET Nat]

\* Where execute is; only a stage runs, and only a stage that runs awaits parsers.
Placed ==
  /\ phase \in Stages \union Fates
  /\ running \in BOOLEAN /\ (running => phase \in Stages)
  /\ waiting # {} => running
  /\ at \in Nat /\ hooks \in Lists

Shaped ==
  /\ calls \in Nat
  /\ pending \in [status : Nat \union {Null}, marks : SUBSET Nat]

\* A call to come has left no mark yet.
FreshMarks ==
  /\ \A m \in pending.marks : m <= calls
  /\ \A i \in DOMAIN log : \A m \in log[i].marks : m <= calls

Logs == log \in Seq(Entry)

MarksInv == Placed /\ Shaped /\ Logs /\ FreshMarks /\ AppliedOnce

-----------------------------------------------------------------------------
(***************************************************************************)
(* A step does one of two things: it logs nothing and leaves in ctx marks  *)
(* that were there or are new, or it ends a stage, with marks that are     *)
(* gone from ctx then.                                                     *)
(***************************************************************************)
Quiet ==
  /\ log' = log
  /\ calls' \in Nat /\ calls' >= calls
  /\ \A m \in pending'.marks : m \in pending.marks \/ (m > calls /\ m <= calls')

EndsWith(how, marks) ==
  /\ running
  /\ log' = Append(log, [phase |-> phase, at |-> at, of |-> hooks, end |-> how, marks |-> marks])
  /\ calls' = calls
  /\ marks \in SUBSET pending.marks
  /\ pending'.marks \in SUBSET (pending.marks \ marks)

StageEnds == \E how \in Outcomes : \E marks \in SUBSET pending.marks : EndsWith(how, marks)

LEMMA ThrowEnds ==
  ASSUME Shaped, running, NEW e, Throws(e), calls' = calls,
         pending' = pending \/ pending' = EmptyShape
  PROVE  StageEnds
<1>1. EndsWith("error", {})
  BY DEF Throws, Ends, EndsWith, EmptyShape, Shaped
<1> QED
  BY <1>1 DEF StageEnds, Outcomes

LEMMA ReturnEnds ==
  ASSUME Shaped, running, NEW r, Returns(r), calls' = calls,
         \/ r.marks = pending.marks /\ pending' = EmptyShape
         \/ r.marks = {} /\ pending' = pending
  PROVE  StageEnds
<1>1. EndsWith("response", r.marks)
  BY DEF Returns, Ends, EndsWith, EmptyShape, Shaped
<1>2. r.marks \in SUBSET pending.marks
  OBVIOUS
<1> QED
  BY <1>1, <1>2 DEF StageEnds, Outcomes

\* The stages' own steps.
LEMMA StageShape ==
  ASSUME Shaped, Stage
  PROVE  StageEnds
<1>1. CASE ReturnBuilt
  <2>1. running /\ calls' = calls /\ pending' = EmptyShape
    BY <1>1 DEF ReturnBuilt, Finalized
  <2>2. PICK b \in Builders :
          IF Constructible(StatusOf(b), BodyOf(b)) THEN Returns(Built(b)) ELSE Throws(PlainError)
    BY <1>1 DEF ReturnBuilt
  <2>3. Built(b).marks = pending.marks
    BY DEF Built, Response
  <2> QED
    BY <2>1, <2>2, <2>3, ThrowEnds, ReturnEnds
<1>2. CASE ReturnOwn
  <2>1. running /\ calls' = calls /\ pending' = pending /\ Returns(Response(TRUE, {}))
    BY <1>2 DEF ReturnOwn
  <2>2. Response(TRUE, {}).marks = {}
    BY DEF Response
  <2> QED
    BY <2>1, <2>2, ReturnEnds
<1>3. CASE ReturnErrorResponse
  <2>1. running /\ calls' = calls /\ pending' = pending
    BY <1>3 DEF ReturnErrorResponse
  <2>2. Returns(Response(TRUE, {})) \/ Throws(PlainError)
    BY <1>3 DEF ReturnErrorResponse
  <2>3. Response(TRUE, {}).marks = {}
    BY DEF Response
  <2> QED
    BY <2>1, <2>2, <2>3, ReturnEnds, ThrowEnds
<1>4. CASE ReturnVoid
  <2>1. EndsWith("void", {})
    BY <1>4 DEF ReturnVoid, Ends, EndsWith, Shaped
  <2> QED
    BY <2>1 DEF StageEnds, Outcomes
<1>5. CASE Throw
  <2>1. running /\ calls' = calls /\ pending' = pending
    BY <1>5 DEF Throw
  <2>2. PICK e \in {PlainError} \union {HttpErrorOf(s) : s \in ErrorStatuses} : Throws(e)
    BY <1>5 DEF Throw
  <2> QED
    BY <2>1, <2>2, ThrowEnds
<1> QED
  BY <1>1, <1>2, <1>3, <1>4, <1>5 DEF Stage

LEMMA ChainShape ==
  ASSUME Shaped, Chain
  PROVE  Quiet
<1>1. log' = log /\ pending' = pending /\ calls' = calls
  BY Zenon DEF Chain, NextHook, CallHandler, ResponseHooksEnd, DefaultErrorResponse,
               WriteToNode, ReturnToBun, Rejected
<1> QED
  BY <1>1 DEF Quiet, Shaped

\* Calls of the shapers and of the rest of ctx.
LEMMA CallShape ==
  ASSUME Shaped, SetStatus \/ SetHeader \/ Discard \/ Inspect \/ AnswerDirectly \/ Parse
  PROVE  Quiet
<1> USE DEF Shaped, Quiet, Calls
<1>1. CASE SetStatus
  BY <1>1 DEF SetStatus, chainVars
<1>2. CASE SetHeader
  BY <1>2 DEF SetHeader, chainVars
<1>3. CASE Discard
  BY <1>3 DEF Discard, Finalized, EmptyShape, chainVars
<1>4. CASE Inspect
  BY <1>4 DEF Inspect
<1>5. CASE AnswerDirectly
  BY <1>5 DEF AnswerDirectly, chainVars
<1>6. CASE Parse
  BY <1>6 DEF Parse, chainVars
<1> QED
  BY <1>1, <1>2, <1>3, <1>4, <1>5, <1>6

\* A parser that is awaited may end its stage.
LEMMA AwaitShape ==
  ASSUME Shaped, Await, waiting # {} => running
  PROVE  Quiet \/ StageEnds
<1>1. calls' = calls /\ pending' = pending /\ running
  BY DEF Await
<1>2. UNCHANGED chainVars \/ Throws(HttpErrorOf(400))
  BY DEF Await, Catches
<1>3. CASE UNCHANGED chainVars
  BY <1>1, <1>3 DEF Quiet, chainVars, Shaped
<1>4. CASE Throws(HttpErrorOf(400))
  BY <1>1, <1>4, ThrowEnds
<1> QED
  BY <1>2, <1>3, <1>4

LEMMA Shape ==
  ASSUME Shaped, waiting # {} => running, [Next]_vars
  PROVE  Quiet \/ StageEnds
<1>1. CASE Stage
  BY <1>1, StageShape
<1>2. CASE Chain
  BY <1>2, ChainShape
<1>3. CASE SetStatus \/ SetHeader \/ Discard \/ Inspect \/ AnswerDirectly \/ Parse
  BY <1>3, CallShape
<1>4. CASE Await
  BY <1>4, AwaitShape
<1>5. CASE TextSettles \/ Register \/ ClientEnds \/ ClientAborts \/ UNCHANGED vars
  BY <1>5 DEF Shaped, Quiet, chainVars, vars, TextSettles, Register, ClientEnds, ClientAborts
<1> QED
  BY <1>1, <1>2, <1>3, <1>4, <1>5 DEF Next
-----------------------------------------------------------------------------
LEMMA LoggedMarks ==
  ASSUME Logs, NEW i \in DOMAIN log
  PROVE  log[i].marks \in SUBSET Nat
<1>1. log[i] \in Entry
  BY DEF Logs
<1> QED
  BY <1>1 DEF Entry

\* Neither of the two brings a mark into a second response.
LEMMA QuietKeeps ==
  ASSUME Logs, Shaped, FreshMarks, AppliedOnce, Quiet
  PROVE  FreshMarks' /\ AppliedOnce' /\ Logs'
<1>1. FreshMarks'
  <2>1. log' = log /\ calls \in Nat /\ calls' \in Nat /\ calls' >= calls
    BY DEF Quiet, Shaped
  <2>2. ASSUME NEW m \in pending'.marks PROVE m <= calls'
    <3>1. CASE m \in pending.marks
      BY <2>1, <3>1 DEF FreshMarks, Shaped
    <3> QED
      BY <2>2, <3>1 DEF Quiet
  <2>3. ASSUME NEW i \in DOMAIN log, NEW m \in log[i].marks PROVE m <= calls'
    BY <2>1, LoggedMarks DEF FreshMarks
  <2> QED
    BY <2>1, <2>2, <2>3 DEF FreshMarks
<1>2. AppliedOnce'
  <2>1. ASSUME NEW i \in DOMAIN log, NEW m \in log[i].marks, m \in pending'.marks
        PROVE  FALSE
    <3>1. m <= calls /\ m \notin pending.marks
      BY <2>1 DEF AppliedOnce, FreshMarks
    <3>2. m > calls
      BY <2>1, <3>1 DEF Quiet
    <3>3. m \in Nat /\ calls \in Nat
      BY LoggedMarks DEF Shaped
    <3> QED
      BY <3>1, <3>2, <3>3
  <2> QED
    BY <2>1 DEF AppliedOnce, Quiet
<1> QED
  BY <1>1, <1>2 DEF Logs, Quiet

LEMMA StageEndKeeps ==
  ASSUME Placed, Logs, Shaped, FreshMarks, AppliedOnce, StageEnds
  PROVE  FreshMarks' /\ AppliedOnce' /\ Logs'
<1>1. PICK how \in Outcomes, marks \in SUBSET pending.marks : EndsWith(how, marks)
  BY DEF StageEnds
<1>2. PICK e : e = [phase |-> phase, at |-> at, of |-> hooks, end |-> how, marks |-> marks]
  OBVIOUS
<1>3. e \in Entry /\ e.marks = marks
  BY <1>1, <1>2 DEF EndsWith, Entry, Placed, Shaped
<1>4. log' = Append(log, e) /\ calls' = calls /\ pending'.marks \in SUBSET (pending.marks \ marks)
  BY <1>1, <1>2 DEF EndsWith
<1>5. Logs'
  BY <1>3, <1>4 DEF Logs
<1>6. /\ DOMAIN log' = DOMAIN log \union {Len(log) + 1}
      /\ \A i \in DOMAIN log : log'[i] = log[i]
      /\ log'[Len(log) + 1] = e
      /\ Len(log) + 1 \notin DOMAIN log
  BY <1>4 DEF Logs
<1>7. FreshMarks'
  BY <1>3, <1>4, <1>6 DEF FreshMarks
<1>8. AppliedOnce'
  <2>1. \A i \in DOMAIN log : log[i].marks \intersect e.marks = {}
    BY <1>3 DEF AppliedOnce
  <2> QED
    BY <1>3, <1>4, <1>6, <2>1 DEF AppliedOnce
<1> QED
  BY <1>5, <1>7, <1>8

LEMMA MarksStep ==
  ASSUME MarksInv, [Next]_vars
  PROVE  FreshMarks' /\ AppliedOnce' /\ Logs'
BY Shape, QuietKeeps, StageEndKeeps DEF MarksInv, Placed

\* Where execute is after a stage.
LEMMA ThrowPlaced ==
  ASSUME Placed, NEW e, Throws(e), hooks' = hooks
  PROVE  Placed'
<1>1. running' = FALSE /\ waiting' = {}
  BY DEF Throws, Ends
<1>2. phase' \in {phase, "error"} /\ at' \in {at, 0}
  BY DEF Throws, InErrorHook, GoTo
<1>3. phase' \in Stages \union Fates /\ at' \in Nat
  BY <1>2 DEF Placed, Stages
<1> QED
  BY Zenon, <1>1, <1>3 DEF Placed

LEMMA ReturnPlaced ==
  ASSUME Placed, running, NEW r, Returns(r), hooks' = hooks
  PROVE  Placed'
<1>1. running' = FALSE /\ waiting' = {}
  BY DEF Returns, Ends
<1>2. phase' \in {phase, "response", "done"} /\ at' \in {at, 0}
  BY DEF Placed, Stages, Returns, AfterRequestHook, GoTo
<1>3. phase' \in Stages \union Fates /\ at' \in Nat
  BY <1>2 DEF Placed, Stages, Fates
<1> QED
  BY Zenon, <1>1, <1>3 DEF Placed

LEMMA StagePlaced ==
  ASSUME Placed, Stage
  PROVE  Placed'
<1>1. CASE ReturnBuilt
  BY <1>1, ThrowPlaced, ReturnPlaced DEF ReturnBuilt
<1>2. CASE ReturnOwn
  BY <1>2, ReturnPlaced DEF ReturnOwn
<1>3. CASE ReturnErrorResponse
  BY <1>3, ThrowPlaced, ReturnPlaced DEF ReturnErrorResponse
<1>4. CASE ReturnVoid
  BY <1>4 DEF ReturnVoid, Placed, Ends
<1>5. CASE Throw
  BY <1>5, ThrowPlaced DEF Throw
<1> QED
  BY <1>1, <1>2, <1>3, <1>4, <1>5 DEF Stage

LEMMA ChainPlaced ==
  ASSUME Placed, Chain
  PROVE  Placed'
<1> USE DEF Placed, Stages, Fates, GoTo
<1>1. CASE NextHook
  BY <1>1 DEF NextHook, Called, Kinds
<1>2. CASE CallHandler
  BY <1>2 DEF CallHandler
<1>3. CASE ResponseHooksEnd
  BY <1>3 DEF ResponseHooksEnd
<1>4. CASE DefaultErrorResponse
  <2>1. phase' \in {"done", "rejected"} /\ at' = 0
    BY <1>4 DEF DefaultErrorResponse
  <2>2. UNCHANGED <<hooks, running, waiting>> /\ ~running
    BY Zenon, <1>4 DEF DefaultErrorResponse
  <2> QED
    BY <2>1, <2>2
<1>5. CASE WriteToNode
  BY <1>5 DEF WriteToNode
<1>6. CASE ReturnToBun
  BY <1>6 DEF ReturnToBun
<1>7. CASE Rejected
  BY <1>7 DEF Rejected
<1> QED
  BY <1>1, <1>2, <1>3, <1>4, <1>5, <1>6, <1>7 DEF Chain

LEMMA PlacedStep ==
  ASSUME Placed, [Next]_vars
  PROVE  Placed'
<1>1. CASE Stage
  BY <1>1, StagePlaced
<1>2. CASE Chain
  BY <1>2, ChainPlaced
<1>3. CASE Await
  <2>1. hooks' = hooks /\ (Throws(HttpErrorOf(400)) \/ (UNCHANGED chainVars /\ waiting' \in SUBSET waiting))
    BY <1>3 DEF Await, Catches
  <2> QED
    BY <2>1, ThrowPlaced DEF Placed, chainVars
<1>4. CASE SetStatus \/ SetHeader \/ Discard \/ Inspect \/ AnswerDirectly \/ Parse
  BY <1>4 DEF Placed, Calls, chainVars, SetStatus, SetHeader, Discard, Inspect, AnswerDirectly, Parse
<1>5. CASE TextSettles \/ Register \/ ClientEnds \/ ClientAborts \/ UNCHANGED vars
  BY <1>5 DEF Placed, vars, chainVars, TextSettles, Register, ClientEnds, ClientAborts
<1> QED
  BY <1>1, <1>2, <1>3, <1>4, <1>5 DEF Next

LEMMA ShapedStep ==
  ASSUME Shaped, Placed, [Next]_vars
  PROVE  Shaped'
<1> USE HooksAssumption DEF Shaped, EmptyShape, Finalized
<1>1. CASE Stage
  <2>1. calls' = calls /\ pending' \in {pending, [status |-> Null, marks |-> {}]}
    BY Zenon, <1>1 DEF Stage, ReturnBuilt, ReturnOwn, ReturnErrorResponse, ReturnVoid, Throw
  <2> QED
    BY <2>1
<1>2. CASE Chain
  BY <1>2 DEF Chain, NextHook, CallHandler, ResponseHooksEnd, DefaultErrorResponse,
              WriteToNode, ReturnToBun, Rejected
<1>3. CASE SetStatus
  BY <1>3 DEF SetStatus, Calls
<1>4. CASE SetHeader
  BY <1>4 DEF SetHeader, Calls
<1>5. CASE Discard \/ Inspect \/ AnswerDirectly \/ Parse
  BY <1>5 DEF Discard, Inspect, AnswerDirectly, Parse, Calls
<1>6. CASE Await \/ TextSettles \/ Register \/ ClientEnds \/ ClientAborts \/ UNCHANGED vars
  BY <1>6 DEF vars, Await, TextSettles, Register, ClientEnds, ClientAborts
<1> QED
  BY <1>1, <1>2, <1>3, <1>4, <1>5, <1>6 DEF Next

-----------------------------------------------------------------------------
\* The inductive invariant: types, marks that are numbers of calls made, and the
\* marks of ctx and of each response disjoint.
THEOREM MarksInvariant == Spec => []MarksInv
<1>1. Init => MarksInv
  <2> SUFFICES ASSUME Init PROVE MarksInv
    OBVIOUS
  <2>1. Placed
    BY DEF Init, Placed, Stages
  <2>2. Shaped
    BY DEF Init, Shaped, EmptyShape
  <2>3. log = <<>> /\ pending.marks = {}
    BY DEF Init, EmptyShape
  <2>4. Logs /\ DOMAIN log = {}
    BY <2>3 DEF Logs
  <2> QED
    BY <2>1, <2>2, <2>3, <2>4 DEF MarksInv, FreshMarks, AppliedOnce
<1>2. MarksInv /\ [Next]_vars => MarksInv'
  BY MarksStep, PlacedStep, ShapedStep DEF MarksInv
<1> QED
  BY <1>1, <1>2, PTL DEF Spec

\* A status or header set on ctx goes into one response at most, for any number
\* of hooks and calls (ctx.ts:208-286).
THEOREM ShapeAppliedOnce == Spec => []AppliedOnce
<1>1. MarksInv => AppliedOnce
  BY DEF MarksInv
<1> QED
  BY <1>1, MarksInvariant, PTL
-----------------------------------------------------------------------------
(***************************************************************************)
(* The order of the stages.  What execute does next is a function of the   *)
(* last stage that ended and of the lists as they are then: between two    *)
(* stages nothing is registered.                                           *)
(***************************************************************************)
Last == log[Len(log)]

\* Where execute is between the stage e and the next one.
Between(e) ==
  /\ hooks = e.of
  /\ Threw(e) => phase = "error" /\ at = IF e.phase = "error" THEN e.at ELSE 0
  /\ ~Threw(e) /\ e.phase = "response" => phase = "response" /\ at = e.at
  /\ ~Threw(e) /\ ~Answered(e) => phase = e.phase /\ at = e.at
  /\ Answered(e) =>
       \/ e.phase \in {"request", "handler"} /\ phase = "response" /\ at = 0
       \/ e.phase = "response"

Started ==
  IF running THEN phase \in {"request", "handler"} /\ at = 1 ELSE phase = "request" /\ at = 0

Here == [phase |-> phase, at |-> at]

OrderInv ==
  /\ log = <<>> => Started
  /\ log # <<>> =>
       /\ running => Follows(Last, Here)
       /\ ~running /\ phase \in Stages => Between(Last)
       /\ phase \in Fates => Completes(Last)
       /\ log[1].at = 1 /\ log[1].phase \in {"request", "handler"}
  /\ \A i \in 1 .. Len(log) - 1 : Follows(log[i], log[i + 1])

-----------------------------------------------------------------------------
(***************************************************************************)
(* The outcome.                                                            *)
(***************************************************************************)
LastThrew(i) ==
  /\ i \in DOMAIN log /\ Threw(log[i])
  /\ \A j \in DOMAIN log : Threw(log[j]) => j <= i
LastAnswered(i) ==
  /\ i \in DOMAIN log /\ Answered(log[i])
  /\ \A j \in DOMAIN log : Answered(log[j]) => j <= i

OutcomeInv ==
  /\ response \in Responses \cup {Null} /\ error \in Errors \cup {Null}
  /\ IF error = Null THEN \A j \in DOMAIN log : ~Threw(log[j]) ELSE LastThrew(error.by)
  /\ error = Null /\ response # Null => LastAnswered(response.by)
  /\ phase \in {"request", "handler", "response"} => error = Null
  /\ phase = "error" => error # Null
  /\ phase \in {"response", "done", "sent"} => response # Null
  /\ phase \in {"done", "sent"} => Decides(response.by)
  /\ phase = "rejected" => error # Null /\ ~Constructible(error.status, TRUE)
  /\ phase = "crashed" =>
       \/ error # Null /\ ~Constructible(error.status, TRUE)
       \/ response # Null /\ response.body /\ spent

-----------------------------------------------------------------------------
(***************************************************************************)
(* The parsers.                                                            *)
(***************************************************************************)
BodyTyped ==
  /\ asked \in Seq(Parsers)
  /\ text \in {"none", "reading", "read", "failed", "silent"}
  /\ stream \in {"open", "ended", "aborted"} /\ platform \in {"node", "bun"}
  /\ waiting \in SUBSET [parser : Parsers, on : {"text", "web", "used"}]
  /\ told \in SUBSET [parser : Parsers, ok : BOOLEAN]

\* Why a read of the body may fail.
Excused == stream = "aborted" \/ TakenByForm

BodyInv ==
  /\ text = "read" => stream = "ended"
  /\ text = "failed" => Excused
  /\ text # "none" => Len(asked) > 0
  /\ webUsed => platform = "bun" /\ Len(asked) > 0
  /\ webUsed /\ text = "none" => \E i \in DOMAIN asked : asked[i] = "form"
  /\ \A w \in waiting :
       /\ w.on = "used" => TakenByForm
       /\ w.parser = "text" => w.on = "text"
  /\ \A t \in told : IF t.ok THEN Parses(t.parser) ELSE ~Parses(t.parser) \/ Excused
  /\ \A t \in told : t.parser = "text" => text = IF t.ok THEN "read" ELSE "failed"

ChainInv == MarksInv /\ OrderInv /\ OutcomeInv /\ BodyTyped /\ BodyInv

-----------------------------------------------------------------------------
(***************************************************************************)
(* The steps of execute: a stage returns a response, returns nothing or    *)
(* throws; execute goes on; or none of these and nothing of execute moves  *)
(* but the lists, and the body of the response, while a stage runs.        *)
(***************************************************************************)
Returned == running /\ hooks' = hooks /\ \E r \in Responses : r.by = This /\ Returns(r)
Thrown == running /\ hooks' = hooks /\ \E e \in Errors : e.by = This /\ Throws(e)

Passive ==
  /\ UNCHANGED <<phase, at, running, response, error, log>>
  /\ running \/ UNCHANGED <<hooks, spent>>

LEMMA OwnTypes ==
  ASSUME Shaped, Logs
  PROVE  /\ \A b \in Builders : Built(b) \in Responses /\ Built(b).by = This
         /\ Response(TRUE, {}) \in Responses /\ Response(TRUE, {}).by = This
         /\ PlainError \in Errors /\ PlainError.by = This
         /\ \A s \in ErrorStatuses \cup {400} : HttpErrorOf(s) \in Errors /\ HttpErrorOf(s).by = This
  <1>1. This \in Nat
    BY DEF This, Logs
  <1>2. ASSUME NEW b \in Builders PROVE Built(b) \in Responses /\ Built(b).by = This
    <2>1. BodyOf(b) \in BOOLEAN
      BY DEF BodyOf, Builders
    <2> QED BY <1>1, <2>1 DEF Built, Response, Responses, Shaped
  <1>3. Response(TRUE, {}) \in Responses /\ Response(TRUE, {}).by = This
    BY <1>1 DEF Response, Responses
  <1>4. PlainError \in Errors /\ PlainError.by = This
    BY <1>1 DEF PlainError, Errors
  <1>5. ASSUME NEW s \in ErrorStatuses \cup {400}
        PROVE  HttpErrorOf(s) \in Errors /\ HttpErrorOf(s).by = This
    <2>1. s \in Nat
      BY HooksAssumption
    <2> QED BY <1>1, <2>1 DEF HttpErrorOf, Errors
  <1> QED BY <1>2, <1>3, <1>4, <1>5

LEMMA StageKinds ==
  ASSUME Shaped, Logs, Stage
  PROVE  Returned \/ Thrown \/ ReturnVoid
  <1>1. CASE ReturnBuilt
    <2>1. running /\ hooks' = hooks
      BY <1>1 DEF ReturnBuilt
    <2>2. PICK b \in Builders :
            IF Constructible(StatusOf(b), BodyOf(b)) THEN Returns(Built(b)) ELSE Throws(PlainError)
      BY <1>1 DEF ReturnBuilt
    <2> QED BY <2>1, <2>2, OwnTypes DEF Returned, Thrown
  <1>2. CASE ReturnOwn
    BY <1>2, OwnTypes DEF ReturnOwn, Returned
  <1>3. CASE ReturnErrorResponse
    BY <1>3, OwnTypes DEF ReturnErrorResponse, Returned, Thrown
  <1>4. CASE Throw
    <2>1. running /\ hooks' = hooks
      BY <1>4 DEF Throw
    <2>2. PICK e \in {PlainError} \union {HttpErrorOf(s) : s \in ErrorStatuses} : Throws(e)
      BY <1>4 DEF Throw
    <2>3. e \in Errors /\ e.by = This
      BY OwnTypes
    <2> QED BY <2>1, <2>2, <2>3 DEF Thrown
  <1> QED BY <1>1, <1>2, <1>3, <1>4 DEF Stage

LEMMA StepKinds ==
  ASSUME Shaped, Placed, Logs, [Next]_vars
  PROVE  Returned \/ Thrown \/ ReturnVoid \/ Chain \/ Passive
  <1>1. CASE Stage
    BY <1>1, StageKinds
  <1>2. CASE Await
    <2>1. hooks' = hooks /\ running /\ (Throws(HttpErrorOf(400)) \/ UNCHANGED chainVars)
      BY <1>2 DEF Await, Catches, Placed
    <2> QED BY ZenonT(60), <2>1, OwnTypes DEF Thrown, Passive, chainVars
  <1>3. CASE SetStatus \/ SetHeader \/ Discard \/ AnswerDirectly \/ Parse
    BY <1>3 DEF SetStatus, SetHeader, Discard, AnswerDirectly, Parse, Passive, chainVars
  <1>4. CASE Inspect
    BY <1>4 DEF Inspect, Calls, Passive
  <1>5. CASE TextSettles \/ Register \/ ClientEnds \/ ClientAborts \/ UNCHANGED vars
    BY <1>5 DEF Passive, vars, chainVars, TextSettles, Register, ClientEnds, ClientAborts
  <1> QED BY <1>1, <1>2, <1>3, <1>4, <1>5 DEF Next

\* A stage that ends is logged behind the ones before it.
LEMMA Logged ==
  ASSUME Placed, Logs, OrderInv, running, NEW how \in Outcomes, NEW marks \in SUBSET Nat, Ends(how, marks)
  PROVE  \E e \in Entry :
           /\ e.phase = phase /\ e.at = at /\ e.of = hooks /\ e.end = how
           /\ log' = Append(log, e) /\ Len(log') = Len(log) + 1
           /\ DOMAIN log = 1 .. Len(log) /\ DOMAIN log' = 1 .. Len(log) + 1
           /\ log'[Len(log) + 1] = e /\ \A i \in 1 .. Len(log) : log'[i] = log[i]
           /\ log' # <<>> /\ Len(log) \in Nat
           /\ log'[1].at = 1 /\ log'[1].phase \in {"request", "handler"}
           /\ \A i \in 1 .. Len(log') - 1 : Follows(log'[i], log'[i + 1])
  <1>1. PICK e : e = [phase |-> phase, at |-> at, of |-> hooks, end |-> how, marks |-> marks]
    OBVIOUS
  <1>2. e \in Entry /\ e.phase = phase /\ e.at = at /\ e.of = hooks /\ e.end = how
    BY <1>1 DEF Placed, Entry
  <1>3. log' = Append(log, e)
    BY <1>1 DEF Ends
  <1>4. PICK n \in Nat : n = Len(log)
    BY DEF Logs
  <1>5. /\ Len(log') = n + 1 /\ log' # <<>>
        /\ DOMAIN log = 1 .. n /\ DOMAIN log' = 1 .. n + 1
        /\ log'[n + 1] = e /\ \A i \in 1 .. n : log'[i] = log[i]
    BY <1>2, <1>3, <1>4 DEF Logs
  <1>6. CASE n = 0
    <2>1. log = <<>>
      BY <1>4, <1>6, EmptySeq DEF Logs
    <2>2. e.at = 1 /\ e.phase \in {"request", "handler"}
      BY <1>2, <2>1 DEF OrderInv, Started
    <2> QED BY <1>2, <1>3, <1>4, <1>5, <1>6, <2>2
  <1>7. CASE n > 0
    <2>1. log # <<>>
      BY <1>4, <1>7
    <2>2. Follows(log[n], Here)
      BY <1>4, <2>1 DEF OrderInv, Last
    <2>3. Follows(log[n], e)
      BY <1>2, <2>2 DEF Follows, Here
    <2>4. ASSUME NEW i \in 1 .. n PROVE Follows(log'[i], log'[i + 1])
      <3>1. CASE i = n
        BY <1>5, <2>3, <3>1
      <3>2. CASE i # n
        <4>1. i \in 1 .. n - 1 /\ i + 1 \in 1 .. n
          BY <3>2
        <4>2. Follows(log[i], log[i + 1])
          BY <1>4, <4>1 DEF OrderInv
        <4> QED BY <1>5, <4>1, <4>2
      <3> QED BY <3>1, <3>2
    <2>5. log'[1] = log[1] /\ log[1].at = 1 /\ log[1].phase \in {"request", "handler"}
      BY <1>5, <1>7, <2>1 DEF OrderInv
    <2> QED BY <1>2, <1>3, <1>4, <1>5, <2>4, <2>5
  <1> QED BY <1>4, <1>6, <1>7

-----------------------------------------------------------------------------
LEMMA ReturnOrder ==
  ASSUME Placed, Logs, OrderInv, Returned, Shaped
  PROVE  OrderInv'
  <1>1. PICK r \in Responses : Returns(r)
    BY DEF Returned
  <1>2. r.marks \in SUBSET Nat /\ Ends("response", r.marks) /\ running
    BY <1>1 DEF Responses, Returns, Returned
  <1>3. PICK e \in Entry :
          /\ e.phase = phase /\ e.at = at /\ e.of = hooks /\ e.end = "response"
          /\ Len(log') = Len(log) + 1 /\ log'[Len(log) + 1] = e /\ log' # <<>>
          /\ log'[1].at = 1 /\ log'[1].phase \in {"request", "handler"}
          /\ \A i \in 1 .. Len(log') - 1 : Follows(log'[i], log'[i + 1])
    BY <1>2, Logged DEF Outcomes
  <1>4. ~running' /\ Last' = e /\ hooks' = hooks /\ phase \in Stages
    BY <1>2, <1>3 DEF Ends, Last, Returned, Placed
  <1>5. /\ Answered(e) /\ ~Threw(e)
        /\ phase' \in Stages => Between(e)'
        /\ phase' \in Fates => Completes(e)
    BY <1>1, <1>3, <1>4
       DEF Returns, AfterRequestHook, GoTo, Between, Completes, Answered, Threw, Stages, Fates
  <1> QED BY <1>3, <1>4, <1>5 DEF OrderInv, Between

LEMMA ThrowOrder ==
  ASSUME Placed, Logs, OrderInv, Thrown, Shaped
  PROVE  OrderInv'
  <1>1. PICK x \in Errors : Throws(x)
    BY DEF Thrown
  <1>2. Ends("error", {}) /\ running
    BY <1>1 DEF Throws, Thrown
  <1>3. PICK e \in Entry :
          /\ e.phase = phase /\ e.at = at /\ e.of = hooks /\ e.end = "error"
          /\ Len(log') = Len(log) + 1 /\ log'[Len(log) + 1] = e /\ log' # <<>>
          /\ log'[1].at = 1 /\ log'[1].phase \in {"request", "handler"}
          /\ \A i \in 1 .. Len(log') - 1 : Follows(log'[i], log'[i + 1])
    BY <1>2, Logged DEF Outcomes
  <1>4. ~running' /\ Last' = e /\ hooks' = hooks /\ phase \in Stages
    BY <1>2, <1>3 DEF Ends, Last, Thrown, Placed
  <1>5. /\ ~Answered(e) /\ Threw(e) /\ phase' = "error"
        /\ Between(e)'
    BY <1>1, <1>3, <1>4
       DEF Throws, InErrorHook, GoTo, Between, Answered, Threw, Stages
  <1> QED BY <1>3, <1>4, <1>5 DEF OrderInv, Between, Fates

LEMMA VoidOrder ==
  ASSUME Placed, Logs, OrderInv, ReturnVoid
  PROVE  OrderInv'
  <1>1. /\ Ends("void", {}) /\ running /\ phase # "handler"
        /\ UNCHANGED <<phase, at, hooks>>
    BY DEF ReturnVoid
  <1>2. PICK e \in Entry :
          /\ e.phase = phase /\ e.at = at /\ e.of = hooks /\ e.end = "void"
          /\ Len(log') = Len(log) + 1 /\ log'[Len(log) + 1] = e /\ log' # <<>>
          /\ log'[1].at = 1 /\ log'[1].phase \in {"request", "handler"}
          /\ \A i \in 1 .. Len(log') - 1 : Follows(log'[i], log'[i + 1])
    BY <1>1, Logged DEF Outcomes
  <1>3. ~running' /\ Last' = e /\ phase \in Stages
    BY <1>1, <1>2 DEF Ends, Last, Placed
  <1>4. ~Answered(e) /\ ~Threw(e) /\ Between(e)' /\ phase' \notin Fates
    BY <1>1, <1>2, <1>3 DEF Between, Answered, Threw, Stages, Fates
  <1> QED BY <1>2, <1>3, <1>4 DEF OrderInv, Between

LEMMA PassiveOrder ==
  ASSUME Placed, OrderInv, Passive
  PROVE  OrderInv'
  BY ZenonT(60) DEF OrderInv, Passive, Placed, Started, Last, Here, Between, Follows, Completes, Threw, Answered

\* execute goes on from where the last stage left it.
LEMMA ChainOrder ==
  ASSUME Placed, Logs, OrderInv, Chain
  PROVE  OrderInv'
  <1>1. log' = log /\ hooks' = hooks
    BY Zenon DEF Chain, NextHook, CallHandler, ResponseHooksEnd, DefaultErrorResponse,
                 WriteToNode, ReturnToBun, Rejected
  <1>2. PICK e : e = Last
    OBVIOUS
  <1>3. Last' = e
    BY <1>1, <1>2 DEF Last
  <1>4. log # <<>> => e \in Entry
    BY <1>2, EmptySeq, LenProperties, ElementOfSeq DEF Logs, Last
  <1>5. log = <<>> \/ (~running /\ phase \in Stages) \/ phase \in Fates
    BY DEF Chain, NextHook, CallHandler, ResponseHooksEnd, DefaultErrorResponse,
           WriteToNode, ReturnToBun, Rejected, Stages, Kinds, Fates
  <1>6. log # <<>> =>
          /\ ~running /\ phase \in Stages => Between(e)
          /\ phase \in Fates => Completes(e)
    BY <1>2 DEF OrderInv
  <1>7. CASE NextHook
    <2>1. /\ ~running /\ phase \in Stages /\ phase # "handler" /\ running'
          /\ phase' = phase /\ at' = at + 1 /\ at < hooks[phase] /\ phase \notin Fates
      BY <1>7 DEF NextHook, Called, Kinds, Stages, Fates
    <2>2. log = <<>> => Started'
      BY <2>1 DEF OrderInv, Started
    <2>3. log # <<>> => Follows(e, [phase |-> phase, at |-> at + 1])
      <3> SUFFICES ASSUME log # <<>> PROVE Follows(e, [phase |-> phase, at |-> at + 1])
        OBVIOUS
      <3>1. Between(e) /\ e.phase \in Stages /\ e.end \in Outcomes
        BY <1>4, <1>6, <2>1 DEF Entry
      <3>2. PICK f : f = [phase |-> phase, at |-> at + 1]
        OBVIOUS
      <3>3. f.phase = phase /\ f.at = at + 1
        BY <3>2
      <3>4. CASE Threw(e)
        BY <2>1, <3>1, <3>2, <3>3, <3>4 DEF Between, Follows, Threw, Answered
      <3>5. CASE ~Threw(e) /\ ~Answered(e)
        BY <2>1, <3>1, <3>2, <3>3, <3>5 DEF Between, Stages, Outcomes, Follows, Threw, Answered
      <3>6. CASE ~Threw(e) /\ Answered(e)
        BY <2>1, <3>1, <3>2, <3>3, <3>6 DEF Between, Stages, Outcomes, Follows, Threw, Answered
      <3> QED BY <3>4, <3>5, <3>6
    <2>4. Here' = [phase |-> phase, at |-> at + 1]
      BY <2>1 DEF Here
    <2>5. log # <<>> => Follows(Last, Here)'
      BY <1>3, <2>3, <2>4 DEF Follows, Threw, Answered
    <2> QED BY <1>1, <2>1, <2>2, <2>5 DEF OrderInv, Follows, Threw, Answered
  <1>8. CASE CallHandler
    <2>1. /\ ~running /\ phase = "request" /\ running' /\ phase' = "handler" /\ at' = 1
          /\ at = hooks["request"] /\ phase \in Stages
      BY <1>8 DEF CallHandler, Stages
    <2>2. log = <<>> => Started'
      BY <2>1 DEF Started
    <2>3. log # <<>> => Follows(e, [phase |-> "handler", at |-> 1])
      <3> SUFFICES ASSUME log # <<>> PROVE Follows(e, [phase |-> "handler", at |-> 1])
        OBVIOUS
      <3>1. Between(e) /\ e.phase \in Stages /\ e.end \in Outcomes
        BY <1>4, <1>6, <2>1 DEF Entry
      <3>2. ~Threw(e) /\ ~Answered(e) /\ e.phase = "request" /\ e.at = e.of["request"]
        BY <2>1, <3>1 DEF Between, Stages, Outcomes, Threw, Answered
      <3>3. e.at \in Nat
        BY <1>4 DEF Entry
      <3> QED BY <3>2, <3>3 DEF Follows
    <2>4. Here' = [phase |-> "handler", at |-> 1]
      BY <2>1 DEF Here
    <2>5. log # <<>> => Follows(Last, Here)'
      BY <1>3, <2>3, <2>4 DEF Follows, Threw, Answered
    <2> QED BY <1>1, <2>1, <2>2, <2>5 DEF OrderInv, Follows, Threw, Answered, Fates
  <1>9. CASE ResponseHooksEnd \/ DefaultErrorResponse
    <2>1. /\ ~running /\ phase \in {"response", "error"} /\ phase \in Stages /\ ~running'
          /\ at = hooks[phase] /\ phase' \in Fates /\ phase' \notin Stages
      <3>1. CASE ResponseHooksEnd
        BY <3>1 DEF ResponseHooksEnd, GoTo, Stages, Fates
      <3>2. CASE DefaultErrorResponse
        <4>1. phase' \in {"done", "rejected"} /\ phase = "error"
          BY <3>2 DEF DefaultErrorResponse, GoTo
        <4>2. ~running /\ at = hooks["error"] /\ running' = running
          BY Zenon, <3>2 DEF DefaultErrorResponse
        <4> QED BY <4>1, <4>2 DEF Stages, Fates
      <3> QED BY <1>9, <3>1, <3>2
    <2>2. log # <<>>
      BY <2>1 DEF OrderInv, Started
    <2>3. Between(e) /\ e.phase \in Stages /\ e.end \in Outcomes /\ e.at \in Nat
      BY <1>4, <1>6, <2>1, <2>2 DEF Entry
    <2>4. Completes(e)
      <3>1. CASE Threw(e)
        BY <2>1, <2>3, <3>1 DEF Between, Completes, Threw, Answered
      <3>2. CASE ~Threw(e) /\ ~Answered(e)
        BY <2>1, <2>3, <3>2 DEF Between, Stages, Outcomes, Completes, Threw, Answered
      <3>3. CASE ~Threw(e) /\ Answered(e)
        BY <2>1, <2>3, <3>3 DEF Between, Stages, Outcomes, Completes, Threw, Answered
      <3> QED BY <3>1, <3>2, <3>3
    <2>5. Completes(Last)'
      BY <1>3, <2>4 DEF Completes, Threw, Answered
    <2> QED BY <1>1, <2>1, <2>2, <2>5 DEF OrderInv, Completes, Threw, Answered
  <1>10. CASE WriteToNode \/ ReturnToBun \/ Rejected
    <2>1. phase \in Fates /\ phase' \in Fates /\ phase' \notin Stages /\ running' = running
      BY <1>10 DEF WriteToNode, ReturnToBun, Rejected, GoTo, Stages, Fates
    <2>2. log # <<>> /\ ~running
      BY <2>1 DEF OrderInv, Started, Placed, Fates, Stages
    <2>3. Completes(Last)'
      BY <1>3, <1>6, <2>1, <2>2 DEF Completes, Threw, Answered
    <2> QED BY <1>1, <2>1, <2>2, <2>3 DEF OrderInv, Completes, Threw, Answered
  <1> QED BY <1>7, <1>8, <1>9, <1>10 DEF Chain

LEMMA OrderStep ==
  ASSUME MarksInv, OrderInv, [Next]_vars
  PROVE  OrderInv'
  BY StepKinds, ReturnOrder, ThrowOrder, VoidOrder, PassiveOrder, ChainOrder DEF MarksInv

-----------------------------------------------------------------------------
(***************************************************************************)
(* The response and the error in flight are those of the latest stages     *)
(* that answered and threw.                                                *)
(***************************************************************************)
LEMMA LoggedLast ==
  ASSUME Placed, Logs, running, NEW how \in Outcomes, NEW marks \in SUBSET Nat, Ends(how, marks)
  PROVE  \E e \in Entry, n \in Nat :
           /\ n = This /\ e.phase = phase /\ e.end = how
           /\ DOMAIN log = 1 .. n - 1 /\ DOMAIN log' = 1 .. n /\ Len(log') = n
           /\ log'[n] = e /\ \A i \in DOMAIN log : i < n /\ log'[i] = log[i]
           /\ n \in DOMAIN log' /\ \A i \in DOMAIN log' : i = n \/ i \in DOMAIN log
           /\ DOMAIN log \subseteq Nat
  <1>1. PICK e : e = [phase |-> phase, at |-> at, of |-> hooks, end |-> how, marks |-> marks]
    OBVIOUS
  <1>2. e \in Entry /\ e.phase = phase /\ e.end = how
    BY <1>1 DEF Placed, Entry
  <1>3. log' = Append(log, e)
    BY <1>1 DEF Ends
  <1>4. PICK n \in Nat : n = Len(log)
    BY DEF Logs
  <1>5. /\ Len(log') = n + 1 /\ DOMAIN log = 1 .. n /\ DOMAIN log' = 1 .. n + 1
        /\ log'[n + 1] = e /\ \A i \in 1 .. n : log'[i] = log[i]
    BY <1>2, <1>3, <1>4 DEF Logs
  <1> QED BY <1>2, <1>4, <1>5 DEF This

\* What the latest stage is, when it did not throw, or when it did.
LEMMA LatestKept ==
  ASSUME NEW n \in Nat, NEW i, DOMAIN log \subseteq Nat, DOMAIN log' = DOMAIN log \cup {n},
         \A j \in DOMAIN log : j < n /\ log'[j] = log[j]
  PROVE  /\ LastThrew(i) /\ ~Threw(log'[n]) => LastThrew(i)'
         /\ LastAnswered(i) /\ ~Answered(log'[n]) => LastAnswered(i)'
         /\ Threw(log'[n]) => LastThrew(n)'
         /\ Answered(log'[n]) => LastAnswered(n)'
  BY DEF LastThrew, LastAnswered, Threw, Answered

LEMMA ReturnOutcome ==
  ASSUME Placed, Logs, OutcomeInv, Returned
  PROVE  OutcomeInv'
  <1>1. PICK r \in Responses : r.by = This /\ Returns(r)
    BY DEF Returned
  <1>2. r.marks \in SUBSET Nat /\ Ends("response", r.marks) /\ running /\ phase \in Stages
    BY <1>1 DEF Responses, Returns, Returned, Placed
  <1>3. PICK e \in Entry, n \in Nat :
          /\ n = This /\ e.phase = phase /\ e.end = "response"
          /\ DOMAIN log = 1 .. n - 1 /\ DOMAIN log' = 1 .. n /\ Len(log') = n
          /\ log'[n] = e /\ \A i \in DOMAIN log : i < n /\ log'[i] = log[i]
          /\ n \in DOMAIN log' /\ \A i \in DOMAIN log' : i = n \/ i \in DOMAIN log
          /\ DOMAIN log \subseteq Nat
    BY <1>2, LoggedLast DEF Outcomes
  <1>4. response' = r /\ error' = error /\ r # Null /\ r.by = n
    BY <1>1, <1>2, <1>3, HooksAssumption DEF Returns, AfterRequestHook, Stages
  <1>5. \/ phase \in {"request", "handler", "response"} /\ phase' = "response"
        \/ phase = "error" /\ phase' = "done"
    BY <1>1, <1>2 DEF Returns, AfterRequestHook, GoTo, Stages
  <1>6. Answered(log'[n]) /\ ~Threw(log'[n]) /\ DOMAIN log' = DOMAIN log \cup {n}
    BY <1>3 DEF Answered, Threw
  <1>7. IF error' = Null THEN \A j \in DOMAIN log' : ~Threw(log'[j]) ELSE LastThrew(error.by)'
    <2>1. CASE error = Null
      BY <1>3, <1>4, <1>6, <2>1 DEF OutcomeInv, Threw
    <2>2. CASE error # Null
      <3>1. PICK m : m = error.by
        OBVIOUS
      <3>2. LastThrew(m) /\ m = error'.by
        BY <1>4, <2>2, <3>1 DEF OutcomeInv
      <3>3. LastThrew(m)'
        BY <1>3, <1>6, <3>2, LatestKept
      <3> QED BY <1>4, <2>2, <3>1, <3>2, <3>3 DEF LastThrew
    <2> QED BY <2>1, <2>2
  <1>8. LastAnswered(response.by)'
    <2>1. LastAnswered(n)'
      BY <1>3, <1>6, LatestKept
    <2> QED BY <1>4, <2>1 DEF LastAnswered
  <1>9. phase' = "done" => Decides(response.by)'
    BY <1>3, <1>4, <1>5, <1>6 DEF Decides, Answered
  <1> QED BY <1>4, <1>5, <1>7, <1>8, <1>9 DEF OutcomeInv

LEMMA ThrowOutcome ==
  ASSUME Placed, Logs, OutcomeInv, Thrown
  PROVE  OutcomeInv'
  <1>1. PICK x \in Errors : x.by = This /\ Throws(x)
    BY DEF Thrown
  <1>2. Ends("error", {}) /\ running /\ phase \in Stages
    BY <1>1 DEF Throws, Thrown, Placed
  <1>3. PICK e \in Entry, n \in Nat :
          /\ n = This /\ e.phase = phase /\ e.end = "error"
          /\ DOMAIN log = 1 .. n - 1 /\ DOMAIN log' = 1 .. n /\ Len(log') = n
          /\ log'[n] = e /\ \A i \in DOMAIN log : i < n /\ log'[i] = log[i]
          /\ n \in DOMAIN log' /\ \A i \in DOMAIN log' : i = n \/ i \in DOMAIN log
          /\ DOMAIN log \subseteq Nat
    BY <1>2, LoggedLast DEF Outcomes
  <1>4. response' = response /\ error' = x /\ x # Null /\ x.by = n /\ phase' = "error"
    BY <1>1, <1>2, <1>3, HooksAssumption DEF Throws, InErrorHook, GoTo
  <1>5. LastThrew(error.by)'
    <2>1. LastThrew(n)'
      BY <1>3, LatestKept DEF Threw
    <2> QED BY <1>4, <2>1 DEF LastThrew
  <1> QED BY <1>4, <1>5 DEF OutcomeInv

LEMMA VoidOutcome ==
  ASSUME Placed, Logs, OutcomeInv, ReturnVoid
  PROVE  OutcomeInv'
  <1>1. Ends("void", {}) /\ running /\ phase \in Stages /\ UNCHANGED <<phase, response, error>>
    BY DEF ReturnVoid, Placed
  <1>2. PICK e \in Entry, n \in Nat :
          /\ n = This /\ e.phase = phase /\ e.end = "void"
          /\ DOMAIN log = 1 .. n - 1 /\ DOMAIN log' = 1 .. n /\ Len(log') = n
          /\ log'[n] = e /\ \A i \in DOMAIN log : i < n /\ log'[i] = log[i]
          /\ n \in DOMAIN log' /\ \A i \in DOMAIN log' : i = n \/ i \in DOMAIN log
          /\ DOMAIN log \subseteq Nat
    BY <1>1, LoggedLast DEF Outcomes
  <1>3. ~Answered(log'[n]) /\ ~Threw(log'[n]) /\ DOMAIN log' = DOMAIN log \cup {n}
    BY <1>2 DEF Answered, Threw
  <1>4. PICK m, k : m = error.by /\ k = response.by
    OBVIOUS
  <1>5. IF error' = Null THEN \A j \in DOMAIN log' : ~Threw(log'[j]) ELSE LastThrew(error.by)'
    <2>1. CASE error = Null
      BY <1>1, <1>2, <1>3, <2>1 DEF OutcomeInv, Threw
    <2>2. CASE error # Null
      <3>1. LastThrew(m)
        BY <1>4, <2>2 DEF OutcomeInv
      <3>2. LastThrew(m)'
        BY <1>2, <1>3, <3>1, LatestKept
      <3> QED BY <1>1, <1>4, <2>2, <3>2 DEF LastThrew
    <2> QED BY <2>1, <2>2
  <1>6. error' = Null /\ response' # Null => LastAnswered(response.by)'
    <2> SUFFICES ASSUME error = Null, response # Null PROVE LastAnswered(response.by)'
      BY <1>1
    <2>1. LastAnswered(k)
      BY <1>4 DEF OutcomeInv
    <2>2. LastAnswered(k)'
      BY <1>2, <1>3, <2>1, LatestKept
    <2> QED BY <1>1, <1>4, <2>2 DEF LastAnswered
  <1> QED BY <1>1, <1>5, <1>6 DEF OutcomeInv, Stages

LEMMA PassiveOutcome ==
  ASSUME Placed, OutcomeInv, Passive
  PROVE  OutcomeInv'
  <1>1. UNCHANGED <<phase, response, error, log>> /\ (phase \in Fates => UNCHANGED spent)
    BY DEF Passive, Placed, Stages, Fates
  <1>2. phase = "crashed" => UNCHANGED spent
    BY <1>1 DEF Fates
  <1>3. IF error' = Null THEN \A j \in DOMAIN log' : ~Threw(log'[j]) ELSE LastThrew(error.by)'
    BY <1>1 DEF OutcomeInv, LastThrew, Threw
  <1>4. (error = Null /\ response # Null => LastAnswered(response.by))'
    BY <1>1 DEF OutcomeInv, LastAnswered, Answered
  <1>5. (phase \in {"done", "sent"} => Decides(response.by))'
    BY <1>1 DEF OutcomeInv, Decides, Threw, Answered
  <1> QED BY <1>1, <1>2, <1>3, <1>4, <1>5 DEF OutcomeInv, Constructible

\* What execute does between two stages.
LEMMA ChainOutcome ==
  ASSUME Placed, Logs, OrderInv, OutcomeInv, Chain
  PROVE  OutcomeInv'
  <1>1. log' = log /\ error' = error
    BY Zenon DEF Chain, NextHook, CallHandler, ResponseHooksEnd, DefaultErrorResponse,
                 WriteToNode, ReturnToBun, Rejected
  <1>2. IF error' = Null THEN \A j \in DOMAIN log' : ~Threw(log'[j]) ELSE LastThrew(error.by)'
    BY <1>1 DEF OutcomeInv, LastThrew, Threw
  <1>3. CASE NextHook \/ CallHandler
    <2>1. /\ response' = response
          /\ \/ phase' = phase /\ phase \in Kinds
             \/ phase = "request" /\ phase' = "handler"
      BY <1>3 DEF NextHook, CallHandler
    <2> QED BY <1>1, <1>2, <2>1 DEF OutcomeInv, Kinds, LastAnswered, Answered
  <1>4. CASE ResponseHooksEnd
    <2>1. ~running /\ phase = "response" /\ phase' = "done" /\ response' = response
      BY <1>4 DEF ResponseHooksEnd, GoTo
    <2>2. PICK k : k = response.by
      OBVIOUS
    <2>3. error = Null /\ response # Null /\ LastAnswered(k) /\ \A j \in DOMAIN log : ~Threw(log[j])
      BY <2>1, <2>2 DEF OutcomeInv
    <2>4. log # <<>> /\ Between(log[Len(log)])
      BY <2>1 DEF OrderInv, Started, Stages, Last
    <2>5. ~(log[Len(log)].phase = "error" /\ Answered(log[Len(log)]))
      BY <2>1, <2>4 DEF Between
    <2>6. Decides(k)
      BY <2>3, <2>5 DEF Decides, LastAnswered
    <2>7. Decides(response.by)'
      BY <1>1, <2>1, <2>2, <2>6 DEF Decides, Threw, Answered
    <2> QED BY <1>1, <1>2, <2>1, <2>2, <2>3, <2>7 DEF OutcomeInv, LastAnswered, Answered
  <1>5. CASE DefaultErrorResponse
    <2>1. ~running /\ phase = "error" /\ error # Null /\ error \in Errors
      BY Zenon, <1>5 DEF DefaultErrorResponse, OutcomeInv
    <2>2. PICK m : m = error.by
      OBVIOUS
    <2>3. LastThrew(m) /\ m \in Nat
      BY <2>1, <2>2 DEF OutcomeInv, Errors
    <2>4. log # <<>> /\ Between(log[Len(log)])
      BY <2>1 DEF OrderInv, Started, Stages, Last
    <2>5. ~(log[Len(log)].phase = "error" /\ Answered(log[Len(log)]))
      BY <2>1, <2>4 DEF Between
    <2>6. Decides(m)
      BY <2>3, <2>5 DEF Decides, LastThrew
    <2>7. CASE Constructible(error.status, TRUE)
      <3>1. phase' = "done" /\ response' = [by |-> m, body |-> TRUE, marks |-> {}]
        BY <1>5, <2>2, <2>7 DEF DefaultErrorResponse, GoTo
      <3>2. response' \in Responses /\ response'.by = m /\ response' # Null
        <4>1. PICK r : r = [by |-> m, body |-> TRUE, marks |-> {}]
          OBVIOUS
        <4>2. r \in Responses /\ r.by = m
          BY <2>3, <4>1 DEF Responses
        <4> QED BY <3>1, <4>1, <4>2, HooksAssumption
      <3>3. Decides(response.by)'
        BY <1>1, <2>6, <3>2 DEF Decides, Threw, Answered
      <3> QED BY <1>1, <1>2, <2>1, <3>1, <3>2, <3>3 DEF OutcomeInv
    <2>8. CASE ~Constructible(error.status, TRUE)
      <3>1. phase' = "rejected" /\ response' = response
        BY <1>5, <2>8 DEF DefaultErrorResponse, GoTo
      <3>2. ~Constructible(error.status, TRUE)'
        BY <1>1, <2>8 DEF Constructible
      <3> QED BY <1>1, <1>2, <2>1, <3>1, <3>2 DEF OutcomeInv
    <2> QED BY <2>7, <2>8
  <1>6. CASE WriteToNode \/ ReturnToBun \/ Rejected
    <2>1. /\ UNCHANGED <<response, spent>>
          /\ \/ phase = "done" /\ phase' = "sent"
             \/ phase = "done" /\ phase' = "crashed" /\ response.body /\ spent
             \/ phase = "rejected" /\ phase' = "crashed"
             \/ phase' = "failed"
      BY <1>6 DEF WriteToNode, ReturnToBun, Rejected, GoTo
    <2>2. (error = Null /\ response # Null => LastAnswered(response.by))'
      BY <1>1, <2>1 DEF OutcomeInv, LastAnswered, Answered
    <2>3. (phase = "done" \/ phase = "sent" => Decides(response.by))'
      BY <1>1, <2>1 DEF OutcomeInv, Decides, Threw, Answered
    <2> QED BY <1>1, <1>2, <2>1, <2>2, <2>3 DEF OutcomeInv, Constructible
  <1> QED BY <1>3, <1>4, <1>5, <1>6 DEF Chain

LEMMA OutcomeStep ==
  ASSUME MarksInv, OrderInv, OutcomeInv, [Next]_vars
  PROVE  OutcomeInv'
  BY StepKinds, ReturnOutcome, ThrowOutcome, VoidOutcome, PassiveOutcome, ChainOutcome DEF MarksInv

-----------------------------------------------------------------------------
(***************************************************************************)
(* The body, its promise and what the parsers say of it.                   *)
(***************************************************************************)
\* Everything but parsers, promises and the client.
BodySame == UNCHANGED <<given, bodyVars>> /\ waiting' \in SUBSET waiting

LEMMA BodyKept ==
  ASSUME BodyTyped, BodyInv, BodySame
  PROVE  BodyTyped' /\ BodyInv'
  <1>1. UNCHANGED <<platform, content, stream, text, webUsed, asked, told>> /\ waiting' \in SUBSET waiting
    BY DEF BodySame, bodyVars, given
  <1>2. BodyTyped'
    BY <1>1 DEF BodyTyped
  <1>3. TakenByForm' <=> TakenByForm
    BY <1>1 DEF TakenByForm
  <1>4. Excused' <=> Excused
    BY <1>1, <1>3 DEF Excused
  <1>5. \A p : Parses(p)' <=> Parses(p)
    BY <1>1 DEF Parses
  <1> QED BY <1>1, <1>2, <1>3, <1>4, <1>5, Zenon DEF BodyInv, Parses

LEMMA BodySameSteps ==
  ASSUME Placed,
         \/ Stage \/ Chain \/ SetStatus \/ SetHeader \/ Discard \/ Inspect \/ AnswerDirectly \/ Register
         \/ UNCHANGED vars
  PROVE  BodySame
  <1>1. ASSUME NEW e, Throws(e) PROVE waiting' = {}
    BY <1>1 DEF Throws, Ends
  <1>2. ASSUME NEW r, Returns(r) PROVE waiting' = {}
    BY <1>2 DEF Returns, Ends
  <1>3. CASE Stage
    <2>1. UNCHANGED <<given, bodyVars>>
      BY Zenon, <1>3 DEF Stage, ReturnBuilt, ReturnOwn, ReturnErrorResponse, ReturnVoid, Throw
    <2>2. waiting' = {}
      <3>1. CASE ReturnBuilt
        BY <1>1, <1>2, <3>1 DEF ReturnBuilt
      <3>2. CASE ReturnOwn \/ Throw
        BY <1>1, <1>2, <3>2 DEF ReturnOwn, Throw
      <3>3. CASE ReturnErrorResponse
        BY <1>1, <1>2, <3>3 DEF ReturnErrorResponse
      <3>4. CASE ReturnVoid
        BY <3>4 DEF ReturnVoid, Ends
      <3> QED BY <1>3, <3>1, <3>2, <3>3, <3>4 DEF Stage
    <2> QED BY <2>1, <2>2 DEF BodySame
  <1>4. CASE Chain
    BY <1>4 DEF Chain, NextHook, CallHandler, ResponseHooksEnd, DefaultErrorResponse,
                WriteToNode, ReturnToBun, Rejected, BodySame
  <1>5. CASE SetStatus \/ SetHeader \/ Discard \/ Inspect \/ AnswerDirectly \/ Register
    BY <1>5 DEF SetStatus, SetHeader, Discard, Inspect, AnswerDirectly, Register, BodySame
  <1>6. CASE UNCHANGED vars
    BY <1>6 DEF vars, BodySame
  <1> QED BY <1>3, <1>4, <1>5, <1>6

\* The client sends the rest of its body or leaves; text()'s promise settles.
LEMMA StreamBody ==
  ASSUME BodyTyped, BodyInv, ClientEnds \/ ClientAborts \/ TextSettles
  PROVE  BodyTyped' /\ BodyInv'
  <1>1. UNCHANGED <<platform, content, webUsed, asked, told, waiting>>
    BY DEF ClientEnds, ClientAborts, TextSettles, given
  <1>2. TakenByForm' <=> TakenByForm
    BY <1>1 DEF TakenByForm
  <1>3. \/ stream = "open" /\ stream' \in {"ended", "aborted"} /\ text' = text
        \/ stream = "ended" /\ stream' = "aborted" /\ text \in {"none", "reading"} /\ text' = text
        \/ stream' = stream /\ stream # "open" /\ text = "reading" /\ text' = IF stream = "ended" THEN "read" ELSE "failed"
    BY DEF ClientEnds, ClientAborts, TextSettles, Heard
  <1>4. Excused => Excused'
    BY <1>2, <1>3 DEF Excused
  <1>5. BodyTyped'
    BY <1>1, <1>3 DEF BodyTyped
  <1>6. (text = "read" => stream = "ended")'
    BY <1>3 DEF BodyInv, BodyTyped
  <1>7. (text = "failed" => Excused)'
    BY <1>3, <1>4 DEF BodyInv, BodyTyped, Excused
  <1>8. /\ (text # "none" => Len(asked) > 0)'
        /\ (webUsed => platform = "bun" /\ Len(asked) > 0)'
        /\ (webUsed /\ text = "none" => \E i \in DOMAIN asked : asked[i] = "form")'
    BY <1>1, <1>3 DEF BodyInv
  <1>9. \A w \in waiting :
          /\ w.on = "used" => TakenByForm'
          /\ w.parser = "text" => w.on = "text"
    BY <1>2 DEF BodyInv
  <1>10. ASSUME NEW t \in told
         PROVE  /\ IF t.ok THEN Parses(t.parser)' ELSE ~Parses(t.parser)' \/ Excused'
                /\ t.parser = "text" => text' = IF t.ok THEN "read" ELSE "failed"
    <2>1. Parses(t.parser)' <=> Parses(t.parser)
      BY <1>1 DEF Parses
    <2>2. t.parser = "text" => text' = IF t.ok THEN "read" ELSE "failed"
      BY <1>3 DEF BodyInv
    <2>3. IF t.ok THEN Parses(t.parser) ELSE ~Parses(t.parser) \/ Excused
      BY DEF BodyInv
    <2> QED BY <1>4, <2>1, <2>2, <2>3, Zenon
  <1> QED BY <1>1, <1>5, <1>6, <1>7, <1>8, <1>9, <1>10 DEF BodyInv, Parses

\* One more parser asked for leaves every excuse as it was.
LEMMA Asked ==
  ASSUME BodyTyped, NEW p \in Parsers, asked' = Append(asked, p), platform' = platform, stream' = stream
  PROVE  /\ asked' \in Seq(Parsers) /\ Len(asked') > 0
         /\ \A i \in DOMAIN asked : i \in DOMAIN asked' /\ asked'[i] = asked[i]
         /\ TakenByForm => TakenByForm'
         /\ Excused => Excused'
         /\ p = "form" => \E i \in DOMAIN asked' : asked'[i] = "form"
         /\ (\E i \in DOMAIN asked' : asked'[i] = "form") /\ Len(asked) > 0 /\ platform = "bun" => TakenByForm'
  <1>1. PICK n \in Nat : n = Len(asked)
    BY DEF BodyTyped
  <1>2. /\ asked' \in Seq(Parsers) /\ Len(asked') = n + 1
        /\ DOMAIN asked = 1 .. n /\ DOMAIN asked' = 1 .. n + 1
        /\ asked'[n + 1] = p /\ \A i \in 1 .. n : asked'[i] = asked[i]
    BY <1>1 DEF BodyTyped
  <1>3. \A i \in DOMAIN asked : i \in DOMAIN asked' /\ asked'[i] = asked[i]
    BY <1>2
  <1>4. p = "form" => \E i \in DOMAIN asked' : asked'[i] = "form"
    BY <1>2
  <1>5. (\E i \in DOMAIN asked' : asked'[i] = "form") /\ Len(asked) > 0 /\ platform = "bun" => TakenByForm'
    BY <1>1, <1>2 DEF TakenByForm
  <1>6. TakenByForm => TakenByForm'
    BY <1>1, <1>2, <1>3 DEF TakenByForm
  <1> QED BY <1>2, <1>3, <1>4, <1>5, <1>6 DEF Excused

\* What text() makes of its promise.
LEMMA TextStarted ==
  ASSUME BodyTyped, TextStarts
  PROVE  /\ text # "none" => text' = text /\ webUsed' = webUsed
         /\ text = "none" =>
              /\ webUsed' = (platform = "bun")
              /\ \/ text' \in {"silent", "reading"}
                 \/ text' = "failed" /\ platform = "bun" /\ webUsed
  <1>1. CASE text # "none"
    BY <1>1 DEF TextStarts, ReadsText
  <1>2. CASE text = "none"
    <2>1. /\ text' = CASE platform = "node" /\ stream = "aborted" -> "silent"
                       [] platform = "bun" /\ webUsed -> "failed"
                       [] OTHER -> "reading"
          /\ webUsed' = (platform = "bun")
      BY <1>2 DEF TextStarts, ReadsText
    <2> QED BY <1>2, <2>1
  <1> QED BY <1>1, <1>2

LEMMA ParseBody ==
  ASSUME BodyTyped, BodyInv, Parse
  PROVE  BodyTyped' /\ BodyInv'
  <1>1. UNCHANGED <<platform, content, stream, told>>
    BY DEF Parse, given
  <1>2. PICK p \in Parsers :
          /\ asked' = Append(asked, p)
          /\ IF p = "form" /\ platform = "bun"
             THEN /\ waiting' = waiting \union {[parser |-> p, on |-> IF webUsed THEN "used" ELSE "web"]}
                  /\ webUsed' = TRUE /\ text' = text
             ELSE TextStarts /\ waiting' = waiting \union {[parser |-> p, on |-> "text"]}
    BY DEF Parse
  <1>3. /\ asked' \in Seq(Parsers) /\ Len(asked') > 0
        /\ \A i \in DOMAIN asked : i \in DOMAIN asked' /\ asked'[i] = asked[i]
        /\ TakenByForm => TakenByForm'
        /\ Excused => Excused'
        /\ p = "form" => \E i \in DOMAIN asked' : asked'[i] = "form"
        /\ (\E i \in DOMAIN asked' : asked'[i] = "form") /\ Len(asked) > 0 /\ platform = "bun" => TakenByForm'
    BY <1>1, <1>2, Asked
  <1>4. webUsed => platform = "bun" /\ Len(asked) > 0
    BY DEF BodyInv
  <1>5. /\ \A t \in told : IF t.ok THEN Parses(t.parser)' ELSE ~Parses(t.parser)' \/ Excused'
        /\ told' = told
    <2>1. \A t \in told : Parses(t.parser)' <=> Parses(t.parser)
      BY <1>1 DEF Parses
    <2>2. \A t \in told : IF t.ok THEN Parses(t.parser) ELSE ~Parses(t.parser) \/ Excused
      BY DEF BodyInv
    <2> QED BY <1>1, <1>3, <2>1, <2>2, Zenon
  <1>6. CASE p = "form" /\ platform = "bun"
    <2>1. PICK v : v = [parser |-> p, on |-> IF webUsed THEN "used" ELSE "web"]
      OBVIOUS
    <2>2. /\ v \in [parser : Parsers, on : {"text", "web", "used"}]
          /\ v.parser = "form" /\ (v.on = "used" => webUsed)
      BY <1>6, <2>1 DEF Parsers
    <2>3. waiting' = waiting \union {v} /\ webUsed' = TRUE /\ text' = text
      BY <1>2, <1>6, <2>1
    <2>4. BodyTyped'
      BY <1>1, <1>3, <2>2, <2>3 DEF BodyTyped
    <2>5. \A w \in waiting' :
            /\ w.on = "used" => TakenByForm'
            /\ w.parser = "text" => w.on = "text"
      BY <1>3, <1>4, <1>6, <2>2, <2>3 DEF BodyInv
    <2>6. /\ (text = "read" => stream = "ended")'
          /\ (text = "failed" => Excused)'
          /\ (text # "none" => Len(asked) > 0)'
          /\ (webUsed => platform = "bun" /\ Len(asked) > 0)'
          /\ (webUsed /\ text = "none" => \E i \in DOMAIN asked : asked[i] = "form")'
          /\ \A t \in told' : t.parser = "text" => text' = IF t.ok THEN "read" ELSE "failed"
      BY <1>1, <1>3, <1>6, <2>3 DEF BodyInv
    <2> QED BY <1>5, <2>4, <2>5, <2>6, Zenon DEF BodyInv, Parses
  <1>7. CASE ~(p = "form" /\ platform = "bun")
    <2>1. PICK v : v = [parser |-> p, on |-> "text"]
      OBVIOUS
    <2>2. v \in [parser : Parsers, on : {"text", "web", "used"}] /\ v.on = "text"
      BY <2>1
    <2>3. waiting' = waiting \union {v} /\ TextStarts
      BY <1>2, <1>7, <2>1
    <2>4. /\ text # "none" => text' = text /\ webUsed' = webUsed
          /\ text = "none" =>
              /\ webUsed' = (platform = "bun")
              /\ \/ text' \in {"silent", "reading"}
                 \/ text' = "failed" /\ platform = "bun" /\ webUsed
      BY <2>3, TextStarted
    <2>5. BodyTyped'
      BY <1>1, <1>3, <2>2, <2>3, <2>4 DEF BodyTyped
    <2>6. \A w \in waiting' :
            /\ w.on = "used" => TakenByForm'
            /\ w.parser = "text" => w.on = "text"
      BY <1>3, <2>2, <2>3 DEF BodyInv
    <2>7. text = "none" /\ platform = "bun" /\ webUsed => TakenByForm'
      BY <1>3, <1>4 DEF BodyInv
    <2>8. /\ (text = "read" => stream = "ended")'
          /\ (text = "failed" => Excused)'
          /\ (text # "none" => Len(asked) > 0)'
          /\ (webUsed /\ text = "none" => \E i \in DOMAIN asked : asked[i] = "form")'
          /\ \A t \in told' : t.parser = "text" => text' = IF t.ok THEN "read" ELSE "failed"
      BY <1>1, <1>3, <2>4, <2>7 DEF BodyInv, Excused
    <2>9. (webUsed => platform = "bun" /\ Len(asked) > 0)'
      <3>1. CASE text = "none"
        BY <1>1, <1>3, <2>4, <3>1, Zenon
      <3>2. CASE text # "none"
        BY <1>1, <1>3, <1>4, <2>4, <3>2, Zenon
      <3> QED BY <3>1, <3>2
    <2> QED BY <1>5, <2>5, <2>6, <2>8, <2>9, Zenon DEF BodyInv, Parses
  <1> QED BY <1>6, <1>7

\* What a parser says is what became of its promise and of the body.
LEMMA AwaitBody ==
  ASSUME BodyTyped, BodyInv, Await
  PROVE  BodyTyped' /\ BodyInv'
  <1>1. UNCHANGED <<platform, content, stream, text, webUsed, asked>>
    BY DEF Await, given
  <1>2. PICK w \in waiting :
          /\ Settled(w)
          /\ told' = told \union {[parser |-> w.parser, ok |-> Fulfilled(w)]}
          /\ waiting' \in SUBSET waiting
    BY DEF Await, Throws, Ends, Catches
  <1>3. PICK q \in Parsers, on \in {"text", "web", "used"} : w.parser = q /\ w.on = on
    BY DEF BodyTyped
  <1>4. Fulfilled(w) \in BOOLEAN
    BY DEF Fulfilled
  <1>5. PICK u : u = [parser |-> q, ok |-> Fulfilled(w)]
    OBVIOUS
  <1>6. u \in [parser : Parsers, ok : BOOLEAN] /\ u.parser = q /\ (u.ok <=> Fulfilled(w)) /\ told' = told \union {u}
    BY <1>2, <1>3, <1>4, <1>5
  <1>7. /\ u.ok => Parses(q)
        /\ ~u.ok => ~Parses(q) \/ Excused
        /\ q = "text" => text = IF u.ok THEN "read" ELSE "failed"
    <2>1. Parses("text")
      BY DEF Parses
    <2>2. q = "text" => on = "text"
      BY <1>3 DEF BodyInv
    <2>3. CASE on = "text"
      <3>1. Settled(w) <=> text \in {"read", "failed"}
        BY <1>3, <2>3 DEF Settled
      <3>2. Fulfilled(w) <=> Parses(q) /\ text = "read"
        BY <1>3, <2>3 DEF Fulfilled
      <3> QED BY <1>2, <1>6, <2>1, <3>1, <3>2 DEF BodyInv
    <2>4. CASE on = "web"
      <3>1. Settled(w) <=> stream # "open"
        BY <1>3, <2>4 DEF Settled
      <3>2. Fulfilled(w) <=> Parses(q) /\ stream = "ended"
        BY <1>3, <2>4 DEF Fulfilled
      <3> QED BY <1>2, <1>6, <2>2, <2>4, <3>1, <3>2 DEF BodyTyped, Excused
    <2>5. CASE on = "used"
      <3>1. ~Fulfilled(w)
        BY <1>3, <2>5 DEF Fulfilled
      <3>2. TakenByForm
        BY <1>3, <2>5 DEF BodyInv
      <3> QED BY <1>6, <2>2, <2>5, <3>1, <3>2 DEF Excused
    <2> QED BY <2>3, <2>4, <2>5
  <1>8. BodyTyped'
    BY <1>1, <1>2, <1>6 DEF BodyTyped
  <1>9. (TakenByForm' <=> TakenByForm) /\ (Excused' <=> Excused)
    BY <1>1 DEF TakenByForm, Excused
  <1>10. ASSUME NEW t \in told'
         PROVE  /\ IF t.ok THEN Parses(t.parser)' ELSE ~Parses(t.parser)' \/ Excused'
                /\ t.parser = "text" => text' = IF t.ok THEN "read" ELSE "failed"
    <2>1. Parses(t.parser)' <=> Parses(t.parser)
      BY <1>1 DEF Parses
    <2>2. /\ IF t.ok THEN Parses(t.parser) ELSE ~Parses(t.parser) \/ Excused
          /\ t.parser = "text" => text = IF t.ok THEN "read" ELSE "failed"
      BY <1>6, <1>7, Zenon DEF BodyInv
    <2> QED BY <1>1, <1>9, <2>1, <2>2, Zenon
  <1>11. \A x \in waiting' :
           /\ x.on = "used" => TakenByForm'
           /\ x.parser = "text" => x.on = "text"
    BY <1>2, <1>9 DEF BodyInv
  <1>12. /\ (text = "read" => stream = "ended")'
         /\ (text = "failed" => Excused)'
         /\ (text # "none" => Len(asked) > 0)'
         /\ (webUsed => platform = "bun" /\ Len(asked) > 0)'
         /\ (webUsed /\ text = "none" => \E i \in DOMAIN asked : asked[i] = "form")'
    BY <1>1, <1>9 DEF BodyInv
  <1> QED BY <1>8, <1>10, <1>11, <1>12, Zenon DEF BodyInv, Parses

LEMMA BodyStep ==
  ASSUME Placed, BodyTyped, BodyInv, [Next]_vars
  PROVE  BodyTyped' /\ BodyInv'
  <1>1. CASE Parse
    BY <1>1, ParseBody
  <1>2. CASE Await
    BY <1>2, AwaitBody
  <1>3. CASE ClientEnds \/ ClientAborts \/ TextSettles
    BY <1>3, StreamBody
  <1>4. CASE \/ Stage \/ Chain \/ SetStatus \/ SetHeader \/ Discard \/ Inspect \/ AnswerDirectly \/ Register
             \/ UNCHANGED vars
    BY <1>4, BodySameSteps, BodyKept
  <1> QED BY <1>1, <1>2, <1>3, <1>4, Zenon DEF Next

LEMMA InitChain ==
  ASSUME Init
  PROVE  OrderInv /\ OutcomeInv /\ BodyTyped /\ BodyInv
  <1>1. /\ log = <<>> /\ Len(log) = 0 /\ DOMAIN log = {} /\ asked = <<>> /\ Len(asked) = 0
        /\ phase = "request" /\ at = 0 /\ running = FALSE /\ waiting = {} /\ told = {}
        /\ response = Null /\ error = Null /\ text = "none" /\ stream = "open" /\ webUsed = FALSE
        /\ platform \in {"node", "bun"}
    BY DEF Init
  <1>2. OrderInv
    BY <1>1 DEF OrderInv, Started, Fates
  <1>3. OutcomeInv
    BY <1>1 DEF OutcomeInv
  <1>4. BodyTyped
    BY <1>1, EmptySeq DEF BodyTyped
  <1>5. BodyInv
    BY <1>1 DEF BodyInv
  <1> QED BY <1>2, <1>3, <1>4, <1>5

\* The inductive invariant of a request.  Besides the marks: where execute is, as
\* a function of the last stage that ended; the response and the error it holds
\* are those of the latest stages that answered and threw; and each promise of a
\* parser stands for what became of the body (middleware.ts:49-114, ctx.ts:55-197).
THEOREM ChainInvariant == Spec => []ChainInv
<1>1. Init => OrderInv /\ OutcomeInv /\ BodyTyped /\ BodyInv
  BY InitChain
<1>2. MarksInv /\ (OrderInv /\ OutcomeInv /\ BodyTyped /\ BodyInv) /\ [Next]_vars
        => (OrderInv /\ OutcomeInv /\ BodyTyped /\ BodyInv)'
  BY OrderStep, OutcomeStep, BodyStep DEF MarksInv
<1> QED
  BY <1>1, <1>2, MarksInvariant, PTL DEF Spec, ChainInv

\* Hooks run in registration order, each once, none left out of those registered
\* in time; a short circuit skips the handler and not the response hooks; after
\* an exception only error hooks run, until one recovers: for any number of hooks
\* that any stages register, and any way they end (middleware.ts:49-99).
THEOREM HooksInOrder == Spec => []InOrder
<1>1. ChainInv => InOrder
  <2> SUFFICES ASSUME ChainInv PROVE InOrder
    OBVIOUS
  <2>1. phase \in Fates => log # <<>>
    BY DEF ChainInv, MarksInv, Placed, OrderInv, Started, Fates
  <2> QED BY <2>1 DEF ChainInv, OrderInv, InOrder, Last
<1> QED
  BY <1>1, ChainInvariant, PTL

\* The response of execute is the one the deciding stage returned, or the default
\* one of the exception that decided; and a process goes down only for a default
\* response that cannot be constructed or for a response whose body a hook has
\* read (middleware.ts:8-10, 52-62, 84-99; app.ts:986).
THEOREM OutcomeDecided == Spec => []Outcome
<1>1. ChainInv => Outcome
  BY Zenon DEF ChainInv, OutcomeInv, Outcome
<1> QED
  BY <1>1, ChainInvariant, PTL

\* A parser fails only for a body it cannot parse, for one that did not arrive or,
\* on Bun, for one taken by another parser; and text() never changes what it said,
\* however often and in whatever order parsers are called (ctx.ts:147-197).
THEOREM ParsersHonest == Spec => []ParsersTruthful
<1>1. ChainInv => ParsersTruthful
  <2> SUFFICES ASSUME ChainInv PROVE ParsersTruthful
    OBVIOUS
  <2>1. \A t \in told : IF t.ok THEN Parses(t.parser) ELSE ~Parses(t.parser) \/ Excused
    BY DEF ChainInv, BodyInv
  <2>2. {t.ok : t \in {u \in told : u.parser = "text"}} # BOOLEAN
    <3>1. \A t \in told : t.parser = "text" => text = IF t.ok THEN "read" ELSE "failed"
      BY DEF ChainInv, BodyInv
    <3>2. CASE text = "read"
      <4>1. \A t \in told : t.parser = "text" => t.ok
        BY <3>1, <3>2
      <4>2. FALSE \notin {t.ok : t \in {u \in told : u.parser = "text"}}
        BY <4>1
      <4> QED BY <4>2
    <3>3. CASE text # "read"
      <4>1. \A t \in told : t.parser = "text" => ~t.ok
        BY <3>1, <3>3
      <4>2. TRUE \notin {t.ok : t \in {u \in told : u.parser = "text"}}
        BY <4>1
      <4> QED BY <4>2
    <3> QED BY <3>2, <3>3
  <2> QED BY <2>1, <2>2, Zenon DEF ParsersTruthful, Excused
<1> QED
  BY <1>1, ChainInvariant, PTL
=============================================================================
