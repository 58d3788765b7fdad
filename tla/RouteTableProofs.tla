--------------------------- MODULE RouteTableProofs ---------------------------
(***************************************************************************)
(* Theorems about RouteTable, for any routes and any targets.              *)
(***************************************************************************)
EXTENDS RouteTable, SequenceTheorems, FiniteSetTheorems, WellFoundedInduction, TLAPS

Segment == [param : {TRUE}, name : Keys] \cup [param : {FALSE}, name : DOMAIN Forms]
Edge == DOMAIN Forms \cup {AnyParam}
Segs == Seq(DOMAIN Forms)

-----------------------------------------------------------------------------
\* Natural numbers

LEMMA Smallest ==
  ASSUME NEW T \in SUBSET Nat, T # {}
  PROVE  \E n \in T : \A k \in T : n <= k
  <1>1. PICK R : R = OpToRel(<, Nat)
    OBVIOUS
  <1>2. IsWellFoundedOn(R, Nat)
    BY <1>1, NatLessThanWellFounded
  <1>3. PICK n \in T : \A k \in T : <<k, n>> \notin R
    BY <1>2, WFMin
  <1>4. \A k \in T : <<k, n>> \in R <=> k < n
    BY <1>1 DEF OpToRel
  <1>5. \A k \in T : ~(k < n)
    BY <1>3, <1>4
  <1>6. n \in Nat /\ \A k \in T : k \in Nat
    OBVIOUS
  <1> QED BY <1>5, <1>6

LEMMA Induct ==
  ASSUME NEW S, 0 \in S, \A n \in Nat : n \in S => n + 1 \in S
  PROVE  Nat \subseteq S
  <1> SUFFICES ASSUME Nat \ S # {} PROVE FALSE
    OBVIOUS
  <1>1. PICK n \in Nat \ S : \A k \in Nat \ S : n <= k
    BY Smallest
  <1>2. n # 0 /\ n - 1 \in Nat /\ n - 1 \in S
    BY <1>1
  <1> QED BY <1>1, <1>2

-----------------------------------------------------------------------------
\* The first of the sources that has a route

LEMMA FirstFoundSame ==
  ASSUME NEW A, NEW B, DOMAIN A = DOMAIN B, DOMAIN A \subseteq Nat,
         \A i \in DOMAIN A : A[i].route = B[i].route
  PROVE  FirstFound(A).route = FirstFound(B).route
  <1>1. PICK found : found = {i \in DOMAIN A : A[i].route # 0}
    OBVIOUS
  <1>2. found = {i \in DOMAIN B : B[i].route # 0} /\ found \subseteq DOMAIN A
    BY <1>1
  <1>3. CASE found = {}
    BY <1>1, <1>2, <1>3 DEF FirstFound
  <1>4. CASE found # {}
    <2>1. PICK i : i = CHOOSE k \in found : \A j \in found : k <= j
      OBVIOUS
    <2>2. i \in found
      <3>1. \E n \in found : \A k \in found : n <= k
        BY <1>2, <1>4, Smallest
      <3> QED BY <2>1, <3>1
    <2>3. FirstFound(A) = A[i] /\ FirstFound(B) = B[i]
      BY <1>1, <1>2, <1>4, <2>1 DEF FirstFound
    <2> QED BY <1>2, <2>2, <2>3
  <1> QED BY <1>3, <1>4

-----------------------------------------------------------------------------
\* Patterns, edges and what they fit

LEMMA EdgesType ==
  ASSUME NEW p \in Seq(Segment)
  PROVE  /\ Edges(p) \in Seq(Edge) /\ Len(Edges(p)) = Len(p) /\ DOMAIN p = 1 .. Len(p)
         /\ \A i \in 1 .. Len(p) : /\ Edges(p)[i] = IF p[i].param THEN AnyParam ELSE p[i].name
                                   /\ p[i] \in Segment
                                   /\ p[i].param <=> Edges(p)[i] = AnyParam
  <1>1. Len(p) \in Nat /\ DOMAIN p = 1 .. Len(p) /\ \A i \in 1 .. Len(p) : p[i] \in Segment
    BY LenProperties, ElementOfSeq
  <1>2. \A i \in 1 .. Len(p) : /\ Edges(p)[i] = IF p[i].param THEN AnyParam ELSE p[i].name
                               /\ Edges(p)[i] \in Edge
    BY <1>1 DEF Edges, Segment, Edge
  <1>3. PICK n \in Nat : n = Len(p)
    BY <1>1
  <1>4. Edges(p) \in [1 .. n -> Edge]
    BY <1>1, <1>2, <1>3 DEF Edges
  <1>5. Edges(p) \in Seq(Edge) /\ Len(Edges(p)) = n
    BY <1>4, <1>3
  <1>6. \A i \in 1 .. Len(p) : p[i].param <=> Edges(p)[i] = AnyParam
    BY <1>1, <1>2, RouteAssumption DEF Segment
  <1> QED BY <1>1, <1>2, <1>3, <1>5, <1>6

\* q is a prefix of e.
Pre(q, e) == Len(q) <= Len(e) /\ \A i \in 1 .. Len(q) : q[i] = e[i]

LEMMA PrefixNodes ==
  ASSUME NEW e \in Seq(Edge), NEW q \in Seq(Edge)
  PROVE  q \in {SubSeq(e, 1, i) : i \in DOMAIN e} <=> q # <<>> /\ Pre(q, e)
  <1>1. DOMAIN e = 1 .. Len(e) /\ Len(e) \in Nat /\ Len(q) \in Nat
    BY LenProperties
  <1>2. \A i \in 1 .. Len(e) : /\ SubSeq(e, 1, i) \in Seq(Edge) /\ Len(SubSeq(e, 1, i)) = i
                               /\ \A j \in 1 .. i : SubSeq(e, 1, i)[j] = e[j]
    <2> TAKE i \in 1 .. Len(e)
    <2>1. \A j \in 1 .. i : e[j] \in Edge
      BY <1>1, ElementOfSeq
    <2> QED BY <1>1, <2>1, SubSeqProperties
  <1>3. ASSUME NEW i \in 1 .. Len(e), q = SubSeq(e, 1, i) PROVE q # <<>> /\ Pre(q, e)
    <2>1. Len(q) = i
      BY <1>2, <1>3
    <2>2. q # <<>>
      BY <1>1, <2>1, EmptySeq
    <2> QED BY <1>1, <1>2, <1>3, <2>1, <2>2 DEF Pre
  <1>4. ASSUME q # <<>>, Pre(q, e) PROVE \E i \in 1 .. Len(e) : q = SubSeq(e, 1, i)
    <2>1. Len(q) \in 1 .. Len(e)
      BY <1>1, <1>4, EmptySeq DEF Pre
    <2>2. PICK s : s = SubSeq(e, 1, Len(q))
      OBVIOUS
    <2>3. s \in Seq(Edge) /\ Len(s) = Len(q) /\ \A j \in 1 .. Len(q) : s[j] = q[j]
      BY <1>2, <1>4, <2>1, <2>2 DEF Pre
    <2>4. s = q
      BY <2>3, SeqEqual
    <2> QED BY <2>1, <2>2, <2>4
  <1>5. q \in {SubSeq(e, 1, i) : i \in DOMAIN e} <=> \E i \in 1 .. Len(e) : q = SubSeq(e, 1, i)
    BY <1>1
  <1> QED BY <1>3, <1>4, <1>5

-----------------------------------------------------------------------------
\* The recursive search is defined: it goes one segment further at every call.

Searchable(trie) ==
  /\ DOMAIN trie \subseteq Seq(Edge)
  /\ <<>> \in DOMAIN trie
  /\ \A q \in DOMAIN trie : trie[q].route \in Nat
  /\ \A q \in Seq(Edge) : Append(q, AnyParam) \in DOMAIN trie => trie[Append(q, AnyParam)].key \in Keys

Calls(trie, segs, decode) == (DOMAIN trie) \X Bindings(segs, decode)
Results(segs, decode) == [route : Nat, params : Bindings(segs, decode)]

LEMMA InBindings ==
  ASSUME NEW segs, NEW decode, NEW K \in SUBSET Keys, NEW params \in [K -> Values(segs, decode)]
  PROVE  params \in Bindings(segs, decode)
  BY DEF Bindings

LEMMA NoParamsBound ==
  ASSUME NEW segs, NEW decode
  PROVE  NoParams \in Bindings(segs, decode)
  <1>1. NoParams \in [{} -> Values(segs, decode)] /\ {} \in SUBSET Keys
    BY DEF NoParams
  <1> QED BY <1>1, InBindings

LEMMA PutBound ==
  ASSUME NEW segs, NEW decode, NEW params \in Bindings(segs, decode), NEW k \in Keys,
         NEW v \in Values(segs, decode)
  PROVE  Put(params, k, v) \in Bindings(segs, decode)
  <1>1. PICK K \in SUBSET Keys : params \in [K -> Values(segs, decode)]
    BY DEF Bindings
  <1>2. K \cup {k} \in SUBSET Keys
    BY <1>1
  <1>3. Put(params, k, v) \in [K \cup {k} -> Values(segs, decode)]
    BY <1>1 DEF Put
  <1> QED BY <1>2, <1>3, InBindings

LEMMA WithoutBound ==
  ASSUME NEW segs, NEW decode, NEW params \in Bindings(segs, decode), NEW k
  PROVE  Without(params, k) \in Bindings(segs, decode)
  <1>1. PICK K \in SUBSET Keys : params \in [K -> Values(segs, decode)]
    BY DEF Bindings
  <1>2. K \ {k} \in SUBSET Keys
    BY <1>1
  <1>3. Without(params, k) \in [K \ {k} -> Values(segs, decode)]
    BY <1>1 DEF Without
  <1> QED BY <1>2, <1>3, InBindings

LEMMA ResultFields ==
  ASSUME NEW segs, NEW decode, NEW n \in Nat, NEW params \in Bindings(segs, decode)
  PROVE  /\ Found(n, params) \in Results(segs, decode)
         /\ Found(n, params).route = n /\ Found(n, params).params = params
  BY DEF Found, Results

\* What a node's search yields is decided by the searches of its children.
LEMMA NodeTyped ==
  ASSUME NEW trie, Searchable(trie), NEW segs \in Segs, NEW decode, NEW f, NEW q \in DOMAIN trie,
         NEW params \in Bindings(segs, decode),
         Len(q) < Len(segs) =>
           \A p \in DOMAIN trie, b \in Bindings(segs, decode) :
             Len(p) = Len(q) + 1 => f[<<p, b>>] \in Results(segs, decode)
  PROVE  /\ MatchNode(trie, segs, decode, f, q, params) \in Results(segs, decode)
         /\ \A g : (Len(q) < Len(segs) =>
                      \A p \in DOMAIN trie, b \in Bindings(segs, decode) :
                        Len(p) = Len(q) + 1 => f[<<p, b>>] = g[<<p, b>>])
                   => MatchNode(trie, segs, decode, f, q, params)
                        = MatchNode(trie, segs, decode, g, q, params)
  <1>1. q \in Seq(Edge) /\ trie[q].route \in Nat
    BY DEF Searchable
  <1>2. Len(q) \in Nat /\ Len(segs) \in Nat
    BY <1>1, LenProperties DEF Segs
  <1>3. CASE Len(q) >= Len(segs)
    <2>1. \A g : MatchNode(trie, segs, decode, g, q, params) = Found(trie[q].route, params)
      BY <1>3 DEF MatchNode
    <2> QED BY <1>1, <2>1, ResultFields
  <1>4. CASE Len(q) < Len(segs)
    <2>1. PICK s : s = segs[Len(q) + 1]
      OBVIOUS
    <2>2. s \in DOMAIN Forms /\ decode[s] \in Values(segs, decode)
      <3>1. Len(q) + 1 \in 1 .. Len(segs) /\ DOMAIN segs = 1 .. Len(segs)
        BY <1>2, <1>4, LenProperties DEF Segs
      <3> QED BY <2>1, <3>1, ElementOfSeq DEF Segs, Values
    <2>3. PICK a, c : a = Append(q, s) /\ c = Append(q, AnyParam)
      OBVIOUS
    <2>4. a \in Seq(Edge) /\ Len(a) = Len(q) + 1 /\ c \in Seq(Edge) /\ Len(c) = Len(q) + 1
      BY <1>1, <2>2, <2>3, AppendProperties DEF Edge
    <2>5. PICK static : static = IF a \in DOMAIN trie THEN f[<<a, params>>] ELSE Found(0, params)
      OBVIOUS
    <2>6. static \in Results(segs, decode) /\ static.params \in Bindings(segs, decode)
      <3>1. static \in Results(segs, decode)
        BY <1>4, <2>4, <2>5, ResultFields
      <3> QED BY <3>1 DEF Results
    <2>7. PICK k, b : k = trie[c].key /\ b = Put(static.params, k, decode[s])
      OBVIOUS
    <2>8. c \in DOMAIN trie => k \in Keys /\ b \in Bindings(segs, decode)
      BY <1>1, <2>2, <2>3, <2>6, <2>7, PutBound DEF Searchable
    <2>9. PICK bound : bound = f[<<c, b>>]
      OBVIOUS
    <2>10. c \in DOMAIN trie => /\ bound \in Results(segs, decode)
                                /\ Found(0, Without(bound.params, k)) \in Results(segs, decode)
      <3>1. c \in DOMAIN trie => bound \in Results(segs, decode)
        BY <1>4, <2>4, <2>8, <2>9
      <3>2. c \in DOMAIN trie => bound.params \in Bindings(segs, decode)
        BY <3>1 DEF Results
      <3> QED BY <3>1, <3>2, WithoutBound, ResultFields
    <2>11. ~(Len(q) >= Len(segs))
      BY <1>2, <1>4
    <2>12. MatchNode(trie, segs, decode, f, q, params)
             = IF static.route # 0 \/ c \notin DOMAIN trie THEN static
               ELSE IF bound.route # 0 THEN bound ELSE Found(0, Without(bound.params, k))
      BY <2>1, <2>3, <2>5, <2>7, <2>9, <2>11 DEF MatchNode
    <2>13. MatchNode(trie, segs, decode, f, q, params) \in Results(segs, decode)
      BY <2>6, <2>10, <2>12
    <2>14. ASSUME NEW g, \A p \in DOMAIN trie, e \in Bindings(segs, decode) :
                           Len(p) = Len(q) + 1 => f[<<p, e>>] = g[<<p, e>>]
           PROVE  MatchNode(trie, segs, decode, f, q, params)
                    = MatchNode(trie, segs, decode, g, q, params)
      <3>1. static = IF a \in DOMAIN trie THEN g[<<a, params>>] ELSE Found(0, params)
        BY <2>4, <2>5, <2>14
      <3>2. PICK other : other = g[<<c, b>>]
        OBVIOUS
      <3>3. c \in DOMAIN trie => other = bound
        BY <2>4, <2>8, <2>9, <2>14, <3>2
      <3>4. MatchNode(trie, segs, decode, g, q, params)
              = IF static.route # 0 \/ c \notin DOMAIN trie THEN static
                ELSE IF other.route # 0 THEN other ELSE Found(0, Without(other.params, k))
        BY <2>1, <2>3, <2>7, <2>11, <3>1, <3>2 DEF MatchNode
      <3> QED BY <2>12, <3>3, <3>4
    <2> QED BY <1>4, <2>13, <2>14
  <1> QED BY <1>2, <1>3, <1>4

\* How many segments are left at a node.
Left(segs, q) == IF Len(q) >= Len(segs) THEN 0 ELSE Len(segs) - Len(q)

LEMMA LeftSteps ==
  ASSUME NEW trie, Searchable(trie), NEW segs \in Segs, NEW q \in DOMAIN trie
  PROVE  /\ Left(segs, q) \in Nat /\ Left(segs, q) <= Len(segs)
         /\ Len(q) < Len(segs) =>
              \A p \in DOMAIN trie : Len(p) = Len(q) + 1 => Left(segs, p) + 1 = Left(segs, q)
  <1>1. Len(segs) \in Nat /\ \A p \in DOMAIN trie : Len(p) \in Nat
    BY LenProperties DEF Segs, Searchable
  <1> QED BY <1>1 DEF Left

LEMMA MatchesExist ==
  ASSUME NEW trie, Searchable(trie), NEW segs \in Segs, NEW decode
  PROVE  \E f : f = [at \in Calls(trie, segs, decode) |->
                       MatchNode(trie, segs, decode, f, at[1], at[2])]
  <1> DEFINE D == Calls(trie, segs, decode)
             R == Results(segs, decode)
             Body(f, at) == MatchNode(trie, segs, decode, f, at[1], at[2])
             Solved(f, n) == \A at \in D : Left(segs, at[1]) < n => f[at] = Body(f, at)
             S == {n \in Nat : \E f \in [D -> R] : Solved(f, n)}
  <1>1. \A at \in D : /\ at[1] \in DOMAIN trie /\ at[2] \in Bindings(segs, decode)
                      /\ at = <<at[1], at[2]>>
    BY DEF Calls
  <1>2. \A p \in DOMAIN trie, b \in Bindings(segs, decode) :
          <<p, b>> \in D /\ <<p, b>>[1] = p /\ <<p, b>>[2] = b
    BY DEF Calls
  <1>3. \A f \in [D -> R], at \in D : Body(f, at) \in R
    <2> TAKE f \in [D -> R], at \in D
    <2>1. \A p \in DOMAIN trie, b \in Bindings(segs, decode) : f[<<p, b>>] \in R
      BY <1>2
    <2> QED BY <1>1, <2>1, NodeTyped
  <1>4. 0 \in S
    <2>1. [at \in D |-> Found(0, at[2])] \in [D -> R]
      BY <1>1, ResultFields
    <2>2. \A at \in D : ~(Left(segs, at[1]) < 0)
      BY <1>1, LeftSteps
    <2> QED BY <2>1, <2>2
  <1>5. ASSUME NEW n \in Nat, n \in S PROVE n + 1 \in S
    <2>1. PICK f \in [D -> R] : Solved(f, n)
      BY <1>5
    <2>2. PICK h : h = [at \in D |-> Body(f, at)]
      OBVIOUS
    <2>3. h \in [D -> R]
      <3> HIDE DEF Body, D, R
      <3> QED BY <1>3, <2>2
    <2>4. \A at \in D : Left(segs, at[1]) < n => h[at] = f[at]
      BY <2>1, <2>2
    <2>5. ASSUME NEW at \in D, Left(segs, at[1]) < n + 1 PROVE h[at] = Body(h, at)
      <3>1. PICK q \in DOMAIN trie, params \in Bindings(segs, decode) : q = at[1] /\ params = at[2]
        BY <1>1
      <3>2. \A p \in DOMAIN trie, b \in Bindings(segs, decode) : f[<<p, b>>] \in R
        BY <1>2
      <3>3. Len(q) < Len(segs) =>
              \A p \in DOMAIN trie, b \in Bindings(segs, decode) :
                Len(p) = Len(q) + 1 => f[<<p, b>>] = h[<<p, b>>]
        <4>1. Left(segs, q) \in Nat /\ \A p \in DOMAIN trie : Left(segs, p) \in Nat
          BY LeftSteps
        <4>2. Len(q) < Len(segs) =>
                \A p \in DOMAIN trie : Len(p) = Len(q) + 1 => Left(segs, p) < n
          BY <2>5, <3>1, <4>1, LeftSteps
        <4> QED BY <1>2, <2>4, <4>2
      <3>4. MatchNode(trie, segs, decode, f, q, params) = MatchNode(trie, segs, decode, h, q, params)
        BY <3>2, <3>3, NodeTyped
      <3> QED BY <2>2, <3>1, <3>4
    <2>6. Solved(h, n + 1)
      BY <2>5
    <2> QED BY <2>3, <2>6
  <1>6. Nat \subseteq S
    <2> HIDE DEF S
    <2> QED BY <1>4, <1>5, Induct
  <1>7. Len(segs) \in Nat
    BY LenProperties DEF Segs
  <1>8. PICK f \in [D -> R] : Solved(f, Len(segs) + 1)
    BY <1>6, <1>7
  <1>9. \A at \in D : f[at] = Body(f, at)
    <2>1. \A at \in D : Left(segs, at[1]) < Len(segs) + 1
      BY <1>1, <1>7, LeftSteps
    <2> QED BY <1>8, <2>1
  <1>10. f = [at \in D |-> Body(f, at)]
    <2> HIDE DEF Body, D, R
    <2> QED BY <1>8, <1>9
  <1> QED BY <1>10

LEMMA MatchesFix ==
  ASSUME NEW trie, Searchable(trie), NEW segs \in Segs, NEW decode,
         NEW M, M = Matches(trie, segs, decode)
  PROVE  /\ M \in [Calls(trie, segs, decode) -> Results(segs, decode)]
         /\ \A q \in DOMAIN trie, params \in Bindings(segs, decode) :
              M[<<q, params>>] = MatchNode(trie, segs, decode, M, q, params)
  <1> DEFINE P(g) == g = [at \in Calls(trie, segs, decode) |->
                            MatchNode(trie, segs, decode, g, at[1], at[2])]
  <1>1. M = CHOOSE g : P(g)
    BY DEF Matches, Calls
  <1>2. \E g : P(g)
    BY MatchesExist
  <1>3. P(M)
    <2> HIDE DEF P
    <2> QED BY <1>1, <1>2
  <1>4. \A q \in DOMAIN trie, params \in Bindings(segs, decode) :
          M[<<q, params>>] = MatchNode(trie, segs, decode, M, q, params)
    <2> TAKE q \in DOMAIN trie, params \in Bindings(segs, decode)
    <2>1. <<q, params>> \in Calls(trie, segs, decode) /\ <<q, params>>[1] = q /\ <<q, params>>[2] = params
      BY DEF Calls
    <2> QED BY <1>3, <2>1
  <1> DEFINE S == {n \in Nat : \A q \in DOMAIN trie, params \in Bindings(segs, decode) :
                                  Left(segs, q) = n => M[<<q, params>>] \in Results(segs, decode)}
             Down == {n \in Nat : \A k \in Nat : k <= n => k \in S}
  <1>5. \A q \in DOMAIN trie : Left(segs, q) \in Nat
    BY LeftSteps
  <1>6. ASSUME NEW n \in Nat, \A k \in Nat : k < n => k \in S PROVE n \in S
    <2> SUFFICES ASSUME NEW q \in DOMAIN trie, NEW params \in Bindings(segs, decode), Left(segs, q) = n
                 PROVE  M[<<q, params>>] \in Results(segs, decode)
      OBVIOUS
    <2>1. Len(q) < Len(segs) =>
            \A p \in DOMAIN trie, b \in Bindings(segs, decode) :
              Len(p) = Len(q) + 1 => M[<<p, b>>] \in Results(segs, decode)
      <3>1. Len(q) < Len(segs) =>
              \A p \in DOMAIN trie : Len(p) = Len(q) + 1 => Left(segs, p) < n
        BY <1>5, LeftSteps
      <3> QED BY <1>5, <1>6, <3>1
    <2> QED BY <1>4, <2>1, NodeTyped
  <1>7. 0 \in Down /\ \A n \in Nat : n \in Down => n + 1 \in Down
    <2>1. 0 \in S /\ \A n \in Nat : n \in Down => n + 1 \in S
      <3> HIDE DEF S
      <3> QED BY <1>6
    <2> HIDE DEF S
    <2> QED BY <2>1
  <1>8. Nat \subseteq Down
    <2> HIDE DEF Down
    <2> QED BY <1>7, Induct
  <1>9. \A q \in DOMAIN trie, params \in Bindings(segs, decode) : M[<<q, params>>] \in Results(segs, decode)
    <2>1. \A n \in Nat : n \in S
      <3> HIDE DEF S
      <3> QED BY <1>8
    <2> QED BY <1>5, <2>1
  <1>10. DOMAIN M = Calls(trie, segs, decode) /\ M = [at \in Calls(trie, segs, decode) |-> M[at]]
    BY <1>3
  <1>11. \A at \in Calls(trie, segs, decode) : M[at] \in Results(segs, decode)
    BY <1>9 DEF Calls
  <1> QED BY <1>4, <1>10, <1>11

-----------------------------------------------------------------------------
\* Routes by their paths of edges

Path(list, n) == Edges(list[n].pattern)
ParamRoutes(list, m) == {n \in DOMAIN list : list[n].method = m /\ HasParams(list[n].pattern)}
Through(list, m, q) == {n \in ParamRoutes(list, m) : Pre(q, Path(list, n))}
At(list, m, q) == {n \in ParamRoutes(list, m) : Path(list, n) = q}

IsFirst(n, S) == IF S = {} THEN n = 0 ELSE n \in S /\ \A k \in S : n <= k
TrieOf(trie, list, m) ==
  /\ DOMAIN trie \subseteq Seq(Edge)
  /\ \A q \in Seq(Edge) : q \in DOMAIN trie <=> q = <<>> \/ Through(list, m, q) # {}
  /\ \A q \in DOMAIN trie : trie[q].route \in Nat /\ IsFirst(trie[q].route, At(list, m, q))
  /\ \A q \in Seq(Edge) : Append(q, AnyParam) \in DOMAIN trie =>
       \E n \in Through(list, m, Append(q, AnyParam)) :
         /\ IsFirst(n, Through(list, m, Append(q, AnyParam)))
         /\ trie[Append(q, AnyParam)].key = list[n].pattern[Len(q) + 1].name

LEMMA ListTypes ==
  ASSUME NEW list \in Seq(Registrable)
  PROVE  /\ DOMAIN list = 1 .. Len(list) /\ Len(list) \in Nat
         /\ \A n \in DOMAIN list : /\ n \in Nat \ {0}
                                   /\ list[n] \in Registrable /\ list[n].pattern \in Seq(Segment)
                                   /\ Path(list, n) \in Seq(Edge)
                                   /\ Len(Path(list, n)) = Len(list[n].pattern)
                                   /\ Len(Path(list, n)) \in Nat
  <1>1. DOMAIN list = 1 .. Len(list) /\ Len(list) \in Nat
    BY LenProperties
  <1>2. ASSUME NEW n \in DOMAIN list
        PROVE  list[n] \in Registrable /\ list[n].pattern \in Seq(Segment)
    BY <1>1, ElementOfSeq, RouteAssumption DEF Segment
  <1>3. ASSUME NEW n \in DOMAIN list
        PROVE  /\ Path(list, n) \in Seq(Edge) /\ Len(Path(list, n)) = Len(list[n].pattern)
               /\ Len(Path(list, n)) \in Nat
    BY <1>2, EdgesType, LenProperties DEF Path
  <1> QED BY <1>1, <1>2, <1>3

LEMMA TrieSearchable ==
  ASSUME NEW list \in Seq(Registrable), NEW m, NEW trie, TrieOf(trie, list, m)
  PROVE  Searchable(trie)
  <1>1. <<>> \in DOMAIN trie
    BY EmptySeq DEF TrieOf
  <1>2. ASSUME NEW q \in Seq(Edge), Append(q, AnyParam) \in DOMAIN trie
        PROVE  trie[Append(q, AnyParam)].key \in Keys
    <2>1. PICK c : c = Append(q, AnyParam)
      OBVIOUS
    <2>2. c \in Seq(Edge) /\ Len(c) = Len(q) + 1 /\ c[Len(q) + 1] = AnyParam /\ Len(q) \in Nat
      BY <2>1, AppendProperties, LenProperties DEF Edge
    <2>3. PICK n \in Through(list, m, c) : trie[c].key = list[n].pattern[Len(q) + 1].name
      BY <1>2, <2>1 DEF TrieOf
    <2>4. n \in DOMAIN list /\ Pre(c, Path(list, n))
      BY <2>3 DEF Through, ParamRoutes
    <2>5. PICK p \in Seq(Segment) : p = list[n].pattern
      BY <2>4, ListTypes
    <2>6. Len(q) + 1 \in 1 .. Len(p) /\ Edges(p)[Len(q) + 1] = AnyParam
      BY <2>2, <2>4, <2>5, ListTypes DEF Pre, Path
    <2>7. p[Len(q) + 1] \in Segment /\ p[Len(q) + 1].param
      BY <2>6, EdgesType
    <2> QED BY <2>1, <2>3, <2>5, <2>7 DEF Segment
  <1> QED BY <1>1, <1>2 DEF TrieOf, Searchable

-----------------------------------------------------------------------------
\* Of the routes that fit, the one a search at a node should find

FitsTo(q, segs) == \A i \in 1 .. Len(q) : q[i] = AnyParam \/ q[i] = segs[i]
Candidates(list, m, segs, q) ==
  {n \in Through(list, m, q) : Len(Path(list, n)) = Len(segs) /\ FitsTo(Path(list, n), segs)}

BeforePath(e, f) ==
  \E i \in 1 .. Len(e) : /\ e[i] # AnyParam /\ f[i] = AnyParam
                         /\ \A j \in 1 .. i - 1 : e[j] = AnyParam <=> f[j] = AnyParam
Ahead(list, n, k) ==
  \/ BeforePath(Path(list, n), Path(list, k))
  \/ ~BeforePath(Path(list, k), Path(list, n)) /\ n <= k
IsBest(list, n, S) == IF S = {} THEN n = 0 ELSE n \in S /\ \A k \in S : Ahead(list, n, k)

LEMMA FitsByEdges ==
  ASSUME NEW p \in Seq(Segment), NEW segs \in Segs
  PROVE  Fits(p, segs) <=> Len(Edges(p)) = Len(segs) /\ FitsTo(Edges(p), segs)
  <1>1. \A i \in 1 .. Len(p) : p[i].param \/ p[i].name = segs[i]
                                 <=> Edges(p)[i] = AnyParam \/ Edges(p)[i] = segs[i]
    BY EdgesType
  <1> QED BY <1>1, EdgesType DEF Fits, FitsTo

LEMMA BeforeByEdges ==
  ASSUME NEW p \in Seq(Segment), NEW q \in Seq(Segment), Len(p) = Len(q)
  PROVE  Before(p, q) <=> BeforePath(Edges(p), Edges(q))
  <1>1. \A i \in 1 .. Len(p) : /\ p[i].param <=> Edges(p)[i] = AnyParam
                               /\ q[i].param <=> Edges(q)[i] = AnyParam
                               /\ p[i].param \in BOOLEAN /\ q[i].param \in BOOLEAN
    BY EdgesType DEF Segment
  <1>2. DOMAIN p = 1 .. Len(p) /\ Len(Edges(p)) = Len(p) /\ Len(p) \in Nat
    BY EdgesType, LenProperties
  <1>3. \A i \in 1 .. Len(p) :
          (\A j \in 1 .. i - 1 : p[j].param = q[j].param)
            <=> (\A j \in 1 .. i - 1 : Edges(p)[j] = AnyParam <=> Edges(q)[j] = AnyParam)
    <2> TAKE i \in 1 .. Len(p)
    <2>1. \A j \in 1 .. i - 1 : j \in 1 .. Len(p)
      BY <1>2
    <2>2. \A j \in 1 .. i - 1 : p[j].param = q[j].param
                                  <=> (Edges(p)[j] = AnyParam <=> Edges(q)[j] = AnyParam)
      BY <1>1, <2>1
    <2> QED BY <2>2
  <1> QED BY <1>1, <1>2, <1>3 DEF Before, BeforePath

LEMMA BeforeOneWay ==
  ASSUME NEW e \in Seq(Edge), NEW f \in Seq(Edge), Len(e) = Len(f), BeforePath(e, f)
  PROVE  ~BeforePath(f, e)
  <1> SUFFICES ASSUME BeforePath(f, e) PROVE FALSE
    OBVIOUS
  <1>1. Len(e) \in Nat
    BY LenProperties
  <1>2. PICK i \in 1 .. Len(e) : /\ e[i] # AnyParam /\ f[i] = AnyParam
                                 /\ \A j \in 1 .. i - 1 : e[j] = AnyParam <=> f[j] = AnyParam
    BY DEF BeforePath
  <1>3. PICK k \in 1 .. Len(e) : /\ f[k] # AnyParam /\ e[k] = AnyParam
                                 /\ \A j \in 1 .. k - 1 : f[j] = AnyParam <=> e[j] = AnyParam
    BY DEF BeforePath
  <1>4. i < k \/ k < i \/ i = k
    BY <1>1
  <1>5. ~(i < k)
    BY <1>1, <1>2, <1>3
  <1>6. ~(k < i)
    BY <1>1, <1>2, <1>3
  <1> QED BY <1>2, <1>3, <1>4, <1>5, <1>6

LEMMA CandidateTypes ==
  ASSUME NEW list \in Seq(Registrable), NEW m, NEW segs \in Segs, NEW q,
         NEW n \in Candidates(list, m, segs, q)
  PROVE  /\ n \in Nat \ {0} /\ n \in DOMAIN list /\ Path(list, n) \in Seq(Edge)
         /\ Len(Path(list, n)) = Len(segs) /\ Len(segs) \in Nat
         /\ FitsTo(Path(list, n), segs) /\ Pre(q, Path(list, n))
  <1>1. n \in DOMAIN list /\ Len(Path(list, n)) = Len(segs)
        /\ FitsTo(Path(list, n), segs) /\ Pre(q, Path(list, n))
    BY DEF Candidates, Through, ParamRoutes
  <1> QED BY <1>1, ListTypes

\* There is one best route at most.
LEMMA OneBest ==
  ASSUME NEW list \in Seq(Registrable), NEW m, NEW segs \in Segs, NEW q,
         NEW n, NEW k, IsBest(list, n, Candidates(list, m, segs, q)),
         IsBest(list, k, Candidates(list, m, segs, q))
  PROVE  n = k
  <1>1. CASE Candidates(list, m, segs, q) = {}
    BY <1>1 DEF IsBest
  <1>2. CASE Candidates(list, m, segs, q) # {}
    <2>1. /\ n \in Candidates(list, m, segs, q) /\ k \in Candidates(list, m, segs, q)
          /\ Ahead(list, n, k) /\ Ahead(list, k, n)
      BY <1>2 DEF IsBest
    <2>2. n \in Nat /\ k \in Nat
      BY <2>1, CandidateTypes
    <2>3. BeforePath(Path(list, n), Path(list, k)) => ~BeforePath(Path(list, k), Path(list, n))
      BY <2>1, CandidateTypes, BeforeOneWay
    <2> QED BY <2>1, <2>2, <2>3 DEF Ahead
  <1> QED BY <1>1, <1>2

\* At the end of a path the candidates are alike and the first of them is best.
LEMMA BestAtEnd ==
  ASSUME NEW list \in Seq(Registrable), NEW m, NEW segs \in Segs, NEW q \in Seq(Edge),
         FitsTo(q, segs), Len(q) = Len(segs), NEW n, IsFirst(n, At(list, m, q))
  PROVE  IsBest(list, n, Candidates(list, m, segs, q))
  <1>1. Candidates(list, m, segs, q) = At(list, m, q)
    <2>1. ASSUME NEW k \in Candidates(list, m, segs, q) PROVE k \in At(list, m, q)
      <3>1. /\ Path(list, k) \in Seq(Edge) /\ Len(Path(list, k)) = Len(q)
            /\ \A i \in 1 .. Len(q) : q[i] = Path(list, k)[i]
        BY CandidateTypes DEF Pre
      <3>2. Path(list, k) = q
        BY <3>1, SeqEqual
      <3> QED BY <3>2 DEF Candidates, Through, At
    <2>2. ASSUME NEW k \in At(list, m, q) PROVE k \in Candidates(list, m, segs, q)
      <3>1. Len(q) \in Nat
        BY LenProperties
      <3> QED BY <3>1 DEF At, Candidates, Through, Pre
    <2> QED BY <2>1, <2>2
  <1>2. \A k, l \in At(list, m, q) : ~BeforePath(Path(list, k), Path(list, l))
    BY DEF At, BeforePath
  <1> QED BY <1>1, <1>2 DEF IsFirst, IsBest, Ahead

\* Below a node the candidates go to its two children, and those of the static
\* one are ahead.
Splits(list, m, segs, q, a, c) ==
  /\ a \in Seq(Edge) /\ FitsTo(a, segs) /\ Len(a) = Len(q) + 1
  /\ c \in Seq(Edge) /\ FitsTo(c, segs) /\ Len(c) = Len(q) + 1
  /\ Candidates(list, m, segs, q) = Candidates(list, m, segs, a) \cup Candidates(list, m, segs, c)
  /\ \A n \in Candidates(list, m, segs, a), k \in Candidates(list, m, segs, c) : Ahead(list, n, k)

LEMMA BestBelow ==
  ASSUME NEW list \in Seq(Registrable), NEW m, NEW segs \in Segs, NEW q \in Seq(Edge),
         FitsTo(q, segs), Len(q) < Len(segs),
         NEW a, a = Append(q, segs[Len(q) + 1]), NEW c, c = Append(q, AnyParam)
  PROVE  Splits(list, m, segs, q, a, c)
  <1>1. Len(q) \in Nat /\ Len(segs) \in Nat
    BY LenProperties DEF Segs
  <1>2. PICK l \in Nat : l = Len(q)
    BY <1>1
  <1>3. PICK s : s = segs[l + 1]
    OBVIOUS
  <1>4. s \in DOMAIN Forms /\ s # AnyParam /\ s \in Edge /\ AnyParam \in Edge
    BY <1>1, <1>2, <1>3, ElementOfSeq, RouteAssumption DEF Segs, Edge
  <1>5. /\ a \in Seq(Edge) /\ Len(a) = l + 1 /\ a[l + 1] = s /\ \A i \in 1 .. l : a[i] = q[i]
        /\ c \in Seq(Edge) /\ Len(c) = l + 1 /\ c[l + 1] = AnyParam /\ \A i \in 1 .. l : c[i] = q[i]
    BY <1>2, <1>3, <1>4, AppendProperties
  <1>6. FitsTo(a, segs) /\ FitsTo(c, segs)
    BY <1>2, <1>3, <1>5 DEF FitsTo
  <1>7. ASSUME NEW n \in Candidates(list, m, segs, q)
        PROVE  n \in Candidates(list, m, segs, a) \/ n \in Candidates(list, m, segs, c)
    <2>1. /\ Len(Path(list, n)) = Len(segs) /\ FitsTo(Path(list, n), segs) /\ Pre(q, Path(list, n))
      BY CandidateTypes
    <2>2. Path(list, n)[l + 1] = AnyParam \/ Path(list, n)[l + 1] = s
      BY <1>1, <1>2, <1>3, <2>1 DEF FitsTo
    <2>3. Pre(a, Path(list, n)) \/ Pre(c, Path(list, n))
      <3>1. PICK e : e = Path(list, n)
        OBVIOUS
      <3>2. l + 1 <= Len(e) /\ \A i \in 1 .. l : q[i] = e[i]
        BY <1>1, <1>2, <2>1, <3>1 DEF Pre
      <3>3. \A i \in 1 .. l + 1 : i \in 1 .. l \/ i = l + 1
        BY <1>2
      <3>4. CASE e[l + 1] = s
        BY <1>5, <3>1, <3>2, <3>3, <3>4 DEF Pre
      <3>5. CASE e[l + 1] = AnyParam
        BY <1>5, <3>1, <3>2, <3>3, <3>5 DEF Pre
      <3> QED BY <2>2, <3>1, <3>4, <3>5
    <2> QED BY <2>3 DEF Candidates, Through
  <1>8. ASSUME NEW n \in Candidates(list, m, segs, a) \cup Candidates(list, m, segs, c)
        PROVE  n \in Candidates(list, m, segs, q)
    <2>1. Pre(a, Path(list, n)) \/ Pre(c, Path(list, n))
      BY DEF Candidates, Through
    <2>2. Pre(q, Path(list, n))
      <3>1. PICK e : e = Path(list, n)
        OBVIOUS
      <3>2. Len(e) \in Nat
        BY <3>1, CandidateTypes
      <3>3. \A i \in 1 .. l : i \in 1 .. l + 1
        BY <1>2
      <3>4. ASSUME NEW w, Len(w) = l + 1, \A i \in 1 .. l : w[i] = q[i], Pre(w, e)
            PROVE  Pre(q, e)
        <4>1. l + 1 <= Len(e) /\ \A i \in 1 .. l + 1 : w[i] = e[i]
          BY <3>4 DEF Pre
        <4>2. l <= Len(e) /\ \A i \in 1 .. l : q[i] = e[i]
          BY <1>2, <3>2, <3>3, <3>4, <4>1
        <4> QED BY <1>2, <4>2 DEF Pre
      <3> QED BY <1>5, <2>1, <3>1, <3>4
    <2> QED BY <2>2 DEF Candidates, Through
  <1>9. ASSUME NEW n \in Candidates(list, m, segs, a), NEW k \in Candidates(list, m, segs, c)
        PROVE  Ahead(list, n, k)
    <2>1. PICK e, f : e = Path(list, n) /\ f = Path(list, k)
      OBVIOUS
    <2>2. Len(e) = Len(segs) /\ Pre(a, e) /\ Pre(c, f)
      BY <2>1, CandidateTypes
    <2>3. l + 1 \in 1 .. Len(e) /\ e[l + 1] # AnyParam /\ f[l + 1] = AnyParam
      BY <1>1, <1>2, <1>4, <1>5, <2>2 DEF Pre
    <2>4. \A j \in 1 .. (l + 1) - 1 : e[j] = AnyParam <=> f[j] = AnyParam
      <3>1. \A j \in 1 .. l : a[j] = e[j] /\ c[j] = f[j] /\ a[j] = c[j]
        BY SMTT(30), <1>2, <1>5, <2>2 DEF Pre
      <3> QED BY <1>2, <3>1
    <2>5. BeforePath(e, f)
      BY <2>3, <2>4 DEF BeforePath
    <2> QED BY <2>1, <2>5 DEF Ahead
  <1> QED BY <1>2, <1>5, <1>6, <1>7, <1>8, <1>9 DEF Splits

\* The search of matchRouteTable finds the best candidate below every node on a
\* way that fits, whatever is bound when it gets there.
LEMMA SearchBest ==
  ASSUME NEW list \in Seq(Registrable), NEW m, NEW trie, TrieOf(trie, list, m), NEW segs \in Segs,
         NEW decode, NEW M, M = Matches(trie, segs, decode)
  PROVE  \A q \in DOMAIN trie, params \in Bindings(segs, decode) :
           Len(q) <= Len(segs) /\ FitsTo(q, segs) =>
             IsBest(list, M[<<q, params>>].route, Candidates(list, m, segs, q))
  <1>1. Searchable(trie)
    BY TrieSearchable
  <1>2. Len(segs) \in Nat /\ \A q \in DOMAIN trie : q \in Seq(Edge) /\ Len(q) \in Nat
    BY <1>1, LenProperties DEF Segs, Searchable
  <1>3. \A q \in DOMAIN trie, params \in Bindings(segs, decode) :
          /\ M[<<q, params>>] \in Results(segs, decode)
          /\ M[<<q, params>>] = MatchNode(trie, segs, decode, M, q, params)
    <2>1. M \in [Calls(trie, segs, decode) -> Results(segs, decode)]
      BY <1>1, MatchesFix
    <2>2. \A q \in DOMAIN trie, params \in Bindings(segs, decode) :
            <<q, params>> \in Calls(trie, segs, decode)
      BY DEF Calls
    <2>3. \A q \in DOMAIN trie, params \in Bindings(segs, decode) :
            M[<<q, params>>] = MatchNode(trie, segs, decode, M, q, params)
      BY <1>1, MatchesFix
    <2> QED BY <2>1, <2>2, <2>3
  <1> DEFINE Good(q, params) == IsBest(list, M[<<q, params>>].route, Candidates(list, m, segs, q))
             S == {n \in Nat : \A q \in DOMAIN trie, params \in Bindings(segs, decode) :
                                  Len(q) + n = Len(segs) /\ FitsTo(q, segs) => Good(q, params)}
  <1>4. 0 \in S
    <2> SUFFICES ASSUME NEW q \in DOMAIN trie, NEW params \in Bindings(segs, decode),
                        Len(q) = Len(segs), FitsTo(q, segs)
                 PROVE  Good(q, params)
      BY <1>2
    <2>1. M[<<q, params>>] = Found(trie[q].route, params)
      <3>1. Len(q) >= Len(segs)
        BY <1>2
      <3>2. MatchNode(trie, segs, decode, M, q, params) = Found(trie[q].route, params)
        BY <3>1 DEF MatchNode
      <3> QED BY <1>3, <3>2
    <2>2. M[<<q, params>>].route = trie[q].route
      BY <2>1 DEF Found
    <2>3. IsFirst(trie[q].route, At(list, m, q))
      BY DEF TrieOf
    <2> QED BY <1>2, <2>2, <2>3, BestAtEnd
  <1>5. ASSUME NEW n \in Nat, n \in S PROVE n + 1 \in S
    <2> SUFFICES ASSUME NEW q \in DOMAIN trie, NEW params \in Bindings(segs, decode),
                        Len(q) + (n + 1) = Len(segs), FitsTo(q, segs)
                 PROVE  Good(q, params)
      OBVIOUS
    <2>1. PICK s, a, c : s = segs[Len(q) + 1] /\ a = Append(q, s) /\ c = Append(q, AnyParam)
      OBVIOUS
    <2>2. /\ a \in Seq(Edge) /\ FitsTo(a, segs) /\ Len(a) = Len(q) + 1
          /\ c \in Seq(Edge) /\ FitsTo(c, segs) /\ Len(c) = Len(q) + 1
          /\ Candidates(list, m, segs, q)
               = Candidates(list, m, segs, a) \cup Candidates(list, m, segs, c)
          /\ \A i \in Candidates(list, m, segs, a), k \in Candidates(list, m, segs, c) : Ahead(list, i, k)
      <3>1. q \in Seq(Edge) /\ Len(q) < Len(segs)
        BY <1>2
      <3>2. a = Append(q, segs[Len(q) + 1]) /\ c = Append(q, AnyParam)
        BY <2>1
      <3>3. Splits(list, m, segs, q, a, c)
        BY <3>1, <3>2, BestBelow
      <3> QED BY <3>3 DEF Splits
    <2>3. /\ a \notin DOMAIN trie => Candidates(list, m, segs, a) = {}
          /\ c \notin DOMAIN trie => Candidates(list, m, segs, c) = {}
      BY <2>2 DEF TrieOf, Candidates
    <2>4. \A p \in DOMAIN trie, b \in Bindings(segs, decode) :
            Len(p) = Len(q) + 1 /\ FitsTo(p, segs) => Good(p, b)
      <3>1. \A p \in DOMAIN trie : Len(p) = Len(q) + 1 => Len(p) + n = Len(segs)
        BY <1>2
      <3> QED BY <1>5, <3>1
    <2>5. PICK static : static = IF a \in DOMAIN trie THEN M[<<a, params>>] ELSE Found(0, params)
      OBVIOUS
    <2>6. /\ static.params \in Bindings(segs, decode) /\ static.route \in Nat
          /\ IsBest(list, static.route, Candidates(list, m, segs, a))
      <3>1. static \in Results(segs, decode)
        BY <1>3, <2>5, ResultFields
      <3>2. IsBest(list, static.route, Candidates(list, m, segs, a))
        <4>1. CASE a \in DOMAIN trie
          BY <2>2, <2>4, <2>5, <4>1
        <4>2. CASE a \notin DOMAIN trie
          BY <2>3, <2>5, <4>2, ResultFields DEF IsBest
        <4> QED BY <4>1, <4>2
      <3> QED BY <3>1, <3>2 DEF Results
    <2>7. PICK k, b : k = trie[c].key /\ b = Put(static.params, k, decode[s])
      OBVIOUS
    <2>8. c \in DOMAIN trie => b \in Bindings(segs, decode)
      <3>1. Len(q) + 1 \in 1 .. Len(segs) /\ DOMAIN segs = 1 .. Len(segs)
        BY <1>2, LenProperties DEF Segs
      <3>2. decode[s] \in Values(segs, decode)
        BY <2>1, <3>1 DEF Values
      <3>3. c \in DOMAIN trie => k \in Keys
        BY <1>1, <1>2, <2>1, <2>7 DEF Searchable
      <3> QED BY <2>6, <2>7, <3>2, <3>3, PutBound
    <2>9. PICK bound : bound = M[<<c, b>>]
      OBVIOUS
    <2>10. c \in DOMAIN trie => IsBest(list, bound.route, Candidates(list, m, segs, c))
      BY <2>2, <2>4, <2>8, <2>9
    <2>11. ~(Len(q) >= Len(segs))
      BY <1>2
    <2>12. M[<<q, params>>]
             = IF static.route # 0 \/ c \notin DOMAIN trie THEN static
               ELSE IF bound.route # 0 THEN bound ELSE Found(0, Without(bound.params, k))
      BY Zenon, <1>3, <2>1, <2>5, <2>7, <2>9, <2>11 DEF MatchNode
    <2>13. M[<<q, params>>].route
             = IF static.route # 0 \/ c \notin DOMAIN trie THEN static.route ELSE bound.route
      BY <2>12 DEF Found
    <2>14. \A i \in Candidates(list, m, segs, a) \cup Candidates(list, m, segs, c) : i # 0
      BY CandidateTypes
    <2>15. CASE static.route # 0
      BY <2>2, <2>6, <2>13, <2>15 DEF IsBest
    <2>16. CASE static.route = 0 /\ c \notin DOMAIN trie
      BY <2>2, <2>3, <2>6, <2>13, <2>14, <2>16 DEF IsBest
    <2>17. CASE static.route = 0 /\ c \in DOMAIN trie
      <3>1. Candidates(list, m, segs, a) = {}
        BY <2>6, <2>14, <2>17 DEF IsBest
      <3> QED BY <2>2, <2>10, <2>13, <2>17, <3>1
    <2> QED BY <2>15, <2>16, <2>17
  <1>6. Nat \subseteq S
    <2> HIDE DEF S
    <2> QED BY <1>4, <1>5, Induct
  <1> SUFFICES ASSUME NEW q \in DOMAIN trie, NEW params \in Bindings(segs, decode),
                      Len(q) <= Len(segs), FitsTo(q, segs)
               PROVE  Good(q, params)
    OBVIOUS
  <1>7. PICK n \in Nat : Len(q) + n = Len(segs)
    <2>1. Len(segs) - Len(q) \in Nat /\ Len(q) + (Len(segs) - Len(q)) = Len(segs)
      BY <1>2
    <2> QED BY <2>1
  <1>8. n \in S
    <2> HIDE DEF S
    <2> QED BY <1>6
  <1> QED BY <1>7, <1>8

-----------------------------------------------------------------------------
\* What registering a route does to the tables

LEMMA Appended ==
  ASSUME NEW list \in Seq(Registrable), NEW r \in Registrable, NEW more, more = Append(list, r),
         NEW l, l = Len(list) + 1
  PROVE  /\ more \in Seq(Registrable) /\ l \in Nat
         /\ DOMAIN more = DOMAIN list \cup {l} /\ l \notin DOMAIN list
         /\ \A n \in DOMAIN list : more[n] = list[n] /\ n < l
         /\ more[l] = r
  <1>1. DOMAIN list = 1 .. Len(list) /\ Len(list) \in Nat
    BY ListTypes
  <1>2. /\ more \in Seq(Registrable) /\ Len(more) = Len(list) + 1 /\ DOMAIN more = 1 .. Len(more)
        /\ \A i \in 1 .. Len(list) : more[i] = list[i]
        /\ more[Len(list) + 1] = r
    BY AppendProperties, LenProperties
  <1> QED BY <1>1, <1>2

Grows(old, new, l, grown) == new = old \cup (IF grown THEN {l} ELSE {})
TrieGrows(list, more, r, l, m) ==
  \A q : /\ Grows(Through(list, m, q), Through(more, m, q), l,
                  r.method = m /\ HasParams(r.pattern) /\ Pre(q, Edges(r.pattern)))
         /\ Grows(At(list, m, q), At(more, m, q), l,
                  r.method = m /\ HasParams(r.pattern) /\ Edges(r.pattern) = q)

LEMMA ThroughAppended ==
  ASSUME NEW list \in Seq(Registrable), NEW r \in Registrable, NEW more, more = Append(list, r),
         NEW l, l = Len(list) + 1, NEW m
  PROVE  TrieGrows(list, more, r, l, m)
  <1>1. /\ DOMAIN more = DOMAIN list \cup {l} /\ l \notin DOMAIN list
        /\ \A n \in DOMAIN list : more[n] = list[n]
        /\ more[l] = r
    BY Appended
  <1>2. /\ \A n \in DOMAIN list : Path(more, n) = Path(list, n)
        /\ Path(more, l) = Edges(r.pattern)
    BY <1>1 DEF Path
  <1>3. ParamRoutes(more, m) = ParamRoutes(list, m)
                                 \cup (IF r.method = m /\ HasParams(r.pattern) THEN {l} ELSE {})
    BY <1>1 DEF ParamRoutes
  <1>4. ParamRoutes(list, m) \subseteq DOMAIN list
    BY DEF ParamRoutes
  <1>5. ASSUME NEW q
        PROVE  /\ Grows(Through(list, m, q), Through(more, m, q), l,
                        r.method = m /\ HasParams(r.pattern) /\ Pre(q, Edges(r.pattern)))
               /\ Grows(At(list, m, q), At(more, m, q), l,
                        r.method = m /\ HasParams(r.pattern) /\ Edges(r.pattern) = q)
    BY <1>1, <1>2, <1>3, <1>4 DEF Through, At, Grows
  <1> QED BY <1>5 DEF TrieGrows

LEMMA FirstStays ==
  ASSUME NEW S, NEW n, IsFirst(n, S), NEW l \in Nat, \A k \in S : k \in Nat \ {0} /\ k < l
  PROVE  IF n = 0 THEN S = {} /\ IsFirst(l, S \cup {l}) ELSE IsFirst(n, S \cup {l})
  BY DEF IsFirst

\* A route of another method or without parameters leaves the trie alone.
LEMMA OtherRoute ==
  ASSUME NEW list \in Seq(Registrable), NEW r \in Registrable, NEW more, more = Append(list, r),
         NEW m, NEW trie, TrieOf(trie, list, m), r.method # m \/ ~HasParams(r.pattern)
  PROVE  TrieOf(trie, more, m)
  <1>1. \A q : Through(more, m, q) = Through(list, m, q) /\ At(more, m, q) = At(list, m, q)
    <2>1. PICK l : l = Len(list) + 1
      OBVIOUS
    <2>2. TrieGrows(list, more, r, l, m)
      BY <2>1, ThroughAppended
    <2> QED BY <2>2 DEF TrieGrows, Grows
  <1>2. \A n \in DOMAIN list : more[n] = list[n]
    BY Appended
  <1>3. \A q : Through(list, m, q) \subseteq DOMAIN list
    BY DEF Through, ParamRoutes
  <1> QED BY <1>1, <1>2, <1>3 DEF TrieOf

RouteAt(trie, q) == IF q \in DOMAIN trie THEN trie[q].route ELSE 0
KeyOf(p, q) == IF p[Len(q)].param THEN p[Len(q)].name ELSE NoKey
Inserts(trie, after, p, n, e) ==
  /\ DOMAIN after = DOMAIN trie \cup {q \in Seq(Edge) : q # <<>> /\ Pre(q, e)}
  /\ \A q \in DOMAIN after :
       /\ after[q].key = IF q \in DOMAIN trie THEN trie[q].key ELSE KeyOf(p, q)
       /\ after[q].route = IF q = e /\ RouteAt(trie, q) = 0 THEN n ELSE RouteAt(trie, q)

IsFcn(f) == f = [x \in DOMAIN f |-> f[x]]

\* The nodes of the trie and those on the way to e, none with another route yet.
Grew(trie, grown, p, e) ==
  /\ DOMAIN grown = DOMAIN trie \cup {q \in Seq(Edge) : q # <<>> /\ Pre(q, e)}
  /\ e \in DOMAIN grown
  /\ IsFcn(grown)
  /\ \A q \in DOMAIN grown :
       /\ grown[q].key = IF q \in DOMAIN trie THEN trie[q].key ELSE KeyOf(p, q)
       /\ grown[q].route = RouteAt(trie, q)

LEMMA Grown ==
  ASSUME NEW trie, NEW p \in Seq(Segment), NEW e, e = Edges(p), e # <<>>,
         DOMAIN trie \subseteq Seq(Edge), NEW grown, grown = WithNodes(trie, p)
  PROVE  Grew(trie, grown, p, e)
  <1>1. e \in Seq(Edge) /\ Len(e) \in Nat /\ DOMAIN e = 1 .. Len(e)
    BY EdgesType, LenProperties
  <1>2. PICK nodes : nodes = {SubSeq(e, 1, i) : i \in DOMAIN e}
    OBVIOUS
  <1>3. nodes = {q \in Seq(Edge) : q # <<>> /\ Pre(q, e)} /\ e \in nodes
    <2>1. nodes \subseteq Seq(Edge)
      <3>1. \A i \in 1 .. Len(e) : SubSeq(e, 1, i) \in Seq(Edge)
        <4> TAKE i \in 1 .. Len(e)
        <4>1. \A j \in 1 .. i : e[j] \in Edge
          BY <1>1, ElementOfSeq
        <4> QED BY <1>1, <4>1, SubSeqProperties
      <3> QED BY <1>1, <1>2, <3>1
    <2>2. \A q \in Seq(Edge) : q \in nodes <=> q # <<>> /\ Pre(q, e)
      BY <1>1, <1>2, PrefixNodes
    <2>3. Pre(e, e)
      BY <1>1 DEF Pre
    <2> QED BY <1>1, <2>1, <2>2, <2>3
  <1>5. /\ DOMAIN grown = DOMAIN trie \cup nodes
        /\ \A q \in DOMAIN grown :
             grown[q] = IF q \in DOMAIN trie THEN trie[q] ELSE [route |-> 0, key |-> KeyOf(p, q)]
        /\ grown = [q \in DOMAIN grown |-> grown[q]]
    BY <1>2 DEF WithNodes, KeyOf
  <1>6. \A q \in DOMAIN grown :
          /\ grown[q].key = IF q \in DOMAIN trie THEN trie[q].key ELSE KeyOf(p, q)
          /\ grown[q].route = RouteAt(trie, q)
    <2> TAKE q \in DOMAIN grown
    <2>1. CASE q \in DOMAIN trie
      <3>1. grown[q] = trie[q]
        BY <1>5, <2>1
      <3> QED BY <2>1, <3>1 DEF RouteAt
    <2>2. CASE q \notin DOMAIN trie
      <3>1. grown[q] = [route |-> 0, key |-> KeyOf(p, q)]
        BY <1>5, <2>2
      <3> QED BY <2>2, <3>1 DEF RouteAt
    <2> QED BY <2>1, <2>2
  <1>7. IsFcn(grown)
    BY <1>5 DEF IsFcn
  <1> QED BY <1>3, <1>5, <1>6, <1>7 DEF Grew

LEMMA RouteSet ==
  ASSUME NEW grown, IsFcn(grown), NEW e \in DOMAIN grown, NEW n,
         NEW after, after = WithRoute(grown, e, n)
  PROVE  /\ DOMAIN after = DOMAIN grown
         /\ \A q \in DOMAIN grown : /\ after[q].key = grown[q].key
                                    /\ after[q].route = IF q = e THEN n ELSE grown[q].route
  <1>1. /\ DOMAIN after = DOMAIN grown
        /\ \A q \in DOMAIN grown : after[q] = IF q = e THEN [route |-> n, key |-> grown[e].key]
                                              ELSE grown[q]
    BY DEF WithRoute, IsFcn
  <1> QED BY <1>1

LEMMA Inserted ==
  ASSUME NEW trie, NEW p \in Seq(Segment), NEW n \in Nat, NEW e, e = Edges(p), e # <<>>,
         DOMAIN trie \subseteq Seq(Edge), NEW after, after = InsertParamRoute(trie, p, n)
  PROVE  Inserts(trie, after, p, n, e)
  <1>1. PICK grown : grown = WithNodes(trie, p)
    OBVIOUS
  <1>2. Grew(trie, grown, p, e)
    BY <1>1, Grown
  <1>3. CASE grown[e].route = 0
    <2>1. after = WithRoute(grown, e, n)
      BY <1>1, <1>3 DEF InsertParamRoute
    <2>2. /\ DOMAIN after = DOMAIN grown
          /\ \A q \in DOMAIN grown : /\ after[q].key = grown[q].key
                                     /\ after[q].route = IF q = e THEN n ELSE grown[q].route
      <3>1. IsFcn(grown) /\ e \in DOMAIN grown
        BY <1>2 DEF Grew
      <3> QED BY <2>1, <3>1, RouteSet
    <2> QED BY <1>2, <1>3, <2>2 DEF Inserts, Grew
  <1>4. CASE grown[e].route # 0
    <2>1. after = grown
      BY <1>1, <1>4 DEF InsertParamRoute
    <2> QED BY <1>2, <1>4, <2>1 DEF Inserts, Grew
  <1> QED BY <1>3, <1>4

LEMMA NewRoute ==
  ASSUME NEW list \in Seq(Registrable), NEW r \in Registrable, NEW more, more = Append(list, r),
         NEW l, l = Len(list) + 1, NEW trie, TrieOf(trie, list, r.method), HasParams(r.pattern),
         NEW after, after = InsertParamRoute(trie, r.pattern, l)
  PROVE  TrieOf(after, more, r.method)
  <1>1. PICK m, p, e : m = r.method /\ p = r.pattern /\ e = Edges(p)
    OBVIOUS
  <1>2. /\ p \in Seq(Segment) /\ e \in Seq(Edge) /\ Len(e) = Len(p) /\ Len(p) \in Nat /\ e # <<>>
        /\ \A i \in 1 .. Len(p) : p[i].param <=> e[i] = AnyParam
    <2>1. p \in Seq(Segment)
      BY <1>1, RouteAssumption DEF Segment
    <2>2. /\ e \in Seq(Edge) /\ Len(e) = Len(p) /\ DOMAIN p = 1 .. Len(p) /\ Len(p) \in Nat
          /\ \A i \in 1 .. Len(p) : p[i].param <=> e[i] = AnyParam
      BY <1>1, <2>1, EdgesType, LenProperties
    <2>3. PICK i : i \in DOMAIN p
      BY <1>1 DEF HasParams
    <2>4. Len(e) # 0
      BY <2>2, <2>3
    <2> QED BY <2>1, <2>2, <2>4, EmptySeq
  <1>3. /\ more \in Seq(Registrable) /\ l \in Nat
        /\ \A n \in DOMAIN list : more[n] = list[n] /\ n < l /\ n \in Nat \ {0}
        /\ more[l] = r
    BY Appended, ListTypes
  <1>4. /\ \A q : Through(more, m, q)
                    = Through(list, m, q) \cup (IF Pre(q, e) THEN {l} ELSE {})
        /\ \A q : At(more, m, q) = At(list, m, q) \cup (IF e = q THEN {l} ELSE {})
    <2>1. TrieGrows(list, more, r, l, m)
      BY ThroughAppended
    <2> QED BY <1>1, <2>1 DEF TrieGrows, Grows
  <1>5. /\ DOMAIN after = DOMAIN trie \cup {q \in Seq(Edge) : q # <<>> /\ Pre(q, e)}
        /\ \A q \in DOMAIN after :
             /\ after[q].key = IF q \in DOMAIN trie THEN trie[q].key ELSE KeyOf(p, q)
             /\ after[q].route = IF q = e /\ RouteAt(trie, q) = 0 THEN l ELSE RouteAt(trie, q)
    <2>1. DOMAIN trie \subseteq Seq(Edge) /\ after = InsertParamRoute(trie, p, l)
      BY <1>1 DEF TrieOf
    <2>2. Inserts(trie, after, p, l, e)
      BY <1>1, <1>2, <1>3, <2>1, Inserted
    <2> QED BY <2>2 DEF Inserts
  <1>6. /\ \A q : Through(list, m, q) \subseteq DOMAIN list /\ At(list, m, q) \subseteq DOMAIN list
        /\ \A q \in Seq(Edge) : At(list, m, q) # {} => Through(list, m, q) # {}
    <2>1. \A q \in Seq(Edge) : Pre(q, q)
      BY LenProperties DEF Pre
    <2> QED BY <2>1 DEF Through, At, ParamRoutes
  <1>7. /\ DOMAIN trie \subseteq Seq(Edge)
        /\ \A q \in Seq(Edge) : q \in DOMAIN trie <=> q = <<>> \/ Through(list, m, q) # {}
        /\ \A q \in DOMAIN trie : trie[q].route \in Nat /\ IsFirst(trie[q].route, At(list, m, q))
        /\ \A q \in Seq(Edge) : Append(q, AnyParam) \in DOMAIN trie =>
             \E n \in Through(list, m, Append(q, AnyParam)) :
               /\ IsFirst(n, Through(list, m, Append(q, AnyParam)))
               /\ trie[Append(q, AnyParam)].key = list[n].pattern[Len(q) + 1].name
    BY <1>1 DEF TrieOf
  <1>8. DOMAIN after \subseteq Seq(Edge)
    BY <1>5, <1>7
  <1>9. \A q \in Seq(Edge) : q \in DOMAIN after <=> q = <<>> \/ Through(more, m, q) # {}
    <2> TAKE q \in Seq(Edge)
    <2>1. q \in DOMAIN after <=> q \in DOMAIN trie \/ (q # <<>> /\ Pre(q, e))
      BY <1>5
    <2>2. Through(more, m, q) # {} <=> Through(list, m, q) # {} \/ Pre(q, e)
      BY <1>4
    <2> QED BY <1>7, <2>1, <2>2
  <1>10. ASSUME NEW q \in DOMAIN after
         PROVE  after[q].route \in Nat /\ IsFirst(after[q].route, At(more, m, q))
    <2>1. PICK was : was = RouteAt(trie, q)
      OBVIOUS
    <2>2. was \in Nat /\ IsFirst(was, At(list, m, q))
      <3>1. CASE q \in DOMAIN trie
        BY <1>7, <2>1, <3>1 DEF RouteAt
      <3>2. CASE q \notin DOMAIN trie
        <4>1. At(list, m, q) = {}
          BY <1>6, <1>7, <1>8, <3>2
        <4> QED BY <2>1, <3>2, <4>1 DEF IsFirst, RouteAt
      <3> QED BY <3>1, <3>2
    <2>3. after[q].route = IF q = e /\ was = 0 THEN l ELSE was
      BY <1>5, <2>1
    <2>4. \A k \in At(list, m, q) : k \in Nat \ {0} /\ k < l
      BY <1>3, <1>6
    <2>5. CASE q = e
      <3>1. At(more, m, q) = At(list, m, q) \cup {l}
        BY <1>4, <2>5
      <3>2. IF was = 0 THEN IsFirst(l, At(list, m, q) \cup {l}) ELSE IsFirst(was, At(list, m, q) \cup {l})
        BY <1>3, <2>2, <2>4, FirstStays
      <3> QED BY <1>3, <2>2, <2>3, <2>5, <3>1, <3>2
    <2>6. CASE q # e
      <3>1. At(more, m, q) = At(list, m, q)
        BY ZenonT(60), <1>4, <2>6
      <3> QED BY <2>2, <2>3, <2>6, <3>1
    <2> QED BY <2>5, <2>6
  <1>11. ASSUME NEW q \in Seq(Edge), Append(q, AnyParam) \in DOMAIN after
         PROVE  \E n \in Through(more, m, Append(q, AnyParam)) :
                  /\ IsFirst(n, Through(more, m, Append(q, AnyParam)))
                  /\ after[Append(q, AnyParam)].key = more[n].pattern[Len(q) + 1].name
    <2>1. PICK c : c = Append(q, AnyParam)
      OBVIOUS
    <2>2. c \in Seq(Edge) /\ Len(c) = Len(q) + 1 /\ c[Len(q) + 1] = AnyParam /\ Len(q) \in Nat
      BY <2>1, AppendProperties, LenProperties DEF Edge
    <2>3. CASE c \in DOMAIN trie
      <3>1. PICK n \in Through(list, m, c) : /\ IsFirst(n, Through(list, m, c))
                                            /\ trie[c].key = list[n].pattern[Len(q) + 1].name
        BY <1>7, <2>1, <2>3
      <3>2. after[c].key = trie[c].key
        BY <1>5, <2>3
      <3>3. more[n] = list[n] /\ n \in Through(more, m, c)
        BY <1>3, <1>4, <1>6
      <3>4. IsFirst(n, Through(more, m, c))
        <4>1. \A k \in Through(list, m, c) : n <= k
          BY <3>1 DEF IsFirst
        <4>2. n <= l
          BY <1>3, <1>6
        <4>3. \A k \in Through(more, m, c) : k \in Through(list, m, c) \/ k = l
          BY <1>4
        <4> QED BY <3>3, <4>1, <4>2, <4>3 DEF IsFirst
      <3> QED BY <2>1, <3>1, <3>2, <3>3, <3>4
    <2>4. CASE c \notin DOMAIN trie
      <3>1. Pre(c, e)
        BY <1>5, <1>11, <2>1, <2>4
      <3>2. Len(q) + 1 \in 1 .. Len(p) /\ p[Len(q) + 1].param
        BY <1>2, <2>2, <3>1 DEF Pre
      <3>3. after[c].key = p[Len(q) + 1].name
        BY <1>5, <1>11, <2>1, <2>2, <2>4, <3>2 DEF KeyOf
      <3>4. l \in Through(more, m, c) /\ more[l].pattern = p
        BY <1>1, <1>3, <1>4, <3>1
      <3>5. IsFirst(l, Through(more, m, c))
        <4>1. Through(list, m, c) = {}
          BY <1>7, <2>2, <2>4
        <4>2. Through(more, m, c) = {l}
          BY <1>4, <3>1, <4>1
        <4> QED BY <1>3, <4>2 DEF IsFirst
      <3> QED BY <2>1, <3>3, <3>4, <3>5
    <2> QED BY <2>3, <2>4
  <1> QED BY <1>1, <1>8, <1>9, <1>10, <1>11 DEF TrieOf

\* The exact routes of one path, of which the last is the one to find.
ExactAt(list, m, q) ==
  {n \in DOMAIN list : list[n].method = m /\ ~HasParams(list[n].pattern) /\ Path(list, n) = q}
IsLast(n, S) == IF S = {} THEN n = 0 ELSE n \in S /\ \A k \in S : k <= n
ExactOf(map, list) == \A m, q : IsLast(Get(map, <<m, q>>), ExactAt(list, m, q))

ExactGrows(list, more, r, l) ==
  \A m, q : Grows(ExactAt(list, m, q), ExactAt(more, m, q), l,
                  r.method = m /\ ~HasParams(r.pattern) /\ Edges(r.pattern) = q)

LEMMA ExactAppended ==
  ASSUME NEW list \in Seq(Registrable), NEW r \in Registrable, NEW more, more = Append(list, r),
         NEW l, l = Len(list) + 1
  PROVE  ExactGrows(list, more, r, l)
  <1>1. /\ DOMAIN more = DOMAIN list \cup {l} /\ l \notin DOMAIN list
        /\ \A n \in DOMAIN list : more[n] = list[n]
        /\ more[l] = r
    BY Appended
  <1>2. /\ \A n \in DOMAIN list : Path(more, n) = Path(list, n)
        /\ Path(more, l) = Edges(r.pattern)
    BY <1>1 DEF Path
  <1>3. ASSUME NEW m, NEW q
        PROVE  Grows(ExactAt(list, m, q), ExactAt(more, m, q), l,
                     r.method = m /\ ~HasParams(r.pattern) /\ Edges(r.pattern) = q)
    BY <1>1, <1>2 DEF ExactAt, Grows
  <1> QED BY <1>3 DEF ExactGrows

LEMMA NewExact ==
  ASSUME NEW list \in Seq(Registrable), NEW r \in Registrable, NEW more, more = Append(list, r),
         NEW l, l = Len(list) + 1, NEW map, ExactOf(map, list)
  PROVE  /\ HasParams(r.pattern) => ExactOf(map, more)
         /\ ~HasParams(r.pattern) => ExactOf(Put(map, <<r.method, Edges(r.pattern)>>, l), more)
  <1>1. \A m, q : ExactAt(more, m, q)
                    = ExactAt(list, m, q)
                        \cup (IF r.method = m /\ ~HasParams(r.pattern) /\ Edges(r.pattern) = q
                              THEN {l} ELSE {})
    <2>1. ExactGrows(list, more, r, l)
      BY ExactAppended
    <2> QED BY <2>1 DEF ExactGrows, Grows
  <1>2. l \in Nat /\ \A m, q : \A n \in ExactAt(list, m, q) : n \in Nat /\ n < l
    BY Appended, ListTypes DEF ExactAt
  <1>3. CASE HasParams(r.pattern)
    <2>1. \A m, q : ExactAt(more, m, q) = ExactAt(list, m, q)
      BY <1>1, <1>3
    <2> QED BY <1>3, <2>1 DEF ExactOf
  <1>4. CASE ~HasParams(r.pattern)
    <2>1. PICK k, after : k = <<r.method, Edges(r.pattern)>> /\ after = Put(map, k, l)
      OBVIOUS
    <2>2. \A x : Get(after, x) = IF x = k THEN l ELSE Get(map, x)
      BY <2>1 DEF Put, Get
    <2>3. ASSUME NEW m, NEW q PROVE IsLast(Get(after, <<m, q>>), ExactAt(more, m, q))
      <3>1. CASE r.method = m /\ Edges(r.pattern) = q
        <4>1. Get(after, <<m, q>>) = l
          <5>1. <<m, q>> = k
            BY <2>1, <3>1
          <5> QED BY <2>2, <5>1
        <4>2. ExactAt(more, m, q) = ExactAt(list, m, q) \cup {l}
          BY <1>1, <1>4, <3>1
        <4> QED BY SMTT(30), <1>2, <4>1, <4>2 DEF IsLast
      <3>2. CASE ~(r.method = m /\ Edges(r.pattern) = q)
        <4>1. Get(after, <<m, q>>) = Get(map, <<m, q>>)
          <5>1. <<m, q>> # k
            BY <2>1, <3>2
          <5> QED BY <2>2, <5>1
        <4>2. ExactAt(more, m, q) = ExactAt(list, m, q)
          BY ZenonT(60), <1>1, <3>2
        <4> QED BY <4>1, <4>2 DEF ExactOf
      <3> QED BY <3>1, <3>2
    <2> QED BY <1>4, <2>1, <2>3 DEF ExactOf
  <1> QED BY <1>3, <1>4

-----------------------------------------------------------------------------
\* The tables of an app are those of the routes it has registered.
RouterInv ==
  /\ routes \in Seq(Registrable)
  /\ ExactOf(exact, routes)
  /\ DOMAIN tries = Methods
  /\ \A m \in Methods : TrieOf(tries[m], routes, m)

LEMMA RouterInit == Init => RouterInv
  <1> SUFFICES ASSUME Init PROVE RouterInv
    OBVIOUS
  <1>1. routes = <<>> /\ exact = <<>> /\ tries = EmptyTries
    BY DEF Init
  <1>2. routes \in Seq(Registrable) /\ DOMAIN routes = {}
    BY <1>1
  <1>3. ExactOf(exact, routes)
    <2>1. \A x : Get(exact, x) = 0
      BY <1>1 DEF Get
    <2> QED BY <1>2, <2>1 DEF ExactOf, ExactAt, IsLast
  <1>4. DOMAIN tries = Methods /\ \A m \in Methods : tries[m] = EmptyTrie
    BY <1>1 DEF EmptyTries
  <1>5. ASSUME NEW m PROVE TrieOf(EmptyTrie, routes, m)
    <2>1. DOMAIN EmptyTrie = {<<>>} /\ EmptyTrie[<<>>].route = 0
      BY DEF EmptyTrie
    <2>2. \A q : Through(routes, m, q) = {} /\ At(routes, m, q) = {}
      BY <1>2 DEF Through, At, ParamRoutes
    <2>3. \A q \in Seq(Edge) : Append(q, AnyParam) # <<>>
      BY AppendProperties DEF Edge
    <2> QED BY <2>1, <2>2, <2>3, EmptySeq DEF TrieOf, IsFirst
  <1> QED BY <1>2, <1>3, <1>4, <1>5 DEF RouterInv

LEMMA RouterStep == RouterInv /\ [Next]_vars => RouterInv'
  <1> SUFFICES ASSUME RouterInv, [Next]_vars PROVE RouterInv'
    OBVIOUS
  <1>1. ASSUME NEW r \in Registrable, Register(r) PROVE RouterInv'
    <2>1. PICK l : l = Len(routes) + 1
      OBVIOUS
    <2>2. routes' = Append(routes, r) /\ routes \in Seq(Registrable) /\ r.method \in Methods
      BY <1>1, RouteAssumption DEF Register, RouterInv
    <2>3. routes' \in Seq(Registrable)
      BY <2>2, AppendProperties
    <2>4. CASE HasParams(r.pattern)
      <3>1. /\ exact' = exact
            /\ tries' = [tries EXCEPT ![r.method] = InsertParamRoute(tries[r.method], r.pattern, l)]
        BY <1>1, <2>1, <2>4 DEF Register, NewNumber
      <3>2. ExactOf(exact', routes')
        BY <2>2, <2>4, <3>1, NewExact DEF RouterInv
      <3>3. ASSUME NEW m \in Methods PROVE TrieOf(tries'[m], routes', m)
        <4>1. CASE m = r.method
          <5>1. tries'[m] = InsertParamRoute(tries[m], r.pattern, l) /\ TrieOf(tries[m], routes, m)
            BY <3>1, <4>1 DEF RouterInv
          <5> QED BY <2>1, <2>2, <2>4, <4>1, <5>1, NewRoute
        <4>2. CASE m # r.method
          <5>1. tries'[m] = tries[m] /\ TrieOf(tries[m], routes, m)
            BY <3>1, <4>2 DEF RouterInv
          <5> QED BY <2>2, <4>2, <5>1, OtherRoute
        <4> QED BY <4>1, <4>2
      <3>4. DOMAIN tries' = Methods
        BY <3>1 DEF RouterInv
      <3> QED BY <2>3, <3>2, <3>3, <3>4 DEF RouterInv
    <2>5. CASE ~HasParams(r.pattern)
      <3>1. /\ exact' = Put(exact, <<r.method, Edges(r.pattern)>>, l)
            /\ tries' = tries
        BY <1>1, <2>1, <2>5 DEF Register, NewNumber
      <3>2. ExactOf(exact', routes')
        BY <2>1, <2>2, <2>5, <3>1, NewExact DEF RouterInv
      <3>3. \A m \in Methods : TrieOf(tries'[m], routes', m)
        BY <2>2, <2>5, <3>1, OtherRoute DEF RouterInv
      <3> QED BY <2>3, <3>1, <3>2, <3>3 DEF RouterInv
    <2> QED BY <2>4, <2>5
  <1>2. CASE ListenBun \/ ListenRust \/ UNCHANGED vars
    <2>1. UNCHANGED <<routes, exact, tries>>
      BY <1>2 DEF ListenBun, ListenRust, vars
    <2> QED BY <2>1 DEF RouterInv
  <1> QED BY <1>1, <1>2 DEF Next

\* The inductive invariant of addRoute: the map holds the last exact route of each
\* path, and the trie of a method has the nodes its parameter routes go through,
\* each with the first route that ends there and the key of the first that goes
\* through (app.ts:446-495).
THEOREM RouterInvariant == Spec => []RouterInv
  BY RouterInit, RouterStep, PTL DEF Spec

-----------------------------------------------------------------------------
LEMMA NormalizedType ==
  ASSUME NEW t \in Targets
  PROVE  /\ NormalizePath(t) \in Segs
         /\ \A i \in DOMAIN NormalizePath(t) : /\ i \in DOMAIN t.path
                                               /\ NormalizePath(t)[i] = t.path[i]
  <1>1. t.path \in Segs /\ DOMAIN t.path = 1 .. Len(t.path) /\ Len(t.path) \in Nat
    BY RouteAssumption, LenProperties DEF Segs
  <1>2. PICK solid : solid = Filled(t)
    OBVIOUS
  <1>3. PICK n : n = IF solid = {} THEN 0 ELSE CHOOSE i \in solid : \A j \in solid : j <= i
    OBVIOUS
  <1>4. NormalizePath(t) = SubSeq(t.path, 1, n)
    BY <1>2, <1>3 DEF NormalizePath
  <1>5. n \in 0 .. Len(t.path)
    <2>1. CASE solid = {}
      BY <1>1, <1>3, <2>1
    <2>2. CASE solid # {}
      <3>1. PICK T : T = {k \in Nat : Len(t.path) - k \in solid}
        OBVIOUS
      <3>2. PICK i \in solid : TRUE
        BY <2>2
      <3>3. \A j \in solid : j \in 1 .. Len(t.path)
        <4>1. Filled(t) \subseteq DOMAIN t.path
          BY Zenon DEF Filled
        <4> QED BY <1>1, <1>2, <4>1
      <3>4. T \subseteq Nat /\ Len(t.path) - i \in T
        BY <1>1, <3>1, <3>2, <3>3
      <3>5. PICK k \in T : \A x \in T : k <= x
        BY <3>4, Smallest
      <3>6. PICK g \in solid : g = Len(t.path) - k
        BY <3>1
      <3>7. \A j \in solid : Len(t.path) - j \in T
        BY <1>1, <3>1, <3>3
      <3>8. \A j \in solid : j <= g
        <4> TAKE j \in solid
        <4>1. k <= Len(t.path) - j
          BY <3>5, <3>7
        <4> QED BY <1>1, <3>3, <3>4, <3>6, <4>1
      <3>9. n \in solid
        BY <1>3, <2>2, <3>8
      <3> QED BY <1>1, <3>3, <3>9
    <2> QED BY <2>1, <2>2
  <1>6. \A i \in 1 .. n : t.path[i] \in DOMAIN Forms
    BY <1>1, <1>5, ElementOfSeq DEF Segs
  <1>7. PICK segs : segs = SubSeq(t.path, 1, n)
    OBVIOUS
  <1>8. segs \in Segs /\ Len(segs) = n /\ \A i \in 1 .. n : segs[i] = t.path[i]
    BY <1>5, <1>6, <1>7, SubSeqProperties DEF Segs
  <1>9. DOMAIN segs = 1 .. n
    BY <1>8, LenProperties DEF Segs
  <1> QED BY <1>1, <1>4, <1>5, <1>7, <1>8, <1>9

LEMMA FoundExact ==
  ASSUME NEW list \in Seq(Registrable), NEW map, ExactOf(map, list), NEW m, NEW segs \in Segs
  PROVE  Get(map, <<m, segs>>) = LastExact(list, m, segs)
  <1>1. PICK same : same = {n \in DOMAIN list : /\ list[n].method = m
                                                /\ ~HasParams(list[n].pattern)
                                                /\ Fits(list[n].pattern, segs)}
    OBVIOUS
  <1>2. ASSUME NEW n \in DOMAIN list, ~HasParams(list[n].pattern)
        PROVE  Fits(list[n].pattern, segs) <=> Path(list, n) = segs
    <2>1. PICK p \in Seq(Segment) : p = list[n].pattern
      BY ListTypes
    <2>2. /\ Len(Edges(p)) = Len(p) /\ DOMAIN p = 1 .. Len(p) /\ Edges(p) \in Seq(Edge)
          /\ \A i \in 1 .. Len(p) : Edges(p)[i] # AnyParam
      BY <1>2, <2>1, EdgesType DEF HasParams
    <2>3. segs \in Seq(Edge) /\ Len(segs) \in Nat
      <3>1. DOMAIN segs = 1 .. Len(segs) /\ Len(segs) \in Nat /\ \A i \in 1 .. Len(segs) : segs[i] \in Edge
        BY LenProperties, ElementOfSeq DEF Segs, Edge
      <3> QED BY <3>1 DEF Segs
    <2>4. Fits(p, segs) <=> Len(Edges(p)) = Len(segs) /\ \A i \in 1 .. Len(p) : Edges(p)[i] = segs[i]
      BY <2>2, FitsByEdges DEF FitsTo
    <2>5. Len(Edges(p)) = Len(segs) /\ (\A i \in 1 .. Len(p) : Edges(p)[i] = segs[i]) => Edges(p) = segs
      BY <2>2, <2>3, SeqEqual
    <2> QED BY <2>1, <2>4, <2>5 DEF Path
  <1>3. same = ExactAt(list, m, segs)
    BY <1>1, <1>2 DEF ExactAt
  <1>4. IsLast(Get(map, <<m, segs>>), same)
    BY <1>3 DEF ExactOf
  <1>5. \A n \in same : n \in Nat
    BY <1>1, ListTypes
  <1>6. LastExact(list, m, segs) = IF same = {} THEN 0 ELSE CHOOSE n \in same : \A k \in same : k <= n
    BY <1>1 DEF LastExact
  <1>7. ASSUME NEW n \in same, NEW k \in same, \A x \in same : x <= n, \A x \in same : x <= k
        PROVE  n = k
    BY <1>5, <1>7
  <1> QED BY <1>4, <1>6, <1>7 DEF IsLast

LEMMA FoundBest ==
  ASSUME NEW list \in Seq(Registrable), NEW m, NEW trie, TrieOf(trie, list, m), NEW segs \in Segs,
         NEW decode
  PROVE  MatchRouteTable(trie, segs, decode).route = BestParam(list, m, segs)
  <1>1. PICK M : M = Matches(trie, segs, decode)
    OBVIOUS
  <1>2. PICK S : S = Candidates(list, m, segs, <<>>)
    OBVIOUS
  <1>3. IsBest(list, M[<<<<>>, NoParams>>].route, S)
    <2>1. <<>> \in DOMAIN trie /\ NoParams \in Bindings(segs, decode)
      BY NoParamsBound, EmptySeq DEF TrieOf
    <2>2. Len(<<>>) <= Len(segs) /\ FitsTo(<<>>, segs)
      BY LenProperties DEF FitsTo, Segs
    <2> QED BY <1>1, <1>2, <2>1, <2>2, SearchBest
  <1> DEFINE fit == {n \in DOMAIN list : /\ list[n].method = m
                                         /\ HasParams(list[n].pattern)
                                         /\ Fits(list[n].pattern, segs)}
             Beats(n, k) == \/ Before(list[n].pattern, list[k].pattern)
                            \/ ~Before(list[k].pattern, list[n].pattern) /\ n <= k
             best == CHOOSE n \in fit : \A k \in fit : Beats(n, k)
  <1>4. S = fit
    <2>1. \A n \in DOMAIN list : Fits(list[n].pattern, segs)
                                   <=> Len(Path(list, n)) = Len(segs) /\ FitsTo(Path(list, n), segs)
      BY ListTypes, FitsByEdges DEF Path
    <2>2. \A n \in DOMAIN list : Pre(<<>>, Path(list, n))
      BY ListTypes DEF Pre
    <2> QED BY <1>2, <2>1, <2>2 DEF Candidates, Through, ParamRoutes
  <1>5. \A n, k \in fit : Ahead(list, n, k) <=> Beats(n, k)
    <2> TAKE n, k \in fit
    <2>1. /\ list[n].pattern \in Seq(Segment) /\ list[k].pattern \in Seq(Segment)
          /\ Len(list[n].pattern) = Len(list[k].pattern)
      BY ListTypes DEF Fits
    <2> QED BY <2>1, BeforeByEdges DEF Ahead, Path
  <1>6. BestParam(list, m, segs) = IF fit = {} THEN 0 ELSE best
    BY DEF BestParam
  <1>7. PICK found : found = M[<<<<>>, NoParams>>].route
    OBVIOUS
  <1>8. CASE fit = {}
    BY <1>1, <1>3, <1>4, <1>6, <1>8 DEF IsBest, MatchRouteTable
  <1>9. CASE fit # {}
    <2>1. found \in fit /\ \A k \in fit : Beats(found, k)
      BY <1>3, <1>4, <1>5, <1>7, <1>9 DEF IsBest
    <2>2. best \in fit /\ \A k \in fit : Beats(best, k)
      <3> HIDE DEF fit, Beats
      <3> QED BY <2>1
    <2>3. IsBest(list, best, S)
      <3> HIDE DEF fit, Beats, best
      <3> QED BY <1>4, <1>5, <1>9, <2>2 DEF IsBest
    <2>4. best = found
      <3> HIDE DEF fit, Beats, best
      <3> QED BY <1>2, <1>3, <1>7, <2>3, OneBest
    <2> HIDE DEF fit, Beats, best
    <2> QED BY <1>1, <1>6, <1>7, <1>9, <2>4 DEF MatchRouteTable
  <1> QED BY <1>8, <1>9

\* findRoute finds the route the documented precedence asks for: the last exact
\* route, else, with the backtracking of matchRouteTable, the parameter route that
\* is static where two first differ, the first registered of two alike
\* (app.ts:525-620).
THEOREM PrecedenceKept == Spec => []RoutesByPrecedence
<1>1. RouterInv => RoutesByPrecedence
  <2> SUFFICES ASSUME RouterInv, NEW m \in Methods, NEW t \in Targets
               PROVE  FindRoute(m, t).route = Expected(m, NormalizePath(t)).route
    BY DEF RoutesByPrecedence
  <2>1. PICK segs \in Segs : segs = NormalizePath(t)
    BY NormalizedType
  <2>2. \A x : Plain(Get(exact, <<x, segs>>)) = Plain(LastExact(routes, x, segs))
    BY FoundExact DEF RouterInv
  <2>3. \A x \in Methods : MatchRouteTable(tries[x], segs, Decoded).route
                             = Plain(BestParam(routes, x, segs)).route
    BY FoundBest DEF RouterInv, Plain, Found
  <2>4. CASE m = "HEAD"
    <3>1. PICK A : A = <<Plain(Get(exact, <<"HEAD", segs>>)), Plain(Get(exact, <<"GET", segs>>)),
                         MatchRouteTable(tries["HEAD"], segs, Decoded),
                         MatchRouteTable(tries["GET"], segs, Decoded)>>
      OBVIOUS
    <3>2. PICK B : B = <<Plain(LastExact(routes, "HEAD", segs)), Plain(LastExact(routes, "GET", segs)),
                         Plain(BestParam(routes, "HEAD", segs)), Plain(BestParam(routes, "GET", segs))>>
      OBVIOUS
    <3>3. FindRoute(m, t) = FirstFound(A) /\ Expected(m, segs) = FirstFound(B)
      BY <2>1, <2>4, <3>1, <3>2 DEF FindRoute, Expected
    <3>4. DOMAIN A = 1 .. 4 /\ DOMAIN B = 1 .. 4
      BY <3>1, <3>2
    <3>5. "HEAD" \in Methods /\ "GET" \in Methods
      BY <2>4, RouteAssumption
    <3>6. \A i \in 1 .. 4 : A[i].route = B[i].route
      BY <2>2, <2>3, <3>1, <3>2, <3>5
    <3>7. FirstFound(A).route = FirstFound(B).route
      BY <3>4, <3>6, FirstFoundSame
    <3> QED BY <2>1, <3>3, <3>7
  <2>5. CASE m # "HEAD"
    <3>1. PICK A : A = <<Plain(Get(exact, <<m, segs>>)), MatchRouteTable(tries[m], segs, Decoded)>>
      OBVIOUS
    <3>2. PICK B : B = <<Plain(LastExact(routes, m, segs)), Plain(BestParam(routes, m, segs))>>
      OBVIOUS
    <3>3. FindRoute(m, t) = FirstFound(A) /\ Expected(m, segs) = FirstFound(B)
      BY <2>1, <2>5, <3>1, <3>2 DEF FindRoute, Expected
    <3>4. DOMAIN A = 1 .. 2 /\ DOMAIN B = 1 .. 2
      BY <3>1, <3>2
    <3>5. \A i \in 1 .. 2 : A[i].route = B[i].route
      BY <2>2, <2>3, <3>1, <3>2
    <3>6. FirstFound(A).route = FirstFound(B).route
      BY <3>4, <3>5, FirstFoundSame
    <3> QED BY <2>1, <3>3, <3>6
  <2> QED BY <2>4, <2>5
<1> QED
  BY <1>1, RouterInvariant, PTL

-----------------------------------------------------------------------------
\* What a search binds

LEMMA FirstFoundOne ==
  ASSUME NEW A, DOMAIN A \subseteq Nat, FirstFound(A).route # 0
  PROVE  \E i \in DOMAIN A : FirstFound(A) = A[i]
  <1>1. PICK found : found = {i \in DOMAIN A : A[i].route # 0}
    OBVIOUS
  <1>2. CASE found = {}
    BY <1>1, <1>2 DEF FirstFound, Found
  <1>3. CASE found # {}
    <2>1. PICK i : i = CHOOSE k \in found : \A j \in found : k <= j
      OBVIOUS
    <2>2. i \in found
      <3>1. \E n \in found : \A k \in found : n <= k
        BY <1>1, <1>3, Smallest
      <3> QED BY <2>1, <3>1
    <2>3. FirstFound(A) = A[i]
      BY <1>1, <1>3, <2>1 DEF FirstFound
    <2> QED BY <1>1, <2>2, <2>3
  <1> QED BY <1>2, <1>3

\* Routes of a method through one node call its parameter by one name, and no
\* route uses a name twice.
OneName(list, m) ==
  /\ \A q \in Seq(Edge) :
       \A n, k \in Through(list, m, Append(q, AnyParam)) :
         list[n].pattern[Len(q) + 1].name = list[k].pattern[Len(q) + 1].name
  /\ \A n \in ParamRoutes(list, m) : \A i, j \in 1 .. Len(list[n].pattern) :
       /\ list[n].pattern[i].param /\ list[n].pattern[j].param
       /\ list[n].pattern[i].name = list[n].pattern[j].name
       => i = j

LEMMA SegmentParts ==
  ASSUME NEW P, NEW N, NEW x \in [param : P, name : N]
  PROVE  x = [param |-> x.param, name |-> x.name]
  OBVIOUS

LEMMA NamesConsistent ==
  ASSUME RouterInv, ConsistentNames, NEW m
  PROVE  OneName(routes, m)
  <1>1. \A n \in DOMAIN routes : /\ routes[n].pattern \in Seq(Segment)
                                 /\ DOMAIN routes[n].pattern = 1 .. Len(routes[n].pattern)
    BY ListTypes, EdgesType DEF RouterInv
  <1>2. ASSUME NEW q \in Seq(Edge), NEW n \in Through(routes, m, Append(q, AnyParam)),
               NEW k \in Through(routes, m, Append(q, AnyParam))
        PROVE  routes[n].pattern[Len(q) + 1].name = routes[k].pattern[Len(q) + 1].name
    <2>1. PICK c : c = Append(q, AnyParam)
      OBVIOUS
    <2>2. /\ c \in Seq(Edge) /\ Len(c) = Len(q) + 1 /\ Len(q) \in Nat /\ c[Len(q) + 1] = AnyParam
          /\ c # <<>>
      BY <2>1, AppendProperties, LenProperties DEF Edge
    <2>3. PICK i : i = Len(q) + 1
      OBVIOUS
    <2>4. ASSUME NEW x \in Through(routes, m, c)
          PROVE  /\ x \in DOMAIN routes /\ routes[x].method = m
                 /\ i \in DOMAIN routes[x].pattern /\ routes[x].pattern[i].param
                 /\ SubSeq(Edges(routes[x].pattern), 1, i) = c
      <3>1. x \in DOMAIN routes /\ routes[x].method = m /\ Pre(c, Path(routes, x))
        BY DEF Through, ParamRoutes
      <3>2. PICK e, p : e = Path(routes, x) /\ p = routes[x].pattern
        OBVIOUS
      <3>3. /\ p \in Seq(Segment) /\ e \in Seq(Edge) /\ e = Edges(p) /\ Len(e) = Len(p) /\ Len(e) \in Nat
        BY <3>1, <3>2, ListTypes DEF RouterInv, Path
      <3>4. i \in 1 .. Len(p) /\ e[i] = AnyParam
        BY <2>2, <2>3, <3>1, <3>2, <3>3 DEF Pre
      <3>5. p[i].param
        BY <3>3, <3>4, EdgesType
      <3>6. SubSeq(e, 1, i) = c
        <4>1. \A j \in 1 .. i : e[j] \in Edge
          BY <3>3, <3>4, ElementOfSeq
        <4>2. i \in Int /\ 1 <= i
          BY <2>2, <2>3
        <4>3. PICK s : s = SubSeq(e, 1, i)
          OBVIOUS
        <4>4. s \in Seq(Edge) /\ Len(s) = i /\ \A j \in 1 .. i : s[j] = e[j]
          BY <4>1, <4>2, <4>3, SubSeqProperties
        <4>5. \A j \in 1 .. i : s[j] = c[j]
          BY <2>2, <2>3, <3>1, <3>2, <4>4 DEF Pre
        <4>6. s = c
          BY <2>2, <2>3, <4>4, <4>5, SeqEqual
        <4> QED BY <4>3, <4>6
      <3> QED BY <1>1, <3>1, <3>2, <3>3, <3>4, <3>5, <3>6
    <2>5. /\ n \in DOMAIN routes /\ k \in DOMAIN routes /\ routes[n].method = routes[k].method
          /\ i \in DOMAIN routes[n].pattern \cap DOMAIN routes[k].pattern
          /\ routes[n].pattern[i].param
          /\ SubSeq(Edges(routes[n].pattern), 1, i) = SubSeq(Edges(routes[k].pattern), 1, i)
      BY <2>1, <2>4
    <2>6. routes[n].pattern[i] = routes[k].pattern[i]
      BY <2>5 DEF ConsistentNames
    <2> QED BY <2>3, <2>6
  <1>3. ASSUME NEW n \in ParamRoutes(routes, m), NEW i \in 1 .. Len(routes[n].pattern),
               NEW j \in 1 .. Len(routes[n].pattern),
               routes[n].pattern[i].param, routes[n].pattern[j].param,
               routes[n].pattern[i].name = routes[n].pattern[j].name
        PROVE  i = j
    <2>1. n \in DOMAIN routes
      BY DEF ParamRoutes
    <2>2. PICK p \in Seq(Segment) : p = routes[n].pattern
      BY <1>1, <2>1
    <2>3. p[i] \in Segment /\ p[j] \in Segment
      BY <2>2, EdgesType
    <2>4. p[i] = p[j]
      <3>1. p[i].param /\ p[j].param /\ p[i].name = p[j].name
        BY <1>3, <2>2
      <3>2. \A x \in [param : {FALSE}, name : DOMAIN Forms] : x.param = FALSE
        OBVIOUS
      <3>3. p[i] \in [param : {TRUE}, name : Keys] /\ p[j] \in [param : {TRUE}, name : Keys]
        BY <2>3, <3>1, <3>2, Zenon DEF Segment
      <3>4. p[i].param = TRUE /\ p[j].param = TRUE
        BY <3>3
      <3>5. p[i] = [param |-> p[i].param, name |-> p[i].name] /\ p[j] = [param |-> p[j].param, name |-> p[j].name]
        BY <3>3, SegmentParts
      <3> QED BY <3>1, <3>4, <3>5, Zenon
    <2>5. i \in DOMAIN p /\ j \in DOMAIN p
      BY <1>1, <2>1, <2>2
    <2> QED BY <1>3, <2>1, <2>2, <2>4, <2>5 DEF ConsistentNames
  <1> QED BY <1>2, <1>3 DEF OneName

\* No parameter yet to come is bound already.
Fresh(list, m, q, params) ==
  \A n \in Through(list, m, q) : \A i \in 1 .. Len(list[n].pattern) :
    Len(q) < i /\ list[n].pattern[i].param => list[n].pattern[i].name \notin DOMAIN params

\* after binds what before does, and the parameters of p past its first l segments.
Binds(after, before, p, l, segs, decode) ==
  /\ DOMAIN after = DOMAIN before \cup {p[i].name : i \in {j \in 1 .. Len(p) : l < j /\ p[j].param}}
  /\ \A k \in DOMAIN before : after[k] = before[k]
  /\ \A i \in 1 .. Len(p) : l < i /\ p[i].param => after[p[i].name] = decode[segs[i]]

\* How a search may leave the parameters it was given.
Leaves(list, res, params, l, segs, decode) ==
  IF res.route = 0 THEN res.params = params
  ELSE Binds(res.params, params, list[res.route].pattern, l, segs, decode)

\* b binds k besides params, and without k it is params again.
Restores(b, params, k, v) ==
  /\ Without(b, k) = params
  /\ DOMAIN b = DOMAIN params \cup {k}
  /\ b[k] = v
  /\ \A x \in DOMAIN params : b[x] = params[x]

LEMMA PutAway ==
  ASSUME NEW segs, NEW decode, NEW params \in Bindings(segs, decode), NEW k, k \notin DOMAIN params, NEW v
  PROVE  Restores(Put(params, k, v), params, k, v)
  <1>1. PICK K \in SUBSET Keys : params \in [K -> Values(segs, decode)]
    BY DEF Bindings
  <1>2. DOMAIN params = K /\ params = [x \in K |-> params[x]]
    BY <1>1
  <1>3. /\ DOMAIN Put(params, k, v) = K \cup {k}
        /\ Put(params, k, v)[k] = v
        /\ \A x \in K : Put(params, k, v)[x] = params[x]
    BY <1>2 DEF Put
  <1>4. PICK f : f = Put(params, k, v)
    OBVIOUS
  <1>5. Without(f, k) = [x \in K |-> f[x]]
    BY <1>2, <1>3, <1>4 DEF Without
  <1>6. Without(f, k) = params
    BY <1>2, <1>3, <1>4, <1>5
  <1> QED BY <1>2, <1>3, <1>4, <1>6 DEF Restores

LEMMA SearchBinds ==
  ASSUME NEW list \in Seq(Registrable), NEW m, OneName(list, m), NEW trie, TrieOf(trie, list, m),
         NEW segs \in Segs, NEW decode, NEW M, M = Matches(trie, segs, decode)
  PROVE  \A q \in DOMAIN trie, params \in Bindings(segs, decode) :
           Len(q) <= Len(segs) /\ FitsTo(q, segs) /\ Fresh(list, m, q, params) =>
             Leaves(list, M[<<q, params>>], params, Len(q), segs, decode)
  <1>1. Searchable(trie)
    BY TrieSearchable
  <1>2. Len(segs) \in Nat /\ \A q \in DOMAIN trie : q \in Seq(Edge) /\ Len(q) \in Nat
    BY <1>1, LenProperties DEF Segs, Searchable
  <1>3. \A q \in DOMAIN trie, params \in Bindings(segs, decode) :
          /\ M[<<q, params>>] \in Results(segs, decode)
          /\ M[<<q, params>>] = MatchNode(trie, segs, decode, M, q, params)
    <2>1. M \in [Calls(trie, segs, decode) -> Results(segs, decode)]
      BY <1>1, MatchesFix
    <2>2. \A q \in DOMAIN trie, params \in Bindings(segs, decode) :
            <<q, params>> \in Calls(trie, segs, decode)
      BY DEF Calls
    <2>3. \A q \in DOMAIN trie, params \in Bindings(segs, decode) :
            M[<<q, params>>] = MatchNode(trie, segs, decode, M, q, params)
      BY <1>1, MatchesFix
    <2> QED BY <2>1, <2>2, <2>3
  <1>4. \A q \in DOMAIN trie, params \in Bindings(segs, decode) :
          Len(q) <= Len(segs) /\ FitsTo(q, segs) =>
            IsBest(list, M[<<q, params>>].route, Candidates(list, m, segs, q))
    BY SearchBest
  <1> DEFINE Good(q, params) == Leaves(list, M[<<q, params>>], params, Len(q), segs, decode)
             S == {n \in Nat : \A q \in DOMAIN trie, params \in Bindings(segs, decode) :
                                  Len(q) + n = Len(segs) /\ FitsTo(q, segs) /\ Fresh(list, m, q, params)
                                    => Good(q, params)}
  <1>5. 0 \in S
    <2> SUFFICES ASSUME NEW q \in DOMAIN trie, NEW params \in Bindings(segs, decode),
                        Len(q) = Len(segs), FitsTo(q, segs)
                 PROVE  Good(q, params)
      BY <1>2
    <2>1. M[<<q, params>>] = Found(trie[q].route, params)
      <3>1. Len(q) >= Len(segs)
        BY <1>2
      <3>2. MatchNode(trie, segs, decode, M, q, params) = Found(trie[q].route, params)
        BY <3>1 DEF MatchNode
      <3> QED BY <1>3, <3>2
    <2>2. PICK res : res = M[<<q, params>>]
      OBVIOUS
    <2>3. res.params = params
      BY <2>1, <2>2 DEF Found
    <2>4. res.route # 0 => Len(list[res.route].pattern) = Len(q)
      <3>1. IsBest(list, res.route, Candidates(list, m, segs, q))
        BY <1>2, <1>4, <2>2
      <3>2. res.route # 0 => res.route \in Candidates(list, m, segs, q)
        BY <3>1 DEF IsBest
      <3> QED BY <3>2, CandidateTypes, ListTypes
    <2>5. res.route # 0 => Binds(params, params, list[res.route].pattern, Len(q), segs, decode)
      <3>1. PICK p : p = list[res.route].pattern
        OBVIOUS
      <3>2. ASSUME Len(p) = Len(q) PROVE Binds(params, params, p, Len(q), segs, decode)
        <4>1. {j \in 1 .. Len(p) : Len(q) < j /\ p[j].param} = {}
          BY <1>2, <3>2
        <4>2. {p[i].name : i \in {j \in 1 .. Len(p) : Len(q) < j /\ p[j].param}} = {}
          BY <4>1
        <4>3. \A i \in 1 .. Len(p) : ~(Len(q) < i)
          BY <1>2, <3>2
        <4> QED BY <4>2, <4>3 DEF Binds
      <3> QED BY <2>4, <3>1, <3>2
    <2> QED BY <2>2, <2>3, <2>5 DEF Leaves
  <1>6. ASSUME NEW n \in Nat, n \in S PROVE n + 1 \in S
    <2> SUFFICES ASSUME NEW q \in DOMAIN trie, NEW params \in Bindings(segs, decode),
                        Len(q) + (n + 1) = Len(segs), FitsTo(q, segs), Fresh(list, m, q, params)
                 PROVE  Good(q, params)
      OBVIOUS
    <2>1. PICK s, a, c, l : s = segs[Len(q) + 1] /\ a = Append(q, s) /\ c = Append(q, AnyParam) /\ l = Len(q)
      OBVIOUS
    <2>2. q \in Seq(Edge) /\ l \in Nat /\ l < Len(segs) /\ s # AnyParam /\ s \in Edge /\ l + 1 \in DOMAIN segs
      <3>1. q \in Seq(Edge) /\ l \in Nat /\ l < Len(segs)
        BY <1>2, <2>1
      <3>2. l + 1 \in 1 .. Len(segs) /\ DOMAIN segs = 1 .. Len(segs)
        BY <1>2, <3>1, LenProperties DEF Segs
      <3>3. s \in DOMAIN Forms
        BY <2>1, <3>2, ElementOfSeq DEF Segs
      <3> QED BY <3>1, <3>2, <3>3, RouteAssumption DEF Edge
    <2>3. Splits(list, m, segs, q, a, c)
      <3>1. a = Append(q, segs[Len(q) + 1]) /\ c = Append(q, AnyParam) /\ Len(q) < Len(segs)
        BY <2>1, <2>2
      <3> QED BY <2>2, <3>1, BestBelow
    <2>4. /\ a \in Seq(Edge) /\ FitsTo(a, segs) /\ Len(a) = l + 1
          /\ c \in Seq(Edge) /\ FitsTo(c, segs) /\ Len(c) = l + 1
          /\ a[l + 1] = s /\ c[l + 1] = AnyParam
          /\ \A i \in 1 .. l : a[i] = q[i] /\ c[i] = q[i]
      <3>1. a[l + 1] = s /\ c[l + 1] = AnyParam /\ \A i \in 1 .. l : a[i] = q[i] /\ c[i] = q[i]
        BY <2>1, <2>2, AppendProperties DEF Edge
      <3> QED BY <2>1, <2>3, <3>1 DEF Splits
    <2>5. /\ \A x \in Through(list, m, a) :
               x \in Through(list, m, q) /\ ~list[x].pattern[l + 1].param
          /\ \A x \in Through(list, m, c) :
               /\ x \in Through(list, m, q) /\ x \in ParamRoutes(list, m)
               /\ l + 1 \in 1 .. Len(list[x].pattern)
               /\ list[x].pattern[l + 1].param
      <3>1. ASSUME NEW x \in Through(list, m, a) \cup Through(list, m, c)
            PROVE  /\ x \in Through(list, m, q) /\ x \in ParamRoutes(list, m)
                   /\ l + 1 \in 1 .. Len(list[x].pattern)
                   /\ x \in Through(list, m, a) => ~list[x].pattern[l + 1].param
                   /\ x \in Through(list, m, c) => list[x].pattern[l + 1].param
        <4>1. PICK p, e : p = list[x].pattern /\ e = Path(list, x)
          OBVIOUS
        <4>2. x \in DOMAIN list /\ x \in ParamRoutes(list, m) /\ (Pre(a, e) \/ Pre(c, e))
          BY <4>1 DEF Through, ParamRoutes
        <4>3. /\ p \in Seq(Segment) /\ e = Edges(p) /\ Len(e) = Len(p) /\ Len(e) \in Nat
          BY <4>1, <4>2, ListTypes DEF Path
        <4>4. Pre(q, e) /\ l + 1 \in 1 .. Len(p)
          <5> SUFFICES ASSUME NEW w, Len(w) = l + 1, \A i \in 1 .. l : w[i] = q[i], Pre(w, e)
                       PROVE  Pre(q, e) /\ l + 1 \in 1 .. Len(p)
            BY <2>4, <4>2
          <5>1. l + 1 <= Len(e) /\ \A i \in 1 .. l : q[i] = e[i]
            <6>1. l + 1 <= Len(e) /\ \A i \in 1 .. l + 1 : w[i] = e[i]
              BY DEF Pre
            <6>2. \A i \in 1 .. l : i \in 1 .. l + 1
              BY <2>2
            <6> QED BY <6>1, <6>2
          <5>2. Len(q) <= Len(e) /\ \A i \in 1 .. Len(q) : q[i] = e[i]
            BY <2>1, <2>2, <4>3, <5>1
          <5> QED BY <2>2, <4>3, <5>1, <5>2 DEF Pre
        <4>5. /\ Pre(a, e) => e[l + 1] = s
              /\ Pre(c, e) => e[l + 1] = AnyParam
          BY <2>2, <2>4 DEF Pre
        <4>6. p[l + 1].param <=> e[l + 1] = AnyParam
          BY <4>3, <4>4, EdgesType
        <4> QED BY <2>2, <4>1, <4>2, <4>4, <4>5, <4>6 DEF Through
      <3> QED BY <3>1
    <2>6. \A p \in DOMAIN trie, b \in Bindings(segs, decode) :
            Len(p) = l + 1 /\ FitsTo(p, segs) /\ Fresh(list, m, p, b) => Good(p, b)
      <3>1. \A p \in DOMAIN trie : Len(p) = l + 1 => Len(p) + n = Len(segs)
        BY <1>2, <2>1
      <3> QED BY <1>6, <3>1
    <2>7. PICK static : static = IF a \in DOMAIN trie THEN M[<<a, params>>] ELSE Found(0, params)
      OBVIOUS
    <2>8. /\ static.route = 0 => static.params = params
          /\ static.route # 0 => Binds(static.params, params, list[static.route].pattern, l, segs, decode)
      <3>1. CASE a \notin DOMAIN trie
        <4>1. static = Found(0, params)
          BY <2>7, <3>1
        <4>2. static.route = 0 /\ static.params = params
          BY <4>1 DEF Found
        <4> QED BY <4>2
      <3>2. CASE a \in DOMAIN trie
        <4>1. Fresh(list, m, a, params)
          BY <2>1, <2>2, <2>4, <2>5 DEF Fresh
        <4>2. Leaves(list, static, params, l + 1, segs, decode)
          BY <2>4, <2>6, <2>7, <3>2, <4>1
        <4>3. IsBest(list, static.route, Candidates(list, m, segs, a))
          <5>1. static = M[<<a, params>>] /\ Len(a) <= Len(segs) /\ FitsTo(a, segs)
            BY <1>2, <2>2, <2>4, <2>7, <3>2
          <5> HIDE DEF Good, S
          <5> QED BY <1>4, <3>2, <5>1
        <4>4. ASSUME static.route # 0
              PROVE  Binds(static.params, params, list[static.route].pattern, l, segs, decode)
          <5>1. PICK p : p = list[static.route].pattern
            OBVIOUS
          <5>2. ~p[l + 1].param
            BY <2>5, <4>3, <4>4, <5>1 DEF IsBest, Candidates
          <5>3. \A i \in 1 .. Len(p) : l < i /\ p[i].param <=> l + 1 < i /\ p[i].param
            BY <2>2, <5>2
          <5>4. Binds(static.params, params, p, l + 1, segs, decode)
            BY <4>2, <4>4, <5>1 DEF Leaves
          <5> QED BY <5>1, <5>3, <5>4 DEF Binds
        <4> QED BY <4>2, <4>4 DEF Leaves
      <3> QED BY <3>1, <3>2
    <2>9. PICK k, v, b : k = trie[c].key /\ v = decode[s] /\ b = Put(static.params, k, v)
      OBVIOUS
    <2>10. PICK bound : bound = M[<<c, b>>]
      OBVIOUS
    <2>11. M[<<q, params>>]
             = IF static.route # 0 \/ c \notin DOMAIN trie THEN static
               ELSE IF bound.route # 0 THEN bound ELSE Found(0, Without(bound.params, k))
      <3>1. ~(Len(q) >= Len(segs))
        BY <1>2
      <3> QED BY <1>3, <2>1, <2>7, <2>9, <2>10, <3>1 DEF MatchNode
    <2>12. CASE static.route # 0 \/ c \notin DOMAIN trie
      BY <2>1, <2>8, <2>11, <2>12 DEF Leaves
    <2>13. CASE static.route = 0 /\ c \in DOMAIN trie
      <3>1. b = Put(params, k, v) /\ v \in Values(segs, decode)
        BY <2>1, <2>2, <2>8, <2>9, <2>13 DEF Values
      <3>2. \A x \in Through(list, m, c) : list[x].pattern[l + 1].name = k
        <4>1. PICK x \in Through(list, m, c) : k = list[x].pattern[l + 1].name
          BY <2>1, <2>2, <2>9, <2>13 DEF TrieOf
        <4> QED BY <2>1, <2>2, <4>1 DEF OneName
      <3>3. k \notin DOMAIN params /\ k \in Keys
        <4>1. PICK x \in Through(list, m, c) : TRUE
          BY <2>1, <2>2, <2>13 DEF TrieOf
        <4>2. k \notin DOMAIN params
          BY <2>1, <2>2, <2>5, <3>2, <4>1 DEF Fresh
        <4> QED BY <1>1, <2>1, <2>2, <2>9, <2>13, <4>2 DEF Searchable
      <3>4. /\ b \in Bindings(segs, decode) /\ Without(b, k) = params
            /\ DOMAIN b = DOMAIN params \cup {k} /\ b[k] = v
            /\ \A x \in DOMAIN params : b[x] = params[x]
        <4>1. b \in Bindings(segs, decode)
          BY <3>1, <3>3, PutBound
        <4>2. Restores(b, params, k, v)
          BY <3>1, <3>3, PutAway
        <4> QED BY <4>1, <4>2 DEF Restores
      <3>5. Fresh(list, m, c, b)
        <4> SUFFICES ASSUME NEW x \in Through(list, m, c), NEW i \in 1 .. Len(list[x].pattern),
                            l + 1 < i, list[x].pattern[i].param
                     PROVE  list[x].pattern[i].name \notin DOMAIN b
          BY <2>4 DEF Fresh
        <4>1. list[x].pattern[i].name \notin DOMAIN params
          BY <2>1, <2>2, <2>5 DEF Fresh
        <4>2. list[x].pattern[i].name # k
          <5>1. /\ x \in ParamRoutes(list, m) /\ l + 1 \in 1 .. Len(list[x].pattern)
                /\ list[x].pattern[l + 1].param /\ list[x].pattern[l + 1].name = k
            BY <2>5, <3>2
          <5>2. l + 1 # i
            BY <2>2
          <5>3. list[x].pattern[i].name # list[x].pattern[l + 1].name
            BY <5>1, <5>2 DEF OneName
          <5> QED BY <5>1, <5>3
        <4> QED BY <3>4, <4>1, <4>2
      <3>6. Leaves(list, bound, b, l + 1, segs, decode)
        BY <2>4, <2>6, <2>10, <2>13, <3>4, <3>5
      <3>7. CASE bound.route = 0
        <4>1. M[<<q, params>>] = Found(0, params)
          BY <2>11, <2>13, <3>4, <3>6, <3>7 DEF Leaves
        <4> QED BY <4>1 DEF Leaves, Found
      <3>8. CASE bound.route # 0
        <4>1. IsBest(list, bound.route, Candidates(list, m, segs, c))
          <5>1. Len(c) <= Len(segs) /\ FitsTo(c, segs) /\ b \in Bindings(segs, decode) /\ c \in DOMAIN trie
            BY <1>2, <2>2, <2>4, <2>13, <3>4
          <5> HIDE DEF Good, S
          <5> QED BY <1>4, <2>10, <5>1
        <4>2. bound.route \in Through(list, m, c)
          BY <3>8, <4>1 DEF IsBest, Candidates
        <4>3. PICK p : p = list[bound.route].pattern
          OBVIOUS
        <4>4. l + 1 \in 1 .. Len(p) /\ p[l + 1].param /\ p[l + 1].name = k
          BY <2>5, <3>2, <4>2, <4>3
        <4>5. Binds(bound.params, b, p, l + 1, segs, decode)
          BY <3>6, <3>8, <4>3 DEF Leaves
        <4>6. \A i \in 1 .. Len(p) : l < i /\ p[i].param <=> i = l + 1 \/ (l + 1 < i /\ p[i].param)
          BY <2>2, <4>4
        <4>7. bound.params[k] = v
          BY <3>4, <4>5 DEF Binds
        <4>8. Binds(bound.params, params, p, l, segs, decode)
          <5>1. DOMAIN bound.params
                  = DOMAIN params \cup {p[i].name : i \in {j \in 1 .. Len(p) : l < j /\ p[j].param}}
            BY <3>4, <4>4, <4>5, <4>6 DEF Binds
          <5>2. \A x \in DOMAIN params : bound.params[x] = params[x]
            BY <3>4, <4>5 DEF Binds
          <5>3. \A i \in 1 .. Len(p) : l < i /\ p[i].param => bound.params[p[i].name] = decode[segs[i]]
            BY <2>1, <2>9, <4>4, <4>5, <4>6, <4>7 DEF Binds
          <5> QED BY <5>1, <5>2, <5>3 DEF Binds
        <4>9. M[<<q, params>>] = bound
          BY <2>11, <2>13, <3>8
        <4> QED BY <2>1, <3>8, <4>3, <4>8, <4>9 DEF Leaves
      <3> QED BY <3>7, <3>8
    <2> QED BY <2>12, <2>13
  <1>7. Nat \subseteq S
    <2> HIDE DEF S
    <2> QED BY <1>5, <1>6, Induct
  <1> SUFFICES ASSUME NEW q \in DOMAIN trie, NEW params \in Bindings(segs, decode),
                      Len(q) <= Len(segs), FitsTo(q, segs), Fresh(list, m, q, params)
               PROVE  Good(q, params)
    OBVIOUS
  <1>8. PICK n \in Nat : Len(q) + n = Len(segs)
    <2>1. Len(segs) - Len(q) \in Nat /\ Len(q) + (Len(segs) - Len(q)) = Len(segs)
      BY <1>2
    <2> QED BY <2>1
  <1>9. n \in S
    <2> HIDE DEF S
    <2> QED BY <1>7
  <1> QED BY <1>8, <1>9

LEMMA CapturedAll ==
  ASSUME NEW p \in Seq(Segment), NEW segs \in Segs, Len(p) = Len(segs), NEW decode,
         NEW params, NEW K, NEW V, params \in [K -> V], Binds(params, NoParams, p, 0, segs, decode),
         \A i, j \in 1 .. Len(p) : p[i].param /\ p[j].param /\ p[i].name = p[j].name => i = j
  PROVE  params = Captured(p, [i \in DOMAIN segs |-> decode[segs[i]]])
  <1>1. /\ DOMAIN p = 1 .. Len(p) /\ DOMAIN segs = 1 .. Len(p) /\ Len(p) \in Nat
        /\ \A i \in 1 .. Len(p) : p[i] \in Segment
    BY EdgesType, LenProperties DEF Segs
  <1>2. PICK names : names = {p[i].name : i \in {j \in DOMAIN p : p[j].param}}
    OBVIOUS
  <1>3. DOMAIN NoParams = {}
    BY DEF NoParams
  <1>4. names = K /\ DOMAIN params = K
    BY <1>1, <1>2, <1>3 DEF Binds
  <1>5. PICK vals : vals = [i \in DOMAIN segs |-> decode[segs[i]]]
    OBVIOUS
  <1>6. ASSUME NEW k \in names
        PROVE  vals[CHOOSE i \in DOMAIN p : p[i] = Param(k) /\ \A j \in i + 1 .. Len(p) : p[j] # Param(k)]
                 = params[k]
    <2>1. PICK i \in 1 .. Len(p) : p[i].param /\ p[i].name = k
      BY <1>1, <1>2
    <2>2. \A j \in 1 .. Len(p) : p[j] = Param(k) <=> j = i
      <3> TAKE j \in 1 .. Len(p)
      <3>1. p[j] \in Segment /\ p[i] \in Segment
        BY <1>1
      <3>2. p[i] = Param(k)
        BY <2>1, <3>1 DEF Segment, Param
      <3>3. p[j] = Param(k) => p[j].param /\ p[j].name = k
        BY DEF Param
      <3> QED BY <2>1, <3>2, <3>3
    <2>3. PICK g : g = CHOOSE x \in DOMAIN p : p[x] = Param(k) /\ \A j \in x + 1 .. Len(p) : p[j] # Param(k)
      OBVIOUS
    <2>4. p[i] = Param(k) /\ \A j \in i + 1 .. Len(p) : p[j] # Param(k)
      BY <1>1, <2>2
    <2>5. g \in DOMAIN p /\ p[g] = Param(k)
      BY <1>1, <2>1, <2>3, <2>4
    <2>6. g = i
      BY <1>1, <2>2, <2>5
    <2>7. vals[i] = decode[segs[i]] /\ params[k] = decode[segs[i]]
      BY <1>1, <1>5, <2>1 DEF Binds
    <2> QED BY <2>3, <2>6, <2>7
  <1>7. Captured(p, vals)
          = [k \in names |-> vals[CHOOSE i \in DOMAIN p :
                                    p[i] = Param(k) /\ \A j \in i + 1 .. Len(p) : p[j] # Param(k)]]
    BY <1>2 DEF Captured
  <1>8. Captured(p, vals) = [k \in names |-> params[k]]
    BY <1>6, <1>7
  <1> QED BY <1>4, <1>5, <1>8

LEMMA BoundByTrie ==
  ASSUME RouterInv, ConsistentNames, NEW m \in Methods, NEW segs \in Segs,
         NEW res, res = MatchRouteTable(tries[m], segs, Decoded), res.route # 0
  PROVE  res.params = Captured(routes[res.route].pattern, [i \in DOMAIN segs |-> Decoded[segs[i]]])
  <1>1. PICK list, trie, decode : list = routes /\ trie = tries[m] /\ decode = Decoded
    OBVIOUS
  <1>2. PICK M : M = Matches(trie, segs, decode)
    OBVIOUS
  <1>3. list \in Seq(Registrable) /\ TrieOf(trie, list, m) /\ OneName(list, m)
    BY <1>1, NamesConsistent DEF RouterInv
  <1>4. <<>> \in DOMAIN trie /\ NoParams \in Bindings(segs, decode) /\ DOMAIN NoParams = {}
        /\ Len(<<>>) = 0
    BY <1>3, NoParamsBound, EmptySeq DEF TrieOf, NoParams
  <1>5. Len(<<>>) <= Len(segs) /\ FitsTo(<<>>, segs) /\ Fresh(list, m, <<>>, NoParams)
    BY <1>4, LenProperties DEF FitsTo, Segs, Fresh
  <1>6. res = M[<<<<>>, NoParams>>]
    BY <1>1, <1>2 DEF MatchRouteTable
  <1>7. Binds(res.params, NoParams, list[res.route].pattern, 0, segs, decode)
    <2>1. Leaves(list, res, NoParams, 0, segs, decode)
      BY <1>2, <1>3, <1>4, <1>5, <1>6, SearchBinds
    <2> QED BY <2>1 DEF Leaves
  <1>8. res.route \in Candidates(list, m, segs, <<>>)
    <2>1. IsBest(list, res.route, Candidates(list, m, segs, <<>>))
      BY <1>2, <1>3, <1>4, <1>5, <1>6, SearchBest
    <2> QED BY <2>1 DEF IsBest
  <1>9. PICK p : p = list[res.route].pattern
    OBVIOUS
  <1>10. p \in Seq(Segment) /\ Len(p) = Len(segs) /\ res.route \in ParamRoutes(list, m)
    BY <1>3, <1>8, <1>9, CandidateTypes, ListTypes DEF Candidates, Through
  <1>11. \A i, j \in 1 .. Len(p) : p[i].param /\ p[j].param /\ p[i].name = p[j].name => i = j
    BY <1>3, <1>9, <1>10 DEF OneName
  <1>12. \E K, V : res.params \in [K -> V]
    <2>1. M \in [Calls(trie, segs, decode) -> Results(segs, decode)]
      BY <1>2, <1>3, TrieSearchable, MatchesFix
    <2>2. res \in Results(segs, decode)
      BY <1>4, <1>6, <2>1 DEF Calls
    <2>3. res.params \in Bindings(segs, decode)
      BY <2>2 DEF Results
    <2> QED BY <2>3 DEF Bindings
  <1>13. res.params = Captured(p, [i \in DOMAIN segs |-> decode[segs[i]]])
    BY <1>7, <1>9, <1>10, <1>11, <1>12, CapturedAll
  <1> QED BY <1>1, <1>9, <1>13

LEMMA BoundByMap ==
  ASSUME RouterInv, NEW m, NEW segs \in Segs, NEW n, n = Get(exact, <<m, segs>>), n # 0, NEW vals
  PROVE  NoParams = Captured(routes[n].pattern, vals)
  <1>1. IsLast(n, ExactAt(routes, m, segs))
    BY DEF RouterInv, ExactOf
  <1>2. ~HasParams(routes[n].pattern)
    BY <1>1 DEF IsLast, ExactAt
  <1>3. PICK p : p = routes[n].pattern
    OBVIOUS
  <1>4. {p[i].name : i \in {j \in DOMAIN p : p[j].param}} = {}
    BY <1>2, <1>3 DEF HasParams
  <1>5. DOMAIN Captured(p, vals) = {} /\ Captured(p, vals) = [k \in {} |-> Captured(p, vals)[k]]
    BY <1>4 DEF Captured
  <1>6. NoParams = [k \in {} |-> Captured(p, vals)[k]]
    BY DEF NoParams
  <1> QED BY <1>3, <1>5, <1>6

\* A handler sees the parameters of its own pattern, decoded, and nothing that a
\* branch of the search which was given up has bound (app.ts:579-620).
THEOREM OwnParamsBound == Spec => []ParamsBound
<1>1. RouterInv => ParamsBound
  <2> SUFFICES ASSUME RouterInv, ConsistentNames, NEW m \in Methods, NEW t \in Targets,
                      FindRoute(m, t).route # 0
               PROVE  FindRoute(m, t).params
                        = Captured(routes[FindRoute(m, t).route].pattern,
                                   [i \in DOMAIN NormalizePath(t) |-> Decoded[NormalizePath(t)[i]]])
    BY DEF ParamsBound
  <2>1. PICK segs \in Segs : segs = NormalizePath(t)
    BY NormalizedType
  <2>2. PICK vals : vals = [i \in DOMAIN segs |-> Decoded[segs[i]]]
    OBVIOUS
  <2> DEFINE Right(found) == found.route # 0 => found.params = Captured(routes[found.route].pattern, vals)
  <2>3. \A x : Right(Plain(Get(exact, <<x, segs>>)))
    BY BoundByMap DEF Plain, Found
  <2>4. \A x \in Methods : Right(MatchRouteTable(tries[x], segs, Decoded))
    BY <2>2, BoundByTrie
  <2>5. CASE m = "HEAD"
    <3>1. PICK A : A = <<Plain(Get(exact, <<"HEAD", segs>>)), Plain(Get(exact, <<"GET", segs>>)),
                         MatchRouteTable(tries["HEAD"], segs, Decoded),
                         MatchRouteTable(tries["GET"], segs, Decoded)>>
      OBVIOUS
    <3>2. FindRoute(m, t) = FirstFound(A)
      BY <2>1, <2>5, <3>1 DEF FindRoute
    <3>3. DOMAIN A = 1 .. 4 /\ "HEAD" \in Methods /\ "GET" \in Methods
      BY <2>5, <3>1, RouteAssumption
    <3>4. \A i \in 1 .. 4 : Right(A[i])
      <4> HIDE DEF Right
      <4> QED BY <2>3, <2>4, <3>1, <3>3
    <3>5. PICK i \in 1 .. 4 : FirstFound(A) = A[i]
      BY <3>2, <3>3, FirstFoundOne
    <3> QED BY <2>1, <2>2, <3>2, <3>4, <3>5
  <2>6. CASE m # "HEAD"
    <3>1. PICK A : A = <<Plain(Get(exact, <<m, segs>>)), MatchRouteTable(tries[m], segs, Decoded)>>
      OBVIOUS
    <3>2. FindRoute(m, t) = FirstFound(A)
      BY <2>1, <2>6, <3>1 DEF FindRoute
    <3>3. DOMAIN A = 1 .. 2
      BY <3>1
    <3>4. \A i \in 1 .. 2 : Right(A[i])
      <4> HIDE DEF Right
      <4> QED BY <2>3, <2>4, <3>1
    <3>5. PICK i \in 1 .. 2 : FirstFound(A) = A[i]
      BY <3>2, <3>3, FirstFoundOne
    <3> QED BY <2>1, <2>2, <3>2, <3>4, <3>5
  <2> QED BY <2>5, <2>6
<1> QED
  BY <1>1, RouterInvariant, PTL

-----------------------------------------------------------------------------
\* Where the answers of the lookups come from

LEMMA Largest ==
  ASSUME NEW N \in Nat, NEW T \in SUBSET (0 .. N), T # {}
  PROVE  \E n \in T : \A k \in T : k <= n
  <1>1. PICK U : U = {k \in Nat : N - k \in T}
    OBVIOUS
  <1>2. \A n \in T : n \in 0 .. N /\ N - n \in U /\ N - (N - n) = n
    BY <1>1
  <1>3. U \in SUBSET Nat /\ U # {}
    BY <1>1, <1>2
  <1>4. PICK u \in U : \A k \in U : u <= k
    BY <1>3, Smallest
  <1>5. N - u \in T /\ u \in Nat
    BY <1>1
  <1>6. \A k \in T : k <= N - u
    BY <1>2, <1>4, <1>5
  <1> QED BY <1>5, <1>6

LEMMA FirstFoundIs ==
  ASSUME NEW A, DOMAIN A \subseteq Nat, NEW i \in DOMAIN A, A[i].route # 0,
         \A j \in DOMAIN A : j < i => A[j].route = 0
  PROVE  FirstFound(A) = A[i]
  <1>1. PICK found : found = {j \in DOMAIN A : A[j].route # 0}
    OBVIOUS
  <1>2. i \in found /\ \A j \in found : i <= j
    BY <1>1
  <1>3. PICK f : f = CHOOSE k \in found : \A j \in found : k <= j
    OBVIOUS
  <1>4. f \in found /\ \A j \in found : f <= j
    BY <1>2, <1>3
  <1>5. f = i
    BY <1>1, <1>2, <1>4
  <1> QED BY <1>1, <1>2, <1>3, <1>5 DEF FirstFound

LEMMA FirstFoundNone ==
  ASSUME NEW A, \A j \in DOMAIN A : A[j].route = 0
  PROVE  FirstFound(A) = Plain(0)
  BY DEF FirstFound, Plain

LEMMA TwoSources ==
  ASSUME NEW a, NEW b
  PROVE  FirstFound(<<a, b>>) = IF a.route # 0 THEN a ELSE IF b.route # 0 THEN b ELSE Plain(0)
  <1>1. PICK A : A = <<a, b>>
    OBVIOUS
  <1>2. DOMAIN A = {1, 2} /\ A[1] = a /\ A[2] = b
    BY <1>1
  <1>3. CASE a.route # 0
    BY <1>1, <1>2, <1>3, FirstFoundIs
  <1>4. CASE a.route = 0 /\ b.route # 0
    BY <1>1, <1>2, <1>4, FirstFoundIs
  <1>5. CASE a.route = 0 /\ b.route = 0
    BY <1>1, <1>2, <1>5, FirstFoundNone
  <1> QED BY <1>3, <1>4, <1>5

LEMMA ThreeSources ==
  ASSUME NEW a, NEW b, NEW c
  PROVE  FirstFound(<<a, b, c>>) = IF a.route # 0 THEN a ELSE FirstFound(<<b, c>>)
  <1>1. PICK A : A = <<a, b, c>>
    OBVIOUS
  <1>2. DOMAIN A = {1, 2, 3} /\ A[1] = a /\ A[2] = b /\ A[3] = c
    BY <1>1
  <1>3. CASE a.route # 0
    BY <1>1, <1>2, <1>3, FirstFoundIs
  <1>4. CASE a.route = 0 /\ b.route # 0
    BY <1>1, <1>2, <1>4, FirstFoundIs, TwoSources
  <1>5. CASE a.route = 0 /\ b.route = 0 /\ c.route # 0
    BY <1>1, <1>2, <1>5, FirstFoundIs, TwoSources
  <1>6. CASE a.route = 0 /\ b.route = 0 /\ c.route = 0
    BY <1>1, <1>2, <1>6, FirstFoundNone, TwoSources
  <1> QED BY <1>3, <1>4, <1>5, <1>6

\* Two patterns that fit one path, neither before the other, are alike.
LEMMA NeitherBefore ==
  ASSUME NEW p \in Seq(Segment), NEW q \in Seq(Segment), NEW segs \in Segs,
         Fits(p, segs), Fits(q, segs), ~Before(p, q), ~Before(q, p)
  PROVE  Edges(p) = Edges(q)
  <1>1. /\ Len(p) = Len(q) /\ Len(p) \in Nat /\ DOMAIN p = 1 .. Len(p) /\ DOMAIN q = 1 .. Len(p)
        /\ \A i \in 1 .. Len(p) : /\ p[i].param \/ p[i].name = segs[i]
                                  /\ q[i].param \/ q[i].name = segs[i]
    BY LenProperties DEF Fits
  <1>2. \A i \in 1 .. Len(p) : p[i].param \in BOOLEAN /\ q[i].param \in BOOLEAN
    BY <1>1, EdgesType DEF Segment
  <1>3. \A i \in 1 .. Len(p) : p[i].param = q[i].param
    <2>1. PICK T : T = {i \in 1 .. Len(p) : p[i].param # q[i].param}
      OBVIOUS
    <2>2. ASSUME T # {} PROVE FALSE
      <3>1. T \in SUBSET Nat
        BY <1>1, <2>1
      <3>2. PICK i \in T : \A j \in T : i <= j
        BY <2>2, <3>1, Smallest
      <3>3. i \in 1 .. Len(p) /\ i \in Nat /\ p[i].param # q[i].param
        BY <1>1, <2>1
      <3>4. \A j \in 1 .. i - 1 : j \in 1 .. Len(p) /\ ~(i <= j)
        BY <1>1, <3>3
      <3>5. \A j \in 1 .. i - 1 : p[j].param = q[j].param
        BY <2>1, <3>2, <3>4
      <3>6. CASE p[i].param
        BY <1>1, <1>2, <3>3, <3>5, <3>6 DEF Before
      <3>7. CASE ~p[i].param
        BY <1>1, <1>2, <3>3, <3>5, <3>7 DEF Before
      <3> QED BY <3>6, <3>7
    <2> QED BY <2>1, <2>2
  <1>4. \A i \in 1 .. Len(p) : /\ Edges(p)[i] = IF p[i].param THEN AnyParam ELSE p[i].name
                               /\ Edges(q)[i] = IF q[i].param THEN AnyParam ELSE q[i].name
    BY <1>1, EdgesType
  <1>5. Edges(p) \in Seq(Edge) /\ Edges(q) \in Seq(Edge) /\ Len(Edges(p)) = Len(p) /\ Len(Edges(q)) = Len(p)
    BY <1>1, EdgesType
  <1>6. \A i \in 1 .. Len(p) : Edges(p)[i] = Edges(q)[i]
    BY <1>1, <1>3, <1>4
  <1> QED BY <1>5, <1>6, SeqEqual

\* A search from the root.
LEMMA SearchFromRoot ==
  ASSUME NEW list \in Seq(Registrable), NEW m, NEW trie, TrieOf(trie, list, m), NEW segs \in Segs,
         NEW decode, NEW res, res = MatchRouteTable(trie, segs, decode)
  PROVE  /\ res \in Results(segs, decode)
         /\ IsBest(list, res.route, Candidates(list, m, segs, <<>>))
  <1>1. PICK M : M = Matches(trie, segs, decode)
    OBVIOUS
  <1>2. res = M[<<<<>>, NoParams>>]
    BY <1>1 DEF MatchRouteTable
  <1>3. <<>> \in DOMAIN trie /\ NoParams \in Bindings(segs, decode)
    BY NoParamsBound, EmptySeq DEF TrieOf
  <1>4. Len(<<>>) <= Len(segs) /\ FitsTo(<<>>, segs)
    BY LenProperties DEF FitsTo, Segs
  <1>5. M \in [Calls(trie, segs, decode) -> Results(segs, decode)]
    BY <1>1, TrieSearchable, MatchesFix
  <1> QED BY <1>1, <1>2, <1>3, <1>4, <1>5, SearchBest DEF Calls

\* The routes of m that fit segs; exact ones among them have no parameters.
Fitting(list, m, segs) == {n \in DOMAIN list : list[n].method = m /\ Fits(list[n].pattern, segs)}

LEMMA FittingSplit ==
  ASSUME NEW list \in Seq(Registrable), NEW m, NEW segs \in Segs
  PROVE  /\ ExactAt(list, m, segs) = {n \in Fitting(list, m, segs) : ~HasParams(list[n].pattern)}
         /\ Candidates(list, m, segs, <<>>) = {n \in Fitting(list, m, segs) : HasParams(list[n].pattern)}
  <1>1. ASSUME NEW n \in DOMAIN list
        PROVE  /\ Pre(<<>>, Path(list, n))
               /\ Fits(list[n].pattern, segs)
                    <=> Len(Path(list, n)) = Len(segs) /\ FitsTo(Path(list, n), segs)
               /\ ~HasParams(list[n].pattern) => (Fits(list[n].pattern, segs) <=> Path(list, n) = segs)
    <2>1. PICK p, e : p = list[n].pattern /\ e = Path(list, n)
      OBVIOUS
    <2>2. p \in Seq(Segment) /\ e \in Seq(Edge) /\ e = Edges(p) /\ Len(e) = Len(p) /\ Len(e) \in Nat
      BY <2>1, ListTypes DEF Path
    <2>3. Fits(p, segs) <=> Len(e) = Len(segs) /\ FitsTo(e, segs)
      BY <2>2, FitsByEdges
    <2>4. Pre(<<>>, e)
      BY <2>2 DEF Pre
    <2>5. ~HasParams(p) => \A i \in 1 .. Len(e) : e[i] # AnyParam
      BY <2>2, EdgesType DEF HasParams
    <2>6. segs \in Seq(Edge)
      <3>1. DOMAIN segs = 1 .. Len(segs) /\ Len(segs) \in Nat /\ \A i \in 1 .. Len(segs) : segs[i] \in Edge
        BY LenProperties, ElementOfSeq DEF Segs, Edge
      <3> QED BY <3>1 DEF Segs
    <2>7. ~HasParams(p) => (FitsTo(e, segs) <=> \A i \in 1 .. Len(e) : e[i] = segs[i])
      BY <2>5 DEF FitsTo
    <2>8. e = segs <=> Len(e) = Len(segs) /\ \A i \in 1 .. Len(e) : e[i] = segs[i]
      BY <2>2, <2>6, SeqEqual
    <2> QED BY <2>1, <2>3, <2>4, <2>7, <2>8
  <1> QED BY <1>1 DEF ExactAt, Candidates, Through, ParamRoutes, Fitting

\* findRoute yields a record, of a route that fits or, if there is none, of 0.
LEMMA FindRouteFound ==
  ASSUME RouterInv, NEW m \in Methods \ {"HEAD"}, NEW t \in Targets, NEW segs, segs = NormalizePath(t),
         NEW found, found = FindRoute(m, t), NEW n, n = found.route, NEW fit, fit = Fitting(routes, m, segs)
  PROVE  /\ found = Found(n, found.params)
         /\ IF fit = {} THEN found = Plain(0) ELSE n \in fit
         /\ \A k \in fit : ~Before(routes[k].pattern, routes[n].pattern)
  <1>1. segs \in Segs /\ routes \in Seq(Registrable) /\ TrieOf(tries[m], routes, m)
    BY NormalizedType DEF RouterInv
  <1>2. PICK e, b : e = Get(exact, <<m, segs>>) /\ b = MatchRouteTable(tries[m], segs, Decoded)
    OBVIOUS
  <1>3. IsLast(e, ExactAt(routes, m, segs))
    BY <1>2 DEF RouterInv, ExactOf
  <1>4. b \in Results(segs, Decoded) /\ IsBest(routes, b.route, Candidates(routes, m, segs, <<>>))
    BY <1>1, <1>2, SearchFromRoot
  <1>5. found = IF e # 0 THEN Plain(e) ELSE IF b.route # 0 THEN b ELSE Plain(0)
    <2>1. found = FirstFound(<<Plain(e), b>>)
      BY <1>2 DEF FindRoute
    <2>2. Plain(e).route = e
      BY DEF Plain, Found
    <2> QED BY <2>1, <2>2, TwoSources
  <1>6. b = Found(b.route, b.params)
    BY <1>4 DEF Results, Found
  <1>7. /\ ExactAt(routes, m, segs) = {k \in fit : ~HasParams(routes[k].pattern)}
        /\ Candidates(routes, m, segs, <<>>) = {k \in fit : HasParams(routes[k].pattern)}
    BY <1>1, FittingSplit
  <1>8. ASSUME NEW k \in fit
        PROVE  /\ k \in DOMAIN routes /\ k # 0 /\ routes[k].pattern \in Seq(Segment)
               /\ Len(routes[k].pattern) = Len(segs)
    BY <1>1, ListTypes DEF Fitting, Fits
  <1>9. CASE e # 0
    <2>1. n = e /\ found = Found(n, NoParams) /\ found.params = NoParams
      BY <1>5, <1>9 DEF Plain, Found
    <2>2. n \in fit /\ ~HasParams(routes[n].pattern)
      BY <1>3, <1>7, <1>9, <2>1 DEF IsLast
    <2>3. \A k \in fit : ~Before(routes[k].pattern, routes[n].pattern)
      <3> TAKE k \in fit
      <3>1. \A i \in DOMAIN routes[k].pattern : i \in DOMAIN routes[n].pattern
        BY <1>8, <2>2, EdgesType
      <3> QED BY <2>2, <3>1 DEF Before, HasParams
    <2> QED BY <2>1, <2>2, <2>3
  <1>10. CASE e = 0
    <2>1. \A k \in fit : HasParams(routes[k].pattern)
      <3>1. {k \in fit : ~HasParams(routes[k].pattern)} = {}
        BY <1>3, <1>7, <1>8, <1>10 DEF IsLast
      <3> QED BY <3>1
    <2>2. IsBest(routes, b.route, fit)
      <3>1. {k \in fit : HasParams(routes[k].pattern)} = fit
        BY <2>1
      <3> QED BY <1>4, <1>7, <3>1
    <2>3. CASE fit = {}
      <3>1. b.route = 0
        BY <2>2, <2>3 DEF IsBest
      <3>2. found = Plain(0) /\ n = 0
        BY <1>5, <1>10, <3>1 DEF Plain, Found
      <3> QED BY <2>3, <3>2 DEF Plain, Found
    <2>4. CASE fit # {}
      <3>1. b.route \in fit /\ \A k \in fit : Ahead(routes, b.route, k)
        BY <2>2, <2>4 DEF IsBest
      <3>2. found = b /\ n = b.route
        BY <1>5, <1>8, <1>10, <3>1
      <3>3. ASSUME NEW k \in fit PROVE ~Before(routes[k].pattern, routes[n].pattern)
        <4>1. PICK p, q : p = routes[n].pattern /\ q = routes[k].pattern
          OBVIOUS
        <4>2. p \in Seq(Segment) /\ q \in Seq(Segment) /\ Len(p) = Len(q)
          BY <1>8, <3>1, <3>2, <4>1
        <4>3. BeforePath(Edges(p), Edges(q)) \/ ~BeforePath(Edges(q), Edges(p))
          BY <3>1, <3>2, <4>1 DEF Ahead, Path
        <4>4. ~BeforePath(Edges(q), Edges(p))
          <5>1. Edges(p) \in Seq(Edge) /\ Edges(q) \in Seq(Edge) /\ Len(Edges(p)) = Len(Edges(q))
            BY <4>2, EdgesType
          <5> QED BY <4>3, <5>1, BeforeOneWay
        <4> QED BY <4>1, <4>2, <4>4, BeforeByEdges
      <3> QED BY <1>6, <2>4, <3>1, <3>2, <3>3
    <2> QED BY <2>3, <2>4
  <1> QED BY <1>9, <1>10

-----------------------------------------------------------------------------
\* Bun's router

LEMMA BunTable ==
  ASSUME NEW list \in Seq(Registrable), NEW map, map = BuildBunRoutes(list)
  PROVE  /\ \A k \in DOMAIN map : /\ map[k] \in DOMAIN list /\ IsTemplate(list[map[k]])
                                  /\ k = <<list[map[k]].pattern, list[map[k]].method>>
         /\ \A n \in DOMAIN list : IsTemplate(list[n]) =>
                                     <<list[n].pattern, list[n].method>> \in DOMAIN map
  <1> DEFINE Templates == {n \in DOMAIN list : IsTemplate(list[n])}
             Entry(n) == <<list[n].pattern, list[n].method>>
             Chosen(k) == CHOOSE n \in Templates : Entry(n) = k /\ \A i \in Templates : Entry(i) = k => i <= n
  <1>1. map = [k \in {Entry(n) : n \in Templates} |-> Chosen(k)]
    BY DEF BuildBunRoutes
  <1>2. ASSUME NEW k \in {Entry(n) : n \in Templates} PROVE Chosen(k) \in Templates /\ Entry(Chosen(k)) = k
    <2>1. PICK T : T = {n \in Templates : Entry(n) = k}
      OBVIOUS
    <2>2. T \in SUBSET (0 .. Len(list)) /\ T # {} /\ Len(list) \in Nat
      BY <2>1, ListTypes
    <2>3. PICK n \in T : \A i \in T : i <= n
      BY <2>2, Largest
    <2>4. n \in Templates /\ Entry(n) = k /\ \A i \in Templates : Entry(i) = k => i <= n
      BY <2>1, <2>3
    <2> HIDE DEF Templates, Entry
    <2> QED BY <2>4
  <1> QED BY <1>1, <1>2

\* Where Bun matches a route of its own, it is the one findRoute finds.
LEMMA BunRight ==
  ASSUME RouterInv, DistinctShapes, NEW m \in Methods \ {"HEAD"}, NEW t \in Targets,
         bunRoutes = BuildBunRoutes(routes), NEW n, n = FindRoute(m, t).route,
         n = 0 \/ IsTemplate(routes[n]),
         NEW p \in BunMatch(NormalizePath(t)), <<p, m>> \in DOMAIN bunRoutes
  PROVE  bunRoutes[<<p, m>>] = n
  <1>1. PICK segs \in Segs : segs = NormalizePath(t)
    BY NormalizedType
  <1>2. PICK k : k = bunRoutes[<<p, m>>]
    OBVIOUS
  <1>3. routes \in Seq(Registrable)
    BY DEF RouterInv
  <1>4. k \in DOMAIN routes /\ routes[k].pattern = p /\ routes[k].method = m /\ IsTemplate(routes[k])
    <2>1. <<p, m>> = <<routes[k].pattern, routes[k].method>>
      BY <1>2, <1>3, BunTable
    <2> QED BY <1>2, <1>3, <2>1, BunTable
  <1>5. Fits(p, segs) /\ \A q \in {x[1] : x \in DOMAIN bunRoutes} : Fits(q, segs) => ~Before(q, p)
    BY <1>1 DEF BunMatch
  <1>6. PICK fit : fit = Fitting(routes, m, segs)
    OBVIOUS
  <1>7. k \in fit
    BY <1>4, <1>5, <1>6 DEF Fitting
  <1>8. n \in fit /\ \A x \in fit : ~Before(routes[x].pattern, routes[n].pattern)
    BY <1>1, <1>6, <1>7, FindRouteFound
  <1>9. n \in DOMAIN routes /\ routes[n].method = m /\ Fits(routes[n].pattern, segs) /\ n # 0
    BY <1>3, <1>6, <1>8, ListTypes DEF Fitting
  <1>10. ~Before(routes[n].pattern, p)
    <2>1. PICK x : x = <<routes[n].pattern, routes[n].method>>
      OBVIOUS
    <2>2. x \in DOMAIN bunRoutes /\ x[1] = routes[n].pattern
      BY <1>3, <1>9, <2>1, BunTable
    <2> QED BY <1>5, <1>9, <2>2
  <1>11. ~Before(p, routes[n].pattern)
    BY <1>4, <1>7, <1>8
  <1>12. Edges(p) = Edges(routes[n].pattern)
    <2>1. p \in Seq(Segment) /\ routes[n].pattern \in Seq(Segment)
      BY <1>3, <1>4, <1>9, ListTypes
    <2> QED BY <1>5, <1>9, <1>10, <1>11, <2>1, NeitherBefore
  <1> QED BY <1>2, <1>4, <1>9, <1>12 DEF DistinctShapes

LEMMA BunAgrees == RouterInv => BunTemplatesAgree
  <1> SUFFICES ASSUME RouterInv, OnBun, DistinctShapes, NEW m \in Methods \ {"HEAD"}, NEW t \in Targets,
                      NEW n, n = FindRoute(m, t).route, n = 0 \/ IsTemplate(routes[n])
               PROVE  BunLookup(m, t) = {n}
    BY DEF BunTemplatesAgree
  <1>1. PICK matched : matched = BunMatch(NormalizePath(t))
    OBVIOUS
  <1>2. HandleBunFallback(m, t) = n
    BY DEF HandleBunFallback
  <1>3. \A p \in matched : <<p, m>> \in DOMAIN bunRoutes => bunRoutes[<<p, m>>] = n
    BY <1>1, BunRight DEF OnBun
  <1>4. BunLookup(m, t) = IF matched = {} THEN {n}
                          ELSE {IF <<p, m>> \in DOMAIN bunRoutes THEN bunRoutes[<<p, m>>] ELSE n : p \in matched}
    BY <1>1, <1>2 DEF BunLookup
  <1>5. \A p \in matched : (IF <<p, m>> \in DOMAIN bunRoutes THEN bunRoutes[<<p, m>>] ELSE n) = n
    BY <1>3
  <1> QED BY <1>4, <1>5

-----------------------------------------------------------------------------
\* The compiled routes

LEMMA AtMostOne ==
  ASSUME NEW N \in Nat, NEW T \in SUBSET (1 .. N), Cardinality(T) <= 1, NEW n \in T, NEW k \in T
  PROVE  k = n
  <1>1. IsFiniteSet(T)
    <2>1. 1 \in Int /\ N \in Int
      OBVIOUS
    <2>2. IsFiniteSet(1 .. N)
      BY <2>1, FS_Interval
    <2> QED BY <2>2, FS_Subset
  <1>2. Cardinality({n}) = 1
    BY FS_Singleton
  <1>3. {n} \in SUBSET T
    OBVIOUS
  <1>4. Cardinality({n}) <= Cardinality(T) /\ (Cardinality(T) = Cardinality({n}) => T = {n})
    BY <1>1, <1>3, FS_Subset
  <1>5. Cardinality(T) \in Nat
    BY <1>1, FS_CardinalityType
  <1>6. T = {n}
    BY <1>2, <1>4, <1>5
  <1> QED BY <1>6

LEMMA AotRight ==
  ASSUME RouterInv, ParamsBound, ConsistentNames, NEW m \in Methods \ {"HEAD"}, NEW t \in Targets,
         NEW segs, segs = NormalizePath(t), NEW fit, fit = Fitting(routes, m, segs),
         SplitPath(t) = segs, ~t.query, \A i \in DOMAIN t.path : Forms[t.path[i]] = "plain",
         Cardinality(fit) <= 1, fit \subseteq AotTable
  PROVE  AotLookup(m, t) = FindRoute(m, t)
  <1>1. segs \in Segs /\ routes \in Seq(Registrable)
    BY NormalizedType DEF RouterInv
  <1>2. PICK found, n : found = FindRoute(m, t) /\ n = found.route
    OBVIOUS
  <1>3. /\ found = Found(n, found.params)
        /\ IF fit = {} THEN found = Plain(0) ELSE n \in fit
    BY <1>2, FindRouteFound
  <1>4. PICK bare : bare = [i \in DOMAIN segs |-> <<segs[i]>>]
    OBVIOUS
  <1>5. AotSegments(t) = bare
    BY <1>4 DEF AotSegments
  <1>6. \A p \in Seq(Segment) : MatchSegments(p, bare) <=> Fits(p, segs)
    <2>1. Len(bare) = Len(segs) /\ DOMAIN bare = 1 .. Len(segs) /\ Len(segs) \in Nat
      <3>1. DOMAIN segs = 1 .. Len(segs) /\ Len(segs) \in Nat
        BY <1>1, LenProperties DEF Segs
      <3>2. PICK l \in Nat : l = Len(segs)
        BY <3>1
      <3>3. bare \in [1 .. l -> {<<segs[i]>> : i \in DOMAIN segs}]
        BY <1>4, <3>1, <3>2
      <3>4. Len(bare) = l
        BY <3>3
      <3> QED BY <1>4, <3>1, <3>2, <3>4
    <2>2. \A x, i : i \in 1 .. Len(segs) => (<<x>> = bare[i] <=> x = segs[i])
      BY <1>4, <2>1
    <2> SUFFICES ASSUME NEW p \in Seq(Segment), Len(p) = Len(segs)
                 PROVE  (\A i \in DOMAIN p : p[i].param \/ <<p[i].name>> = bare[i])
                          <=> (\A i \in DOMAIN p : p[i].param \/ p[i].name = segs[i])
      BY <2>1 DEF MatchSegments, Fits
    <2>3. \A i \in DOMAIN p : i \in 1 .. Len(segs)
      BY EdgesType
    <2>4. \A i \in DOMAIN p : <<p[i].name>> = bare[i] <=> p[i].name = segs[i]
      BY Zenon, <2>2, <2>3
    <2> QED BY Zenon, <2>4
  <1>7. PICK matching : matching = {k \in AotTable : /\ routes[k].method = m
                                                     /\ MatchSegments(routes[k].pattern, bare)}
    OBVIOUS
  <1>8. matching = fit
    <2>1. \A k \in DOMAIN routes : routes[k].pattern \in Seq(Segment)
      BY <1>1, ListTypes
    <2> QED BY <1>6, <1>7, <2>1 DEF Fitting, AotTable
  <1>9. CASE fit = {}
    <2>1. AotLookup(m, t) = Plain(0)
      BY <1>5, <1>7, <1>8, <1>9 DEF AotLookup
    <2> QED BY <1>2, <1>3, <1>9, <2>1
  <1>10. CASE fit # {}
    <2>1. fit = {n}
      <3>1. fit \subseteq 1 .. Len(routes) /\ Len(routes) \in Nat
        BY <1>1, ListTypes DEF Fitting
      <3>2. \A k \in fit : k = n
        BY <1>3, <1>10, <3>1, AtMostOne
      <3> QED BY <1>3, <1>10, <3>2
    <2>2. n \in Nat /\ n # 0
      BY <1>1, <2>1, ListTypes DEF Fitting
    <2>3. (CHOOSE k \in matching : \A x \in matching : k <= x) = n
      BY <1>8, <2>1, <2>2
    <2>4. AotLookup(m, t) = Found(n, Captured(routes[n].pattern, bare))
      BY <1>5, <1>7, <1>8, <1>10, <2>3 DEF AotLookup
    <2>5. [i \in DOMAIN segs |-> Decoded[segs[i]]] = bare
      <3>1. \A i \in DOMAIN segs : segs[i] \in DOMAIN Forms /\ Forms[segs[i]] = "plain"
        BY <1>1, NormalizedType, ElementOfSeq DEF Segs
      <3>2. \A i \in DOMAIN segs : Decoded[segs[i]] = <<segs[i]>>
        BY <3>1 DEF Decoded
      <3> QED BY <1>4, <3>2
    <2>6. found.params = Captured(routes[n].pattern, bare)
      BY <1>2, <2>2, <2>5 DEF ParamsBound
    <2> QED BY <1>2, <1>3, <2>4, <2>6
  <1> QED BY <1>9, <1>10

LEMMA AotAgreed == RouterInv /\ ParamsBound => AotAgrees
  <1> SUFFICES ASSUME RouterInv, ParamsBound, NEW m \in Methods \ {"HEAD"}, NEW t \in Targets,
                      NEW fit, fit = {n \in DOMAIN routes : /\ routes[n].method = m
                                                            /\ Fits(routes[n].pattern, NormalizePath(t))},
                      ConsistentNames, SplitPath(t) = NormalizePath(t), ~t.query,
                      \A i \in DOMAIN t.path : Forms[t.path[i]] = "plain",
                      Cardinality(fit) <= 1, fit \subseteq AotTable
               PROVE  AotLookup(m, t) = FindRoute(m, t)
    BY DEF AotAgrees
  <1>1. fit = Fitting(routes, m, NormalizePath(t))
    BY DEF Fitting
  <1> QED BY <1>1, AotRight

-----------------------------------------------------------------------------
\* The Rust core's table

\* Of the first N routes, those that go to the trie of m and those that do not.
RustRoutes(list, N, m) == {n \in 1 .. N : list[n].method = m /\ RustHasParams(list[n].pattern)}
RustThrough(list, N, m, q) == {n \in RustRoutes(list, N, m) : Pre(q, Path(list, n))}
RustAt(list, N, m, q) == {n \in RustRoutes(list, N, m) : Path(list, n) = q}
RustExactAt(list, N, m, q) ==
  {n \in 1 .. N : list[n].method = m /\ ~RustHasParams(list[n].pattern) /\ Path(list, n) = q}

RustTrieOf(trie, list, N, m) ==
  /\ DOMAIN trie \subseteq Seq(Edge)
  /\ \A q \in Seq(Edge) : q \in DOMAIN trie <=> q = <<>> \/ RustThrough(list, N, m, q) # {}
  /\ \A q \in DOMAIN trie : trie[q].route \in Nat /\ IsLast(trie[q].route, RustAt(list, N, m, q))
  /\ \A q \in Seq(Edge) : Append(q, AnyParam) \in DOMAIN trie =>
       \E n \in RustThrough(list, N, m, Append(q, AnyParam)) :
         /\ IsFirst(n, RustThrough(list, N, m, Append(q, AnyParam)))
         /\ trie[Append(q, AnyParam)].key = list[n].pattern[Len(q) + 1].name

RustExactOf(map, list, N) == \A m, q : IsLast(Get(map, <<m, q>>), RustExactAt(list, N, m, q))
RustStaticOf(map, list, N) == \A q : Get(map, q) = 0 \/ Get(map, q) \in RustExactAt(list, N, "GET", q)

RustTableOf(table, list, N) ==
  /\ DOMAIN table = {"routes", "static_get_routes", "param_roots"}
  /\ RustExactOf(table.routes, list, N)
  /\ RustStaticOf(table.static_get_routes, list, N)
  /\ DOMAIN table.param_roots = Methods
  /\ \A m \in Methods : RustTrieOf(table.param_roots[m], list, N, m)

LEMMA RustTypes ==
  ASSUME NEW list \in Seq(Registrable), NEW N \in Nat, N <= Len(list), NEW n \in 1 .. N
  PROVE  /\ n \in DOMAIN list /\ n \in Nat \ {0} /\ list[n] \in Registrable
         /\ list[n].pattern \in Seq(Segment) /\ Path(list, n) \in Seq(Edge)
  <1>1. n \in DOMAIN list
    BY ListTypes
  <1> QED BY <1>1, ListTypes

LEMMA RustPathFilled ==
  ASSUME NEW p \in Seq(Segment), RustHasParams(p)
  PROVE  Edges(p) # <<>>
  <1>1. PICK i : i \in DOMAIN p
    BY DEF RustHasParams, HasParams
  <1>2. Len(Edges(p)) # 0
    BY <1>1, EdgesType, LenProperties
  <1> QED BY <1>2, EmptySeq

RustGrows(list, n, r, l, m) ==
  \A q : /\ Grows(RustThrough(list, n, m, q), RustThrough(list, l, m, q), l,
                  r.method = m /\ RustHasParams(r.pattern) /\ Pre(q, Edges(r.pattern)))
         /\ Grows(RustAt(list, n, m, q), RustAt(list, l, m, q), l,
                  r.method = m /\ RustHasParams(r.pattern) /\ Edges(r.pattern) = q)
         /\ Grows(RustExactAt(list, n, m, q), RustExactAt(list, l, m, q), l,
                  r.method = m /\ ~RustHasParams(r.pattern) /\ Edges(r.pattern) = q)

LEMMA RustNext ==
  ASSUME NEW list, NEW n \in Nat, NEW l, l = n + 1, NEW r, r = list[l], NEW m
  PROVE  RustGrows(list, n, r, l, m)
  <1>1. 1 .. l = (1 .. n) \cup {l} /\ Path(list, l) = Edges(r.pattern)
    BY DEF Path
  <1>2. RustRoutes(list, l, m) = RustRoutes(list, n, m)
                                   \cup (IF r.method = m /\ RustHasParams(r.pattern) THEN {l} ELSE {})
    BY <1>1 DEF RustRoutes
  <1>3. ASSUME NEW q
        PROVE  /\ Grows(RustThrough(list, n, m, q), RustThrough(list, l, m, q), l,
                        r.method = m /\ RustHasParams(r.pattern) /\ Pre(q, Edges(r.pattern)))
               /\ Grows(RustAt(list, n, m, q), RustAt(list, l, m, q), l,
                        r.method = m /\ RustHasParams(r.pattern) /\ Edges(r.pattern) = q)
               /\ Grows(RustExactAt(list, n, m, q), RustExactAt(list, l, m, q), l,
                        r.method = m /\ ~RustHasParams(r.pattern) /\ Edges(r.pattern) = q)
    <2>1. Grows(RustThrough(list, n, m, q), RustThrough(list, l, m, q), l,
                r.method = m /\ RustHasParams(r.pattern) /\ Pre(q, Edges(r.pattern)))
      BY <1>1, <1>2 DEF RustThrough, Grows
    <2>2. Grows(RustAt(list, n, m, q), RustAt(list, l, m, q), l,
                r.method = m /\ RustHasParams(r.pattern) /\ Edges(r.pattern) = q)
      BY <1>1, <1>2 DEF RustAt, Grows
    <2>3. Grows(RustExactAt(list, n, m, q), RustExactAt(list, l, m, q), l,
                r.method = m /\ ~RustHasParams(r.pattern) /\ Edges(r.pattern) = q)
      BY <1>1 DEF RustExactAt, Grows
    <2> QED BY <2>1, <2>2, <2>3
  <1> QED BY <1>3 DEF RustGrows

\* A route of another method or without a colon leaves the trie alone.
LEMMA RustOther ==
  ASSUME NEW list, NEW n \in Nat, NEW l, l = n + 1, NEW r, r = list[l], NEW m,
         r.method # m \/ ~RustHasParams(r.pattern), NEW trie, RustTrieOf(trie, list, n, m)
  PROVE  RustTrieOf(trie, list, l, m)
  <1>1. \A q : /\ RustThrough(list, l, m, q) = RustThrough(list, n, m, q)
               /\ RustAt(list, l, m, q) = RustAt(list, n, m, q)
    <2>1. RustGrows(list, n, r, l, m)
      BY RustNext
    <2> QED BY <2>1 DEF RustGrows, Grows
  <1> QED BY <1>1 DEF RustTrieOf

RustInserts(trie, after, p, n, e) ==
  /\ DOMAIN after = DOMAIN trie \cup {q \in Seq(Edge) : q # <<>> /\ Pre(q, e)}
  /\ \A q \in DOMAIN after :
       /\ after[q].key = IF q \in DOMAIN trie THEN trie[q].key ELSE KeyOf(p, q)
       /\ after[q].route = IF q = e THEN n ELSE RouteAt(trie, q)

LEMMA RustInserted ==
  ASSUME NEW trie, NEW p \in Seq(Segment), NEW n \in Nat, NEW e, e = Edges(p), e # <<>>,
         DOMAIN trie \subseteq Seq(Edge), NEW after, after = RouteNodeInsert(trie, p, n)
  PROVE  RustInserts(trie, after, p, n, e)
  <1>1. PICK grown : grown = WithNodes(trie, p)
    OBVIOUS
  <1>2. Grew(trie, grown, p, e)
    BY <1>1, Grown
  <1>3. after = WithRoute(grown, e, n)
    BY <1>1 DEF RouteNodeInsert
  <1>4. /\ DOMAIN after = DOMAIN grown
        /\ \A q \in DOMAIN grown : /\ after[q].key = grown[q].key
                                   /\ after[q].route = IF q = e THEN n ELSE grown[q].route
    <2>1. IsFcn(grown) /\ e \in DOMAIN grown
      BY <1>2 DEF Grew
    <2> QED BY <1>3, <2>1, RouteSet
  <1> QED BY <1>2, <1>4 DEF Grew, RustInserts

LEMMA RustNewRoute ==
  ASSUME NEW list \in Seq(Registrable), NEW n \in Nat, NEW l, l = n + 1, l \in DOMAIN list,
         RustHasParams(list[l].pattern), NEW trie, RustTrieOf(trie, list, n, list[l].method)
  PROVE  RustTrieOf(RouteNodeInsert(trie, list[l].pattern, l), list, l, list[l].method)
  <1>1. PICK p, m, e, after : /\ p = list[l].pattern /\ m = list[l].method
                              /\ e = Edges(p) /\ after = RouteNodeInsert(trie, p, l)
    OBVIOUS
  <1>2. /\ p \in Seq(Segment) /\ e \in Seq(Edge) /\ Len(e) = Len(p) /\ Len(p) \in Nat /\ e # <<>>
        /\ \A i \in 1 .. Len(p) : p[i].param <=> e[i] = AnyParam
    <2>1. p \in Seq(Segment) /\ RustHasParams(p)
      BY <1>1, ListTypes
    <2> QED BY <1>1, <2>1, EdgesType, LenProperties, RustPathFilled
  <1>3. l \in Nat /\ \A k \in 1 .. n : k \in Nat /\ k < l
    OBVIOUS
  <1>4. /\ \A q : RustThrough(list, l, m, q)
                    = RustThrough(list, n, m, q) \cup (IF Pre(q, e) THEN {l} ELSE {})
        /\ \A q : RustAt(list, l, m, q) = RustAt(list, n, m, q) \cup (IF e = q THEN {l} ELSE {})
    <2>1. RustGrows(list, n, list[l], l, m)
      BY RustNext
    <2> QED BY <1>1, <2>1 DEF RustGrows, Grows
  <1>5. /\ DOMAIN after = DOMAIN trie \cup {q \in Seq(Edge) : q # <<>> /\ Pre(q, e)}
        /\ \A q \in DOMAIN after :
             /\ after[q].key = IF q \in DOMAIN trie THEN trie[q].key ELSE KeyOf(p, q)
             /\ after[q].route = IF q = e THEN l ELSE RouteAt(trie, q)
    <2>1. DOMAIN trie \subseteq Seq(Edge)
      BY <1>1 DEF RustTrieOf
    <2>2. RustInserts(trie, after, p, l, e)
      BY <1>1, <1>2, <1>3, <2>1, RustInserted
    <2> QED BY <2>2 DEF RustInserts
  <1>6. /\ \A q : RustThrough(list, n, m, q) \subseteq 1 .. n /\ RustAt(list, n, m, q) \subseteq 1 .. n
        /\ \A q \in Seq(Edge) : RustAt(list, n, m, q) # {} => RustThrough(list, n, m, q) # {}
    <2>1. \A q \in Seq(Edge) : Pre(q, q)
      BY LenProperties DEF Pre
    <2> QED BY <2>1 DEF RustThrough, RustAt, RustRoutes
  <1>7. /\ DOMAIN trie \subseteq Seq(Edge)
        /\ \A q \in Seq(Edge) : q \in DOMAIN trie <=> q = <<>> \/ RustThrough(list, n, m, q) # {}
        /\ \A q \in DOMAIN trie : trie[q].route \in Nat /\ IsLast(trie[q].route, RustAt(list, n, m, q))
        /\ \A q \in Seq(Edge) : Append(q, AnyParam) \in DOMAIN trie =>
             \E k \in RustThrough(list, n, m, Append(q, AnyParam)) :
               /\ IsFirst(k, RustThrough(list, n, m, Append(q, AnyParam)))
               /\ trie[Append(q, AnyParam)].key = list[k].pattern[Len(q) + 1].name
    BY <1>1 DEF RustTrieOf
  <1>8. DOMAIN after \subseteq Seq(Edge)
    BY <1>5, <1>7
  <1>9. \A q \in Seq(Edge) : q \in DOMAIN after <=> q = <<>> \/ RustThrough(list, l, m, q) # {}
    <2> TAKE q \in Seq(Edge)
    <2>1. q \in DOMAIN after <=> q \in DOMAIN trie \/ (q # <<>> /\ Pre(q, e))
      BY <1>5
    <2>2. RustThrough(list, l, m, q) # {} <=> RustThrough(list, n, m, q) # {} \/ Pre(q, e)
      BY <1>4
    <2> QED BY <1>7, <2>1, <2>2
  <1>10. ASSUME NEW q \in DOMAIN after
         PROVE  after[q].route \in Nat /\ IsLast(after[q].route, RustAt(list, l, m, q))
    <2>1. CASE q = e
      <3>1. after[q].route = l /\ RustAt(list, l, m, q) = RustAt(list, n, m, q) \cup {l}
        BY <1>4, <1>5, <2>1
      <3>2. \A k \in RustAt(list, n, m, q) : k <= l
        BY <1>3, <1>6
      <3> QED BY <1>3, <3>1, <3>2 DEF IsLast
    <2>2. CASE q # e
      <3>1. after[q].route = RouteAt(trie, q)
        BY <1>5, <2>2
      <3>2. RustAt(list, l, m, q) = RustAt(list, n, m, q)
        <4>1. RustAt(list, l, m, q) = RustAt(list, n, m, q) \cup (IF e = q THEN {l} ELSE {})
          BY <1>4
        <4> QED BY <2>2, <4>1
      <3>3. CASE q \in DOMAIN trie
        BY <1>7, <3>1, <3>2, <3>3 DEF RouteAt
      <3>4. CASE q \notin DOMAIN trie
        <4>1. RustAt(list, n, m, q) = {}
          BY <1>6, <1>7, <1>8, <3>4
        <4> QED BY <3>1, <3>2, <3>4, <4>1 DEF IsLast, RouteAt
      <3> QED BY <3>3, <3>4
    <2> QED BY <2>1, <2>2
  <1>11. ASSUME NEW q \in Seq(Edge), Append(q, AnyParam) \in DOMAIN after
         PROVE  \E k \in RustThrough(list, l, m, Append(q, AnyParam)) :
                  /\ IsFirst(k, RustThrough(list, l, m, Append(q, AnyParam)))
                  /\ after[Append(q, AnyParam)].key = list[k].pattern[Len(q) + 1].name
    <2>1. PICK c : c = Append(q, AnyParam)
      OBVIOUS
    <2>2. c \in Seq(Edge) /\ Len(c) = Len(q) + 1 /\ c[Len(q) + 1] = AnyParam /\ Len(q) \in Nat
      BY <2>1, AppendProperties, LenProperties DEF Edge
    <2>3. CASE c \in DOMAIN trie
      <3>1. PICK k \in RustThrough(list, n, m, c) : /\ IsFirst(k, RustThrough(list, n, m, c))
                                                    /\ trie[c].key = list[k].pattern[Len(q) + 1].name
        BY <1>7, <2>1, <2>3
      <3>2. after[c].key = trie[c].key /\ k \in RustThrough(list, l, m, c)
        BY <1>4, <1>5, <2>3
      <3>3. IsFirst(k, RustThrough(list, l, m, c))
        <4>1. \A x \in RustThrough(list, n, m, c) : k <= x
          BY <3>1 DEF IsFirst
        <4>2. k <= l
          BY <1>3, <1>6
        <4>3. \A x \in RustThrough(list, l, m, c) : x \in RustThrough(list, n, m, c) \/ x = l
          BY <1>4
        <4> QED BY <3>2, <4>1, <4>2, <4>3 DEF IsFirst
      <3> QED BY <2>1, <3>1, <3>2, <3>3
    <2>4. CASE c \notin DOMAIN trie
      <3>1. Pre(c, e)
        BY <1>5, <1>11, <2>1, <2>4
      <3>2. Len(q) + 1 \in 1 .. Len(p) /\ p[Len(q) + 1].param
        BY <1>2, <2>2, <3>1 DEF Pre
      <3>3. after[c].key = list[l].pattern[Len(q) + 1].name
        <4>1. after[c].key = KeyOf(p, c)
          BY <1>5, <1>11, <2>1, <2>4
        <4>2. KeyOf(p, c) = p[Len(q) + 1].name
          BY <2>2, <3>2 DEF KeyOf
        <4> QED BY <1>1, <4>1, <4>2
      <3>4. RustThrough(list, l, m, c) = {l}
        <4>1. RustThrough(list, n, m, c) = {}
          BY <1>7, <2>2, <2>4
        <4> QED BY <1>4, <3>1, <4>1
      <3>5. IsFirst(l, RustThrough(list, l, m, c))
        BY <1>3, <3>4 DEF IsFirst
      <3> QED BY <2>1, <3>3, <3>4, <3>5
    <2> QED BY <2>3, <2>4
  <1>12. RustTrieOf(after, list, l, m)
    BY <1>8, <1>9, <1>10, <1>11 DEF RustTrieOf
  <1> QED BY <1>1, <1>12

LEMMA RustNewExact ==
  ASSUME NEW list \in Seq(Registrable), NEW n \in Nat, NEW l, l = n + 1, NEW r, r = list[l],
         ~RustHasParams(r.pattern), NEW map, RustExactOf(map, list, n)
  PROVE  RustExactOf(Put(map, <<r.method, Edges(r.pattern)>>, l), list, l)
  <1>1. PICK k, after : k = <<r.method, Edges(r.pattern)>> /\ after = Put(map, k, l)
    OBVIOUS
  <1>2. \A x : Get(after, x) = IF x = k THEN l ELSE Get(map, x)
    BY <1>1 DEF Put, Get
  <1>3. ASSUME NEW m, NEW q PROVE IsLast(Get(after, <<m, q>>), RustExactAt(list, l, m, q))
    <2>1. RustGrows(list, n, r, l, m)
      BY RustNext
    <2>2. RustExactAt(list, l, m, q)
            = RustExactAt(list, n, m, q)
                \cup (IF r.method = m /\ ~RustHasParams(r.pattern) /\ Edges(r.pattern) = q THEN {l} ELSE {})
      BY <2>1 DEF RustGrows, Grows
    <2>3. CASE r.method = m /\ Edges(r.pattern) = q
      <3>1. RustExactAt(list, l, m, q) = RustExactAt(list, n, m, q) \cup {l}
        BY <2>2, <2>3
      <3>2. <<m, q>> = k
        BY <1>1, <2>3
      <3>3. Get(after, <<m, q>>) = l
        BY <1>2, <3>2
      <3>4. \A x \in RustExactAt(list, n, m, q) : x <= l
        BY DEF RustExactAt
      <3> QED BY <3>1, <3>3, <3>4 DEF IsLast
    <2>4. CASE ~(r.method = m /\ Edges(r.pattern) = q)
      <3>1. RustExactAt(list, l, m, q) = RustExactAt(list, n, m, q)
        BY <2>2, <2>4
      <3>2. <<m, q>> # k
        BY <1>1, <2>4
      <3>3. Get(after, <<m, q>>) = Get(map, <<m, q>>)
        BY <1>2, <3>2
      <3> QED BY <3>1, <3>3 DEF RustExactOf
    <2> QED BY <2>3, <2>4
  <1> QED BY <1>1, <1>3 DEF RustExactOf

LEMMA RustNewStatic ==
  ASSUME NEW list \in Seq(Registrable), NEW n \in Nat, NEW l, l = n + 1, NEW r, r = list[l],
         NEW map, RustStaticOf(map, list, n)
  PROVE  /\ RustStaticOf(map, list, l)
         /\ r.method = "GET" /\ ~RustHasParams(r.pattern) =>
              RustStaticOf(Put(map, Edges(r.pattern), l), list, l)
  <1>1. \A q : RustExactAt(list, n, "GET", q) \subseteq RustExactAt(list, l, "GET", q)
    BY DEF RustExactAt
  <1>2. RustStaticOf(map, list, l)
    BY <1>1 DEF RustStaticOf
  <1>3. ASSUME r.method = "GET", ~RustHasParams(r.pattern)
        PROVE  RustStaticOf(Put(map, Edges(r.pattern), l), list, l)
    <2>1. PICK k, after : k = Edges(r.pattern) /\ after = Put(map, k, l)
      OBVIOUS
    <2>2. \A x : Get(after, x) = IF x = k THEN l ELSE Get(map, x)
      BY <2>1 DEF Put, Get
    <2>3. l \in RustExactAt(list, l, "GET", k)
      BY <1>3, <2>1 DEF RustExactAt, Path
    <2>4. \A q : Get(after, q) = 0 \/ Get(after, q) \in RustExactAt(list, l, "GET", q)
      BY <1>2, <2>2, <2>3 DEF RustStaticOf
    <2> QED BY <2>1, <2>4 DEF RustStaticOf
  <1> QED BY <1>2, <1>3

LEMMA RustEntry ==
  ASSUME NEW list \in Seq(Registrable), NEW n \in Nat, NEW l, l = n + 1, l \in DOMAIN list,
         NEW table, RustTableOf(table, list, n), NEW after, after = AddEntry(table, list[l], l)
  PROVE  RustTableOf(after, list, l)
  <1>1. PICK r, p : r = list[l] /\ p = r.pattern
    OBVIOUS
  <1>2. r \in Registrable /\ r.method \in Methods /\ p \in Seq(Segment)
    BY <1>1, ListTypes, RouteAssumption
  <1>3. /\ DOMAIN table = {"routes", "static_get_routes", "param_roots"}
        /\ RustExactOf(table.routes, list, n)
        /\ RustStaticOf(table.static_get_routes, list, n)
        /\ DOMAIN table.param_roots = Methods
        /\ \A m \in Methods : RustTrieOf(table.param_roots[m], list, n, m)
    BY DEF RustTableOf
  <1>4. CASE RustHasParams(p)
    <2>1. PICK grown : grown = RouteNodeInsert(table.param_roots[r.method], p, l)
      OBVIOUS
    <2>2. after = [table EXCEPT !.param_roots = [table.param_roots EXCEPT ![r.method] = grown]]
      BY <1>1, <1>4, <2>1 DEF AddEntry
    <2>3. /\ DOMAIN after = {"routes", "static_get_routes", "param_roots"}
          /\ after.routes = table.routes /\ after.static_get_routes = table.static_get_routes
          /\ DOMAIN after.param_roots = Methods
          /\ \A m \in Methods : after.param_roots[m] = IF m = r.method THEN grown ELSE table.param_roots[m]
      BY <1>3, <2>2
    <2>4. RustExactOf(after.routes, list, l)
      <3>1. \A m, q : RustExactAt(list, l, m, q) = RustExactAt(list, n, m, q)
        <4> TAKE m, q
        <4>1. RustGrows(list, n, r, l, m)
          BY <1>1, RustNext
        <4> QED BY <1>1, <1>4, <4>1 DEF RustGrows, Grows
      <3>2. PICK map : map = table.routes
        OBVIOUS
      <3>3. RustExactOf(map, list, n) /\ after.routes = map
        BY <1>3, <2>3, <3>2
      <3>4. RustExactOf(map, list, l)
        BY <3>1, <3>3 DEF RustExactOf
      <3> QED BY <3>3, <3>4
    <2>5. RustStaticOf(after.static_get_routes, list, l)
      BY <1>1, <1>3, <2>3, RustNewStatic
    <2>6. ASSUME NEW m \in Methods PROVE RustTrieOf(after.param_roots[m], list, l, m)
      <3>1. CASE m = r.method
        <4>1. RustTrieOf(grown, list, l, m)
          <5>1. PICK trie : trie = table.param_roots[m]
            OBVIOUS
          <5>2. RustTrieOf(trie, list, n, m) /\ grown = RouteNodeInsert(trie, p, l)
            BY <1>3, <2>1, <3>1, <5>1
          <5>3. p = list[l].pattern /\ m = list[l].method
            BY <1>1, <3>1
          <5>4. RustTrieOf(RouteNodeInsert(trie, list[l].pattern, l), list, l, list[l].method)
            BY <1>4, <5>2, <5>3, RustNewRoute
          <5> QED BY <5>2, <5>3, <5>4
        <4> QED BY <2>3, <3>1, <4>1
      <3>2. CASE m # r.method
        <4>1. RustTrieOf(table.param_roots[m], list, l, m)
          BY <1>1, <1>3, <3>2, RustOther
        <4> QED BY <2>3, <3>2, <4>1
      <3> QED BY <3>1, <3>2
    <2> QED BY <2>3, <2>4, <2>5, <2>6 DEF RustTableOf
  <1>5. CASE ~RustHasParams(p)
    <2>1. PICK exactly, static : /\ exactly = Put(table.routes, <<r.method, Edges(p)>>, l)
                                 /\ static = IF r.method = "GET" /\ r.sort = "template"
                                             THEN Put(table.static_get_routes, Edges(p), l)
                                             ELSE table.static_get_routes
      OBVIOUS
    <2>2. after = [table EXCEPT !.routes = exactly, !.static_get_routes = static]
      BY <1>1, <1>5, <2>1 DEF AddEntry
    <2>3. /\ DOMAIN after = {"routes", "static_get_routes", "param_roots"}
          /\ after.routes = exactly /\ after.static_get_routes = static
          /\ after.param_roots = table.param_roots
      BY <1>3, <2>2
    <2>4. RustExactOf(exactly, list, l)
      BY <1>1, <1>3, <1>5, <2>1, RustNewExact
    <2>5. RustStaticOf(static, list, l)
      BY <1>1, <1>3, <1>5, <2>1, RustNewStatic
    <2>6. \A m \in Methods : RustTrieOf(table.param_roots[m], list, l, m)
      BY <1>1, <1>3, <1>5, RustOther
    <2> QED BY <1>3, <2>3, <2>4, <2>5, <2>6 DEF RustTableOf
  <1> QED BY <1>4, <1>5

LEMMA RustEmpty ==
  ASSUME NEW list
  PROVE  RustTableOf(NoRust, list, 0)
  <1>1. \A m, q : RustThrough(list, 0, m, q) = {} /\ RustAt(list, 0, m, q) = {} /\ RustExactAt(list, 0, m, q) = {}
    BY DEF RustThrough, RustAt, RustExactAt, RustRoutes
  <1>2. ASSUME NEW m PROVE RustTrieOf(EmptyTrie, list, 0, m)
    <2>1. DOMAIN EmptyTrie = {<<>>} /\ EmptyTrie[<<>>].route = 0
      BY DEF EmptyTrie
    <2>2. \A q \in Seq(Edge) : Append(q, AnyParam) # <<>>
      BY AppendProperties DEF Edge
    <2> QED BY <1>1, <2>1, <2>2, EmptySeq DEF RustTrieOf, IsLast
  <1>3. DOMAIN EmptyTries = Methods /\ \A m \in Methods : EmptyTries[m] = EmptyTrie
    BY DEF EmptyTries
  <1>4. \A x : Get(<<>>, x) = 0
    BY DEF Get
  <1>5. RustExactOf(<<>>, list, 0) /\ RustStaticOf(<<>>, list, 0)
    BY <1>1, <1>4 DEF RustExactOf, RustStaticOf, IsLast
  <1>6. /\ DOMAIN NoRust = {"routes", "static_get_routes", "param_roots"}
        /\ NoRust.routes = <<>> /\ NoRust.static_get_routes = <<>> /\ NoRust.param_roots = EmptyTries
    BY DEF NoRust
  <1> QED BY <1>2, <1>3, <1>5, <1>6 DEF RustTableOf

\* The table is built entry by entry.
IsBuilt(built, list) ==
  built = [n \in 0 .. Len(list) |-> IF n = 0 THEN NoRust ELSE AddEntry(built[n - 1], list[n], n)]

LEMMA BuiltExists ==
  ASSUME NEW list, Len(list) \in Nat
  PROVE  \E built : IsBuilt(built, list)
  <1> DEFINE Step(f, n) == IF n = 0 THEN NoRust ELSE AddEntry(f[n - 1], list[n], n)
             S == {k \in Nat : \E f : f = [n \in 0 .. k |-> Step(f, n)]}
  <1>1. 0 \in S
    <2>1. PICK f : f = [n \in 0 .. 0 |-> NoRust]
      OBVIOUS
    <2>2. f = [n \in 0 .. 0 |-> Step(f, n)]
      BY <2>1
    <2> QED BY <2>2
  <1>2. ASSUME NEW k \in Nat, k \in S PROVE k + 1 \in S
    <2>1. PICK f : f = [n \in 0 .. k |-> Step(f, n)]
      BY <1>2
    <2>2. PICK last : last = AddEntry(f[k], list[k + 1], k + 1)
      OBVIOUS
    <2>3. PICK g : g = [n \in 0 .. k + 1 |-> IF n = k + 1 THEN last ELSE f[n]]
      OBVIOUS
    <2>4. ASSUME NEW n \in 0 .. k + 1 PROVE g[n] = Step(g, n)
      <3>1. CASE n = k + 1
        <4>1. n # 0 /\ n - 1 = k /\ k \in 0 .. k + 1 /\ k # k + 1
          BY <3>1
        <4>2. g[n] = last /\ g[n - 1] = f[k]
          BY <2>3, <3>1, <4>1
        <4> QED BY <2>2, <3>1, <4>1, <4>2
      <3>2. CASE n \in 0 .. k
        <4>1. g[n] = f[n] /\ f[n] = Step(f, n)
          <5>1. n # k + 1
            BY <3>2
          <5>2. g[n] = f[n]
            BY <2>3, <5>1
          <5> HIDE DEF Step
          <5> QED BY <2>1, <3>2, <5>2
        <4>2. CASE n = 0
          BY <4>1, <4>2
        <4>3. CASE n # 0
          <5>1. n - 1 \in 0 .. k + 1 /\ n - 1 # k + 1
            BY <3>2, <4>3
          <5>2. g[n - 1] = f[n - 1]
            BY <2>3, <5>1
          <5> QED BY <4>1, <4>3, <5>2
        <4> QED BY <4>2, <4>3
      <3> QED BY <3>1, <3>2
    <2>5. g = [n \in 0 .. k + 1 |-> Step(g, n)]
      <3> HIDE DEF Step
      <3> QED BY <2>3, <2>4
    <2> QED BY <2>5
  <1>3. Nat \subseteq S
    <2> HIDE DEF S
    <2> QED BY <1>1, <1>2, Induct
  <1> QED BY <1>3 DEF IsBuilt

LEMMA ManifestTable ==
  ASSUME NEW list \in Seq(Registrable)
  PROVE  RustTableOf(FromManifest(list), list, Len(list))
  <1> DEFINE P(f) == f = [n \in 0 .. Len(list) |->
                            IF n = 0 THEN NoRust ELSE AddEntry(f[n - 1], list[n], n)]
  <1>1. Len(list) \in Nat /\ DOMAIN list = 1 .. Len(list)
    BY ListTypes
  <1>2. FromManifest(list) = (CHOOSE f : P(f))[Len(list)]
    BY DEF FromManifest
  <1>3. \E f : P(f)
    <2>1. PICK built : IsBuilt(built, list)
      BY <1>1, BuiltExists
    <2> QED BY <2>1 DEF IsBuilt
  <1>4. PICK f : f = CHOOSE g : P(g)
    OBVIOUS
  <1>5. P(f)
    <2> HIDE DEF P
    <2> QED BY <1>3, <1>4
  <1> DEFINE S == {n \in Nat : n <= Len(list) => RustTableOf(f[n], list, n)}
  <1>6. 0 \in S
    <2>1. f[0] = NoRust
      BY <1>1, <1>5
    <2> QED BY <2>1, RustEmpty
  <1>7. ASSUME NEW n \in Nat, n \in S PROVE n + 1 \in S
    <2> SUFFICES ASSUME n + 1 <= Len(list) PROVE RustTableOf(f[n + 1], list, n + 1)
      OBVIOUS
    <2>1. PICK l : l = n + 1
      OBVIOUS
    <2>2. l \in DOMAIN list /\ l \in 0 .. Len(list) /\ l # 0 /\ l - 1 = n /\ n <= Len(list)
      BY <1>1, <2>1
    <2>3. f[l] = AddEntry(f[n], list[l], l)
      <3>1. f[l] = AddEntry(f[l - 1], list[l], l)
        BY <1>5, <2>2
      <3> QED BY <2>2, <3>1
    <2>4. RustTableOf(f[n], list, n)
      BY <1>7, <2>2
    <2>5. RustTableOf(f[l], list, l)
      <3> HIDE DEF P, S
      <3> QED BY <2>1, <2>2, <2>3, <2>4, RustEntry
    <2> QED BY <2>1, <2>5
  <1>8. Nat \subseteq S
    <2> HIDE DEF S
    <2> QED BY <1>6, <1>7, Induct
  <1>9. RustTableOf(f[Len(list)], list, Len(list))
    BY <1>1, <1>8
  <1> QED BY <1>2, <1>4, <1>9

-----------------------------------------------------------------------------
\* The two searches

LEMMA RustSearchable ==
  ASSUME NEW list \in Seq(Registrable), NEW N \in Nat, N <= Len(list), NEW m, NEW trie,
         RustTrieOf(trie, list, N, m)
  PROVE  Searchable(trie)
  <1>1. <<>> \in DOMAIN trie
    BY EmptySeq DEF RustTrieOf
  <1>2. ASSUME NEW q \in Seq(Edge), Append(q, AnyParam) \in DOMAIN trie
        PROVE  trie[Append(q, AnyParam)].key \in Keys
    <2>1. PICK c : c = Append(q, AnyParam)
      OBVIOUS
    <2>2. c \in Seq(Edge) /\ Len(c) = Len(q) + 1 /\ c[Len(q) + 1] = AnyParam /\ Len(q) \in Nat
      BY <2>1, AppendProperties, LenProperties DEF Edge
    <2>3. PICK n \in RustThrough(list, N, m, c) : trie[c].key = list[n].pattern[Len(q) + 1].name
      BY <1>2, <2>1 DEF RustTrieOf
    <2>4. n \in 1 .. N /\ Pre(c, Path(list, n))
      BY <2>3 DEF RustThrough, RustRoutes
    <2>5. PICK p \in Seq(Segment) : p = list[n].pattern
      BY <2>4, RustTypes
    <2>6. Len(q) + 1 \in 1 .. Len(p) /\ Edges(p)[Len(q) + 1] = AnyParam
      BY <2>2, <2>4, <2>5, EdgesType, LenProperties DEF Pre, Path
    <2>7. p[Len(q) + 1] \in Segment /\ p[Len(q) + 1].param
      BY <2>6, EdgesType
    <2> QED BY <2>1, <2>3, <2>5, <2>7 DEF Segment
  <1> QED BY <1>1, <1>2 DEF RustTrieOf, Searchable

\* No two routes of a method have one path of edges.
Distinct(list) ==
  \A n, k \in DOMAIN list : list[n].method = list[k].method /\ Path(list, n) = Path(list, k) => n = k

\* The routes with a colon inside a segment only, which are exact in TypeScript.
ColonRoutes(list, m) ==
  {n \in DOMAIN list : /\ list[n].method = m
                       /\ RustHasParams(list[n].pattern) /\ ~HasParams(list[n].pattern)}

\* The Rust core's routes are those with parameters and those with colons.
LEMMA RustSplit ==
  ASSUME NEW list \in Seq(Registrable), NEW m
  PROVE  /\ RustRoutes(list, Len(list), m) = ParamRoutes(list, m) \cup ColonRoutes(list, m)
         /\ \A q : /\ RustExactAt(list, Len(list), m, q) = {n \in ExactAt(list, m, q) : n \notin ColonRoutes(list, m)}
                   /\ \A n \in ColonRoutes(list, m) : Path(list, n) = q => n \in ExactAt(list, m, q)
  BY ListTypes DEF RustRoutes, ParamRoutes, ColonRoutes, RustExactAt, ExactAt, RustHasParams

\* A route without parameters has no parameter edge.
LEMMA ColonPath ==
  ASSUME NEW list \in Seq(Registrable), NEW m, NEW n \in ColonRoutes(list, m)
  PROVE  /\ Path(list, n) \in Seq(Edge)
         /\ \A i \in 1 .. Len(Path(list, n)) : Path(list, n)[i] # AnyParam
  <1>1. n \in DOMAIN list /\ ~HasParams(list[n].pattern)
    BY DEF ColonRoutes
  <1>2. PICK p \in Seq(Segment) : p = list[n].pattern
    BY <1>1, ListTypes
  <1>3. Path(list, n) = Edges(p) /\ ~HasParams(p)
    BY <1>1, <1>2 DEF Path
  <1> QED BY <1>3, EdgesType DEF HasParams

\* What the two tries have at a node.
SameNode(list, m, trie, rtrie, segs, q) ==
  /\ q \in DOMAIN trie => q \in DOMAIN rtrie
  /\ FitsTo(q, segs) /\ Len(q) = Len(segs) =>
       /\ q \in DOMAIN trie => rtrie[q].route = trie[q].route
       /\ q \in DOMAIN rtrie /\ q \notin DOMAIN trie => rtrie[q].route = 0

LEMMA NodesAlike ==
  ASSUME NEW list \in Seq(Registrable), Distinct(list), NEW m, NEW trie, TrieOf(trie, list, m),
         NEW rtrie, RustTrieOf(rtrie, list, Len(list), m), NEW segs \in Segs,
         \A n \in ColonRoutes(list, m) : Path(list, n) # segs, NEW q \in Seq(Edge)
  PROVE  SameNode(list, m, trie, rtrie, segs, q)
  <1>1. \A x : /\ Through(list, m, x) \subseteq RustThrough(list, Len(list), m, x)
               /\ At(list, m, x) \subseteq RustAt(list, Len(list), m, x)
    BY RustSplit DEF Through, RustThrough, At, RustAt
  <1>2. q \in DOMAIN trie => q \in DOMAIN rtrie
    BY <1>1 DEF TrieOf, RustTrieOf
  <1>3. ASSUME FitsTo(q, segs), Len(q) = Len(segs)
        PROVE  RustAt(list, Len(list), m, q) = At(list, m, q)
    <2>1. ASSUME NEW n \in ColonRoutes(list, m), Path(list, n) = q PROVE FALSE
      <3>1. \A i \in 1 .. Len(q) : q[i] = segs[i]
        BY <1>3, <2>1, ColonPath DEF FitsTo
      <3>2. segs \in Seq(Edge)
        <4>1. DOMAIN segs = 1 .. Len(segs) /\ Len(segs) \in Nat /\ \A i \in 1 .. Len(segs) : segs[i] \in Edge
          BY LenProperties, ElementOfSeq DEF Segs, Edge
        <4> QED BY <4>1 DEF Segs
      <3>3. q = segs
        BY <1>3, <3>1, <3>2, SeqEqual
      <3> QED BY <2>1, <3>3
    <2> QED BY <2>1, RustSplit DEF RustAt, At
  <1>4. ASSUME FitsTo(q, segs), Len(q) = Len(segs), q \in DOMAIN trie
        PROVE  rtrie[q].route = trie[q].route
    <2>1. IsFirst(trie[q].route, At(list, m, q)) /\ IsLast(rtrie[q].route, At(list, m, q))
      BY <1>2, <1>3, <1>4 DEF TrieOf, RustTrieOf
    <2>2. \A n, k \in At(list, m, q) : n = k
      BY DEF At, ParamRoutes, Distinct
    <2> QED BY <2>1, <2>2 DEF IsFirst, IsLast
  <1>5. ASSUME FitsTo(q, segs), Len(q) = Len(segs), q \in DOMAIN rtrie, q \notin DOMAIN trie
        PROVE  rtrie[q].route = 0
    <2>1. IsLast(rtrie[q].route, At(list, m, q))
      BY <1>3, <1>5 DEF RustTrieOf
    <2>2. At(list, m, q) = {}
      <3>1. Through(list, m, q) = {}
        BY <1>5 DEF TrieOf
      <3>2. Pre(q, q)
        BY LenProperties DEF Pre
      <3> QED BY <3>1, <3>2 DEF Through, At
    <2> QED BY <2>1, <2>2 DEF IsLast
  <1> QED BY <1>2, <1>4, <1>5 DEF SameNode

\* A parameter edge is in both tries or in neither, under one key.
SameParam(trie, rtrie, c) ==
  /\ c \in DOMAIN rtrie <=> c \in DOMAIN trie
  /\ c \in DOMAIN trie => rtrie[c].key = trie[c].key

LEMMA ParamNodesAlike ==
  ASSUME NEW list \in Seq(Registrable), NEW m, NEW trie, TrieOf(trie, list, m),
         NEW rtrie, RustTrieOf(rtrie, list, Len(list), m), NEW q \in Seq(Edge)
  PROVE  SameParam(trie, rtrie, Append(q, AnyParam))
  <1>0. PICK c : c = Append(q, AnyParam)
    OBVIOUS
  <1>1. c \in Seq(Edge) /\ Len(c) = Len(q) + 1 /\ c[Len(q) + 1] = AnyParam /\ Len(q) \in Nat /\ c # <<>>
    BY <1>0, AppendProperties, LenProperties DEF Edge
  <1>2. ASSUME NEW n \in ColonRoutes(list, m) PROVE ~Pre(c, Path(list, n))
    <2>1. PICK e : e = Path(list, n)
      OBVIOUS
    <2>2. e \in Seq(Edge) /\ \A i \in 1 .. Len(e) : e[i] # AnyParam
      BY <2>1, ColonPath
    <2>3. Len(e) \in Nat
      BY <2>2, LenProperties
    <2>4. Pre(c, e) => Len(q) + 1 \in 1 .. Len(e) /\ e[Len(q) + 1] = AnyParam
      BY <1>1, <2>3 DEF Pre
    <2> QED BY <2>1, <2>2, <2>4
  <1>3. RustThrough(list, Len(list), m, c) = Through(list, m, c)
    BY <1>2, RustSplit DEF RustThrough, Through
  <1>4. c \in DOMAIN rtrie <=> c \in DOMAIN trie
    BY <1>1, <1>3 DEF TrieOf, RustTrieOf
  <1>5. ASSUME c \in DOMAIN trie PROVE rtrie[c].key = trie[c].key
    <2>1. PICK n \in Through(list, m, c) : /\ IsFirst(n, Through(list, m, c))
                                           /\ trie[c].key = list[n].pattern[Len(q) + 1].name
      BY <1>0, <1>5 DEF TrieOf
    <2>2. PICK k \in Through(list, m, c) : /\ IsFirst(k, Through(list, m, c))
                                           /\ rtrie[c].key = list[k].pattern[Len(q) + 1].name
      BY <1>0, <1>3, <1>4, <1>5 DEF RustTrieOf
    <2>3. Through(list, m, c) \subseteq Nat
      BY ListTypes DEF Through, ParamRoutes
    <2>4. n = k
      BY <2>1, <2>2, <2>3 DEF IsFirst
    <2> QED BY <2>1, <2>2, <2>4
  <1> QED BY <1>0, <1>4, <1>5 DEF SameParam

\* A trie has the nodes on the way to each of its nodes.
LEMMA TrieClosed ==
  ASSUME NEW list \in Seq(Registrable), NEW m, NEW trie, TrieOf(trie, list, m), NEW q \in Seq(Edge),
         NEW s \in Edge, Append(q, s) \in DOMAIN trie
  PROVE  q \in DOMAIN trie
  <1>1. PICK a : a = Append(q, s)
    OBVIOUS
  <1>2. a \in Seq(Edge) /\ Len(a) = Len(q) + 1 /\ Len(q) \in Nat /\ a # <<>>
        /\ \A i \in 1 .. Len(q) : a[i] = q[i]
    BY <1>1, AppendProperties, LenProperties
  <1>3. PICK n \in Through(list, m, a) : TRUE
    BY <1>1, <1>2 DEF TrieOf
  <1>4. Pre(a, Path(list, n)) /\ n \in ParamRoutes(list, m) /\ Len(Path(list, n)) \in Nat
    BY <1>3, ListTypes DEF Through, ParamRoutes
  <1>5. Pre(q, Path(list, n))
    BY <1>2, <1>4 DEF Pre
  <1>6. Through(list, m, q) # {}
    BY <1>4, <1>5 DEF Through
  <1> QED BY <1>6 DEF TrieOf

-----------------------------------------------------------------------------
\* The two searches give the same answer

\* A search with its results and what it does at a node.
Searches(M, trie, segs, decode) ==
  \A q \in DOMAIN trie, params \in Bindings(segs, decode) :
    /\ M[<<q, params>>] \in Results(segs, decode)
    /\ M[<<q, params>>] = MatchNode(trie, segs, decode, M, q, params)

LEMMA SearchDone ==
  ASSUME NEW trie, Searchable(trie), NEW segs \in Segs, NEW decode
  PROVE  Searches(Matches(trie, segs, decode), trie, segs, decode)
  <1>1. PICK M : M = Matches(trie, segs, decode)
    OBVIOUS
  <1>2. M \in [Calls(trie, segs, decode) -> Results(segs, decode)]
    BY <1>1, MatchesFix
  <1>3. \A q \in DOMAIN trie, params \in Bindings(segs, decode) :
          <<q, params>> \in Calls(trie, segs, decode)
    BY DEF Calls
  <1>4. \A q \in DOMAIN trie, params \in Bindings(segs, decode) :
          M[<<q, params>>] = MatchNode(trie, segs, decode, M, q, params)
    BY <1>1, MatchesFix
  <1> QED BY <1>1, <1>2, <1>3, <1>4 DEF Searches

\* At the last segment, and before it.
LEMMA SearchEnds ==
  ASSUME NEW trie, NEW segs, NEW decode, NEW M, NEW q, NEW params, Len(q) >= Len(segs)
  PROVE  MatchNode(trie, segs, decode, M, q, params) = Found(trie[q].route, params)
  BY DEF MatchNode

Below(trie, M, a, params) == IF a \in DOMAIN trie THEN M[<<a, params>>] ELSE Found(0, params)
Chosen(trie, segs, decode, M, q, params, static, c) ==
  LET k == trie[c].key
      bound == M[<<c, Put(static.params, k, decode[segs[Len(q) + 1]])>>]
  IN IF static.route # 0 \/ c \notin DOMAIN trie THEN static
     ELSE IF bound.route # 0 THEN bound ELSE Found(0, Without(bound.params, k))

LEMMA SearchGoesOn ==
  ASSUME NEW trie, NEW segs, NEW decode, NEW M, NEW q, NEW params, ~(Len(q) >= Len(segs)),
         NEW a, a = Append(q, segs[Len(q) + 1])
  PROVE  MatchNode(trie, segs, decode, M, q, params)
           = Chosen(trie, segs, decode, M, q, params, Below(trie, M, a, params), Append(q, AnyParam))
  BY DEF MatchNode, Chosen, Below

LEMMA SearchSame ==
  ASSUME NEW list \in Seq(Registrable), Distinct(list), NEW m, NEW trie, TrieOf(trie, list, m),
         NEW rtrie, RustTrieOf(rtrie, list, Len(list), m), NEW segs \in Segs,
         \A n \in ColonRoutes(list, m) : Path(list, n) # segs,
         NEW decode, NEW rdecode, \A i \in DOMAIN segs : rdecode[segs[i]] = decode[segs[i]]
  PROVE  MatchRouteTable(rtrie, segs, rdecode) = MatchRouteTable(trie, segs, decode)
  <1>1. PICK M, R, B : /\ M = Matches(trie, segs, decode) /\ R = Matches(rtrie, segs, rdecode)
                       /\ B = Bindings(segs, decode)
    OBVIOUS
  <1>2. Values(segs, rdecode) = Values(segs, decode) /\ Bindings(segs, rdecode) = B
    <2>1. Values(segs, rdecode) = Values(segs, decode)
      BY DEF Values
    <2> QED BY <1>1, <2>1 DEF Bindings
  <1>3. Searchable(trie) /\ Searchable(rtrie) /\ Len(segs) \in Nat /\ DOMAIN segs = 1 .. Len(segs)
    BY TrieSearchable, RustSearchable, ListTypes, LenProperties DEF Segs
  <1>4. Searches(M, trie, segs, decode) /\ Searches(R, rtrie, segs, rdecode)
    BY <1>1, <1>3, SearchDone
  <1>5. /\ \A q \in DOMAIN trie, params \in B :
             M[<<q, params>>] = MatchNode(trie, segs, decode, M, q, params)
        /\ \A q \in DOMAIN rtrie, params \in B :
             R[<<q, params>>] = MatchNode(rtrie, segs, rdecode, R, q, params)
        /\ \A q \in DOMAIN trie, params \in B : M[<<q, params>>].params \in B
    BY <1>1, <1>2, <1>4 DEF Searches, Results
  <1>6. \A q \in Seq(Edge) : SameNode(list, m, trie, rtrie, segs, q)
    BY NodesAlike
  <1>7. DOMAIN trie \subseteq Seq(Edge) /\ DOMAIN rtrie \subseteq Seq(Edge)
    BY <1>3 DEF Searchable
  <1> DEFINE Same(q, params) == R[<<q, params>>] = IF q \in DOMAIN trie THEN M[<<q, params>>]
                                                   ELSE Found(0, params)
             S == {n \in Nat : \A q \in DOMAIN rtrie, params \in B :
                                 Len(q) + n = Len(segs) /\ FitsTo(q, segs) => Same(q, params)}
  <1>8. 0 \in S
    <2> SUFFICES ASSUME NEW q \in DOMAIN rtrie, NEW params \in B, Len(q) + 0 = Len(segs), FitsTo(q, segs)
                 PROVE  Same(q, params)
      OBVIOUS
    <2>1. q \in Seq(Edge) /\ Len(q) = Len(segs) /\ Len(q) >= Len(segs)
      BY <1>3, <1>7, LenProperties
    <2>2. R[<<q, params>>] = Found(rtrie[q].route, params)
      BY <1>5, <2>1, SearchEnds
    <2>3. q \in DOMAIN trie => M[<<q, params>>] = Found(trie[q].route, params)
      BY <1>5, <2>1, SearchEnds
    <2> QED BY <1>6, <2>1, <2>2, <2>3 DEF SameNode
  <1>9. ASSUME NEW n \in Nat, n \in S PROVE n + 1 \in S
    <2> SUFFICES ASSUME NEW q \in DOMAIN rtrie, NEW params \in B, Len(q) + (n + 1) = Len(segs), FitsTo(q, segs)
                 PROVE  Same(q, params)
      OBVIOUS
    <2>1. PICK s, a, c, l : s = segs[Len(q) + 1] /\ a = Append(q, s) /\ c = Append(q, AnyParam) /\ l = Len(q)
      OBVIOUS
    <2>2. q \in Seq(Edge) /\ l \in Nat /\ ~(Len(q) >= Len(segs)) /\ l + 1 \in DOMAIN segs /\ l < Len(segs)
      BY <1>3, <1>7, <2>1, LenProperties
    <2>3. s \in Edge /\ AnyParam \in Edge /\ rdecode[s] = decode[s] /\ decode[s] \in Values(segs, decode)
      BY <1>3, <2>1, <2>2, ElementOfSeq DEF Segs, Edge, Values
    <2>4. /\ a \in Seq(Edge) /\ FitsTo(a, segs) /\ Len(a) + n = Len(segs)
          /\ c \in Seq(Edge) /\ FitsTo(c, segs) /\ Len(c) + n = Len(segs)
      <3>1. Splits(list, m, segs, q, a, c)
        <4>1. a = Append(q, segs[Len(q) + 1]) /\ c = Append(q, AnyParam) /\ Len(q) < Len(segs)
          BY <2>1, <2>2
        <4> QED BY <2>2, <4>1, BestBelow
      <3>2. Len(a) = l + 1 /\ Len(c) = l + 1 /\ a \in Seq(Edge) /\ c \in Seq(Edge)
        BY <2>1, <2>2, <2>3, AppendProperties
      <3>3. l + 1 + n = Len(segs)
        BY <2>1, <2>2
      <3> QED BY <3>1, <3>2, <3>3 DEF Splits
    <2>5. \A p \in DOMAIN rtrie, b \in B : Len(p) + n = Len(segs) /\ FitsTo(p, segs) => Same(p, b)
      BY <1>9
    <2>6. PICK static : static = Below(trie, M, a, params)
      OBVIOUS
    <2>7. static = Below(rtrie, R, a, params)
      <3>1. a \in DOMAIN trie => a \in DOMAIN rtrie
        BY <1>6, <2>4 DEF SameNode
      <3> QED BY <2>4, <2>5, <2>6, <3>1 DEF Below
    <2>8. static.params \in B
      BY <1>5, <2>6 DEF Found, Below
    <2>9. R[<<q, params>>] = Chosen(rtrie, segs, rdecode, R, q, params, static, c)
      <3>1. MatchNode(rtrie, segs, rdecode, R, q, params)
              = Chosen(rtrie, segs, rdecode, R, q, params, Below(rtrie, R, a, params), Append(q, AnyParam))
        BY <2>1, <2>2, SearchGoesOn
      <3>2. R[<<q, params>>] = MatchNode(rtrie, segs, rdecode, R, q, params)
        BY <1>5
      <3> QED BY <2>1, <2>7, <3>1, <3>2
    <2>10. q \in DOMAIN trie => M[<<q, params>>] = Chosen(trie, segs, decode, M, q, params, static, c)
      <3>1. MatchNode(trie, segs, decode, M, q, params)
              = Chosen(trie, segs, decode, M, q, params, Below(trie, M, a, params), Append(q, AnyParam))
        BY <2>1, <2>2, SearchGoesOn
      <3>2. q \in DOMAIN trie => M[<<q, params>>] = MatchNode(trie, segs, decode, M, q, params)
        BY <1>5
      <3> QED BY <2>1, <2>6, <3>1, <3>2
    <2>11. /\ c \in DOMAIN rtrie <=> c \in DOMAIN trie
           /\ c \in DOMAIN trie => rtrie[c].key = trie[c].key
      <3>1. SameParam(trie, rtrie, Append(q, AnyParam))
        BY <2>2, ParamNodesAlike
      <3> QED BY <2>1, <3>1 DEF SameParam
    <2>12. CASE q \notin DOMAIN trie
      <3>1. a \notin DOMAIN trie /\ c \notin DOMAIN trie
        BY <2>1, <2>2, <2>3, <2>12, TrieClosed
      <3>2. Chosen(rtrie, segs, rdecode, R, q, params, static, c) = static
        BY <2>11, <3>1 DEF Chosen
      <3> QED BY <2>6, <2>9, <2>12, <3>1, <3>2 DEF Below
    <2>13. CASE q \in DOMAIN trie /\ (static.route # 0 \/ c \notin DOMAIN trie)
      <3>1. /\ Chosen(rtrie, segs, rdecode, R, q, params, static, c) = static
            /\ Chosen(trie, segs, decode, M, q, params, static, c) = static
        BY <2>11, <2>13 DEF Chosen
      <3> QED BY <2>9, <2>10, <2>13, <3>1
    <2>14. CASE q \in DOMAIN trie /\ static.route = 0 /\ c \in DOMAIN trie
      <3>1. PICK k, b : k = trie[c].key /\ b = Put(static.params, k, decode[s])
        OBVIOUS
      <3>2. rtrie[c].key = k
        BY <2>11, <2>14, <3>1
      <3>3. k \in Keys
        BY <1>3, <2>1, <2>2, <2>14, <3>1 DEF Searchable
      <3>4. b \in B
        BY <1>1, <2>3, <2>8, <3>1, <3>3, PutBound
      <3>5. R[<<c, b>>] = M[<<c, b>>]
        BY <2>4, <2>5, <2>11, <2>14, <3>4
      <3>6. Put(static.params, k, rdecode[s]) = b
        BY <2>3, <3>1
      <3>7. Chosen(rtrie, segs, rdecode, R, q, params, static, c)
              = Chosen(trie, segs, decode, M, q, params, static, c)
        BY <2>1, <2>11, <2>14, <3>1, <3>2, <3>5, <3>6 DEF Chosen
      <3> QED BY <2>9, <2>10, <2>14, <3>7
    <2> QED BY <2>12, <2>13, <2>14
  <1>10. Nat \subseteq S
    <2> HIDE DEF S
    <2> QED BY <1>8, <1>9, Induct
  <1>11. Len(segs) \in S
    <2> HIDE DEF S
    <2> QED BY <1>3, <1>10
  <1>12. /\ <<>> \in DOMAIN trie /\ <<>> \in DOMAIN rtrie /\ NoParams \in B
         /\ Len(<<>>) + Len(segs) = Len(segs) /\ FitsTo(<<>>, segs)
    BY <1>1, <1>3, NoParamsBound DEF Searchable, FitsTo
  <1>13. R[<<<<>>, NoParams>>] = M[<<<<>>, NoParams>>]
    BY <1>11, <1>12
  <1> QED BY <1>1, <1>13 DEF MatchRouteTable

\* The Rust core finds a static route with a colon in its trie.
LEMMA SearchColon ==
  ASSUME NEW list \in Seq(Registrable), Distinct(list), NEW m,
         NEW rtrie, RustTrieOf(rtrie, list, Len(list), m), NEW segs \in Segs, NEW rdecode,
         NEW k \in ColonRoutes(list, m), Path(list, k) = segs
  PROVE  MatchRouteTable(rtrie, segs, rdecode) = Found(k, NoParams)
  <1>1. PICK R, B : R = Matches(rtrie, segs, rdecode) /\ B = Bindings(segs, rdecode)
    OBVIOUS
  <1>2. /\ Searchable(rtrie) /\ Len(segs) \in Nat /\ DOMAIN segs = 1 .. Len(segs)
        /\ DOMAIN rtrie \subseteq Seq(Edge) /\ segs \in Seq(Edge) /\ k # 0 /\ k \in DOMAIN list
    <2>1. Len(segs) \in Nat /\ DOMAIN segs = 1 .. Len(segs)
      BY LenProperties DEF Segs
    <2>2. k \in DOMAIN list /\ k # 0 /\ Len(list) \in Nat
      BY ListTypes DEF ColonRoutes
    <2>3. Searchable(rtrie)
      BY <2>2, RustSearchable
    <2>4. segs \in Seq(Edge)
      BY ColonPath
    <2> QED BY <2>1, <2>2, <2>3, <2>4 DEF Searchable
  <1>3. \A q \in DOMAIN rtrie, params \in B : R[<<q, params>>] = MatchNode(rtrie, segs, rdecode, R, q, params)
    <2>1. Searches(R, rtrie, segs, rdecode)
      BY <1>1, <1>2, SearchDone
    <2> QED BY <1>1, <2>1 DEF Searches
  <1>4. k \in RustRoutes(list, Len(list), m)
    BY RustSplit
  <1> DEFINE S == {n \in Nat : \A q \in DOMAIN rtrie, params \in B :
                                 Len(q) + n = Len(segs) /\ Pre(q, segs) => R[<<q, params>>] = Found(k, params)}
  <1>5. 0 \in S
    <2> SUFFICES ASSUME NEW q \in DOMAIN rtrie, NEW params \in B, Len(q) + 0 = Len(segs), Pre(q, segs)
                 PROVE  R[<<q, params>>] = Found(k, params)
      OBVIOUS
    <2>1. q \in Seq(Edge) /\ Len(q) = Len(segs) /\ Len(q) >= Len(segs)
      BY <1>2, LenProperties
    <2>2. q = segs
      BY <1>2, <2>1, SeqEqual DEF Pre
    <2>3. rtrie[q].route = k
      <3>1. IsLast(rtrie[q].route, RustAt(list, Len(list), m, q))
        BY DEF RustTrieOf
      <3>2. k \in RustAt(list, Len(list), m, q)
        BY <1>4, <2>2 DEF RustAt
      <3>3. \A x \in RustAt(list, Len(list), m, q) : x \in DOMAIN list /\ list[x].method = m /\ Path(list, x) = q
        BY ListTypes DEF RustAt, RustRoutes
      <3>4. \A x \in RustAt(list, Len(list), m, q) : x = k
        BY <3>2, <3>3 DEF Distinct
      <3> QED BY <3>1, <3>2, <3>4 DEF IsLast
    <2> QED BY <1>3, <2>1, <2>3, SearchEnds
  <1>6. ASSUME NEW n \in Nat, n \in S PROVE n + 1 \in S
    <2> SUFFICES ASSUME NEW q \in DOMAIN rtrie, NEW params \in B, Len(q) + (n + 1) = Len(segs), Pre(q, segs)
                 PROVE  R[<<q, params>>] = Found(k, params)
      OBVIOUS
    <2>1. PICK s, a, l : s = segs[Len(q) + 1] /\ a = Append(q, s) /\ l = Len(q)
      OBVIOUS
    <2>2. q \in Seq(Edge) /\ l \in Nat /\ ~(Len(q) >= Len(segs)) /\ l + 1 \in DOMAIN segs
      BY <1>2, <2>1, LenProperties
    <2>3. s \in Edge
      BY <1>2, <2>1, <2>2, ElementOfSeq
    <2>4. /\ a \in Seq(Edge) /\ Len(a) = l + 1 /\ a[l + 1] = s /\ \A i \in 1 .. l : a[i] = q[i]
      BY <2>1, <2>2, <2>3, AppendProperties
    <2>5. Len(a) + n = Len(segs)
      BY <2>1, <2>2, <2>4
    <2>6. Pre(a, segs)
      <3>1. \A i \in 1 .. l : q[i] = segs[i]
        BY <2>1 DEF Pre
      <3>2. \A i \in 1 .. l + 1 : i \in 1 .. l \/ i = l + 1
        BY <2>2
      <3> QED BY <1>2, <2>1, <2>2, <2>4, <3>1, <3>2 DEF Pre
    <2>7. a \in DOMAIN rtrie
      <3>1. k \in RustThrough(list, Len(list), m, a)
        BY <1>4, <2>6 DEF RustThrough
      <3> QED BY <2>4, <3>1 DEF RustTrieOf
    <2>8. R[<<a, params>>] = Found(k, params)
      BY <1>6, <2>5, <2>6, <2>7
    <2>9. MatchNode(rtrie, segs, rdecode, R, q, params)
            = Chosen(rtrie, segs, rdecode, R, q, params, R[<<a, params>>], Append(q, AnyParam))
      <3>1. MatchNode(rtrie, segs, rdecode, R, q, params)
              = Chosen(rtrie, segs, rdecode, R, q, params, Below(rtrie, R, a, params), Append(q, AnyParam))
        BY <2>1, <2>2, SearchGoesOn
      <3> QED BY <2>7, <3>1 DEF Below
    <2>10. R[<<a, params>>].route # 0
      BY <1>2, <2>8 DEF Found
    <2> QED BY <1>3, <2>8, <2>9, <2>10 DEF Chosen
  <1>7. Nat \subseteq S
    <2> HIDE DEF S
    <2> QED BY <1>5, <1>6, Induct
  <1>8. Len(segs) \in S
    <2> HIDE DEF S
    <2> QED BY <1>2, <1>7
  <1>9. <<>> \in DOMAIN rtrie /\ NoParams \in B /\ Len(<<>>) + Len(segs) = Len(segs) /\ Pre(<<>>, segs)
    BY <1>1, <1>2, NoParamsBound DEF Searchable, Pre
  <1>10. R[<<<<>>, NoParams>>] = Found(k, NoParams)
    BY <1>8, <1>9
  <1> QED BY <1>1, <1>10 DEF MatchRouteTable

-----------------------------------------------------------------------------
\* The tables agree

\* The Rust core's table is that of the manifest it was given.
RustInv ==
  /\ manifest \in Seq(Registrable)
  /\ RustTableOf(rust, manifest, Len(manifest))

LEMMA RustStep == RouterInv /\ RustInv /\ [Next]_vars => RustInv'
  <1> SUFFICES ASSUME RouterInv, RustInv, [Next]_vars PROVE RustInv'
    OBVIOUS
  <1>1. CASE ListenRust
    <2>1. routes \in Seq(Registrable) /\ manifest' = routes /\ rust' = FromManifest(routes)
      BY <1>1 DEF ListenRust, RouterInv
    <2>2. RustTableOf(FromManifest(routes), routes, Len(routes))
      BY <2>1, ManifestTable
    <2>3. RustTableOf(rust', manifest', Len(manifest'))
      BY <2>1, <2>2
    <2> QED BY <2>1, <2>3 DEF RustInv
  <1>2. CASE ListenBun \/ (\E r \in Registrable : Register(r)) \/ UNCHANGED vars
    <2>1. UNCHANGED <<manifest, rust>>
      BY <1>2 DEF ListenBun, Register, vars
    <2> QED BY <2>1 DEF RustInv
  <1> QED BY <1>1, <1>2 DEF Next

LEMMA RustInit == Init => RustInv
  <1> SUFFICES ASSUME Init PROVE RustInv
    OBVIOUS
  <1>1. manifest = <<>> /\ rust = NoRust
    BY DEF Init
  <1>2. manifest \in Seq(Registrable) /\ Len(manifest) = 0
    BY <1>1
  <1>3. RustTableOf(NoRust, manifest, 0)
    BY <1>2, RustEmpty
  <1> QED BY <1>1, <1>2, <1>3 DEF RustInv

\* The inductive invariant of listen: the Rust core has, of the manifest's
\* routes, the last exact one of each path and method, a template for each
\* static answer, and tries like those of addRoute but with the last route of
\* each node (lib.rs:613-705, lib.rs:807-832).
THEOREM RustInvariant == Spec => [](RouterInv /\ RustInv)
<1>1. Init => RouterInv /\ RustInv
  BY RouterInit, RustInit
<1>2. RouterInv /\ RustInv /\ [Next]_vars => (RouterInv /\ RustInv)'
  BY RouterStep, RustStep
<1> QED BY <1>1, <1>2, PTL DEF Spec

\* What the two find for a path in the tables of one method.
SameFound(list, m, segs, e, re, b, rb) ==
  LET colons == {n \in ColonRoutes(list, m) : Path(list, n) = segs}
  IN \/ colons = {} /\ re = e /\ rb = b
     \/ re = 0 /\ e \in colons /\ rb = Plain(e)

LEMMA SameTables ==
  ASSUME NEW list \in Seq(Registrable), Distinct(list), NEW m, NEW segs \in Segs,
         NEW trie, TrieOf(trie, list, m), NEW rtrie, RustTrieOf(rtrie, list, Len(list), m),
         NEW decode, NEW rdecode, \A i \in DOMAIN segs : rdecode[segs[i]] = decode[segs[i]],
         NEW e, IsLast(e, ExactAt(list, m, segs)),
         NEW re, IsLast(re, RustExactAt(list, Len(list), m, segs))
  PROVE  SameFound(list, m, segs, e, re, MatchRouteTable(trie, segs, decode), MatchRouteTable(rtrie, segs, rdecode))
  <1>1. RustExactAt(list, Len(list), m, segs) = {n \in ExactAt(list, m, segs) : n \notin ColonRoutes(list, m)}
    BY RustSplit
  <1>2. PICK colons : colons = {n \in ColonRoutes(list, m) : Path(list, n) = segs}
    OBVIOUS
  <1>3. colons \subseteq ExactAt(list, m, segs)
    BY <1>2, RustSplit
  <1>4. \A n, k \in ExactAt(list, m, segs) : n = k /\ n # 0
    BY ListTypes DEF ExactAt, Distinct
  <1>5. CASE colons = {}
    <2>1. \A n \in ColonRoutes(list, m) : Path(list, n) # segs
      BY <1>2, <1>5
    <2>2. MatchRouteTable(rtrie, segs, rdecode) = MatchRouteTable(trie, segs, decode)
      BY <2>1, SearchSame
    <2>3. RustExactAt(list, Len(list), m, segs) = ExactAt(list, m, segs)
      BY <1>1, <2>1 DEF ExactAt
    <2>4. re = e
      BY <1>4, <2>3 DEF IsLast
    <2> QED BY <1>2, <1>5, <2>2, <2>4 DEF SameFound
  <1>6. CASE colons # {}
    <2>1. PICK k \in colons : TRUE
      BY <1>6
    <2>2. e = k
      BY <1>3, <1>4, <2>1 DEF IsLast
    <2>3. RustExactAt(list, Len(list), m, segs) = {}
      BY <1>1, <1>2, <1>3, <1>4, <2>1
    <2>4. re = 0
      BY <2>3 DEF IsLast
    <2>5. MatchRouteTable(rtrie, segs, rdecode) = Found(k, NoParams)
      BY <1>2, <2>1, SearchColon
    <2> QED BY <1>2, <2>1, <2>2, <2>4, <2>5 DEF SameFound, Plain
  <1> QED BY <1>5, <1>6

LEMMA FourSources ==
  ASSUME NEW a, NEW b, NEW c, NEW d, NEW x, NEW y, NEW z, NEW w, a = x, b = y, c = z, d = w
  PROVE  FirstFound(<<a, b, c, d>>) = FirstFound(<<x, y, z, w>>)
  OBVIOUS

LEMMA RustAgreed == RouterInv /\ RustInv => RustAgrees
  <1> SUFFICES ASSUME RouterInv, RustInv, manifest = routes, DistinctShapes,
                      NEW m \in Methods, NEW t \in Targets, SplitPath(t) = NormalizePath(t),
                      \A i \in DOMAIN t.path : Forms[t.path[i]] \in {"plain", "escaped"},
                      m = "HEAD" => \A n \in DOMAIN routes :
                                      RustHasParams(routes[n].pattern) => HasParams(routes[n].pattern)
               PROVE  RustLookup(m, t) = FindRoute(m, t)
    BY DEF RustAgrees
  <1>1. PICK segs \in Segs : segs = NormalizePath(t)
    BY NormalizedType
  <1>2. routes \in Seq(Registrable) /\ Distinct(routes)
    BY DEF RouterInv, DistinctShapes, Distinct, Path
  <1>3. \A i \in DOMAIN segs : DecodeSegment[segs[i]] = Decoded[segs[i]]
    <2>1. \A i \in DOMAIN segs : segs[i] \in DOMAIN Forms /\ Forms[segs[i]] \in {"plain", "escaped"}
      BY <1>1, NormalizedType, ElementOfSeq DEF Segs
    <2> QED BY <2>1 DEF Decoded, DecodeSegment
  <1>4. /\ RustExactOf(rust.routes, routes, Len(routes))
        /\ RustStaticOf(rust.static_get_routes, routes, Len(routes))
        /\ \A x \in Methods : RustTrieOf(rust.param_roots[x], routes, Len(routes), x)
    BY DEF RustInv, RustTableOf
  <1> DEFINE e(x) == Get(exact, <<x, segs>>)
             re(x) == Get(rust.routes, <<x, segs>>)
             b(x) == MatchRouteTable(tries[x], segs, Decoded)
             rb(x) == MatchRouteTable(rust.param_roots[x], segs, DecodeSegment)
  <1>5. ASSUME NEW x \in Methods PROVE SameFound(routes, x, segs, e(x), re(x), b(x), rb(x))
    <2>1. TrieOf(tries[x], routes, x) /\ RustTrieOf(rust.param_roots[x], routes, Len(routes), x)
      BY <1>4 DEF RouterInv
    <2>2. IsLast(e(x), ExactAt(routes, x, segs)) /\ IsLast(re(x), RustExactAt(routes, Len(routes), x, segs))
      BY <1>4 DEF RouterInv, ExactOf, RustExactOf
    <2> HIDE DEF e, re
    <2> QED BY <1>2, <1>3, <2>1, <2>2, SameTables
  <1>6. CASE m = "HEAD"
    <2>1. "HEAD" \in Methods /\ "GET" \in Methods
      BY <1>6, RouteAssumption
    <2>2. \A x : ColonRoutes(routes, x) = {}
      BY <1>6 DEF ColonRoutes
    <2>3. \A x \in Methods : re(x) = e(x) /\ rb(x) = b(x)
      <3> HIDE DEF e, re, b, rb
      <3> QED BY <1>5, <2>2 DEF SameFound
    <2>4. RustLookup(m, t) = FirstFound(<<Plain(re("HEAD")), Plain(re("GET")), rb("HEAD"), rb("GET")>>)
      BY <1>1, <1>6 DEF RustLookup
    <2>5. FindRoute(m, t) = FirstFound(<<Plain(e("HEAD")), Plain(e("GET")), b("HEAD"), b("GET")>>)
      BY <1>1, <1>6 DEF FindRoute
    <2> HIDE DEF e, re, b, rb
    <2> QED BY <2>1, <2>3, <2>4, <2>5
  <1>7. CASE m # "HEAD"
    <2>1. PICK st : st = StaticResponse(m, t)
      OBVIOUS
    <2>2. st = Plain(0) \/ (st = Plain(st.route) /\ st.route \in RustExactAt(routes, Len(routes), m, segs))
      <3>1. PICK g : g = Get(rust.static_get_routes, segs)
        OBVIOUS
      <3>2. g = 0 \/ g \in RustExactAt(routes, Len(routes), "GET", segs)
        BY <1>4, <3>1 DEF RustStaticOf
      <3>3. st = Plain(0) \/ (m = "GET" /\ st = Plain(g))
        BY <1>1, <2>1, <3>1 DEF StaticResponse
      <3> QED BY <3>2, <3>3 DEF Plain, Found
    <2>3. RustLookup(m, t) = FirstFound(<<st, Plain(re(m)), rb(m)>>)
      BY <1>1, <1>7, <2>1 DEF RustLookup
    <2>4. FindRoute(m, t) = FirstFound(<<Plain(e(m)), b(m)>>)
      BY <1>1, <1>7 DEF FindRoute
    <2>5. SameFound(routes, m, segs, e(m), re(m), b(m), rb(m))
      BY <1>5
    <2>6. IsLast(e(m), ExactAt(routes, m, segs)) /\ IsLast(re(m), RustExactAt(routes, Len(routes), m, segs))
      BY <1>4 DEF RouterInv, ExactOf, RustExactOf
    <2>7. \A n, k \in ExactAt(routes, m, segs) : n = k /\ n # 0
      BY <1>2, ListTypes DEF ExactAt, Distinct
    <2>8. RustExactAt(routes, Len(routes), m, segs) \subseteq ExactAt(routes, m, segs)
      BY <1>2, RustSplit
    <2> HIDE DEF e, re, b, rb
    <2>9. CASE re(m) = e(m) /\ rb(m) = b(m)
      <3>1. CASE st = Plain(0)
        <4>1. st.route = 0
          BY <3>1 DEF Plain, Found
        <4> QED BY <2>3, <2>4, <2>9, <4>1, ThreeSources
      <3>2. CASE st = Plain(st.route) /\ st.route \in RustExactAt(routes, Len(routes), m, segs)
        <4>1. e(m) = st.route /\ st.route # 0
          BY <2>6, <2>7, <2>8, <3>2 DEF IsLast
        <4>2. st = Plain(e(m)) /\ st.route # 0
          BY <3>2, <4>1
        <4> QED BY <2>3, <2>4, <4>2, TwoSources, ThreeSources
      <3> QED BY <2>2, <3>1, <3>2
    <2>10. CASE re(m) = 0 /\ e(m) # 0 /\ rb(m) = Plain(e(m))
      <3>1. RustExactAt(routes, Len(routes), m, segs) = {}
        <4>1. \A n \in ExactAt(routes, m, segs) : n # 0
          BY <2>7
        <4> QED BY <2>6, <2>8, <2>10, <4>1 DEF IsLast
      <3>2. st.route = 0
        BY <2>2, <3>1 DEF Plain, Found
      <3>3. Plain(re(m)).route = 0 /\ Plain(e(m)).route # 0
        BY <2>10 DEF Plain, Found
      <3>4. RustLookup(m, t) = FirstFound(<<Plain(re(m)), rb(m)>>)
        BY <2>3, <3>2, ThreeSources
      <3>5. RustLookup(m, t) = Plain(e(m))
        BY <2>10, <3>3, <3>4, TwoSources
      <3>6. FindRoute(m, t) = Plain(e(m))
        BY <2>4, <3>3, TwoSources
      <3> QED BY <3>5, <3>6
    <2>11. \A n \in ColonRoutes(routes, m) : n # 0
      BY <1>2, ListTypes DEF ColonRoutes
    <2> QED BY <2>5, <2>9, <2>10, <2>11 DEF SameFound
  <1> QED BY <1>6, <1>7

\* The lookups of the Rust core, of Bun's router and of the compiled routes find
\* what findRoute finds, with its parameters, whatever the routes and the
\* target: under the conditions that TablesAgree names for each
\* (app.ts:525-620, app.ts:772-881, lib.rs:613-832, dispatch.rs:114-184).
THEOREM TablesAgreed == Spec => []TablesAgree
<1>1. RouterInv /\ RustInv /\ ParamsBound => TablesAgree
  BY RustAgreed, BunAgrees, AotAgreed DEF TablesAgree
<1> QED BY <1>1, RustInvariant, OwnParamsBound, PTL

===============================================================================
