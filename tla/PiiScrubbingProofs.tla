--------------------------- MODULE PiiScrubbingProofs ---------------------------
(***************************************************************************)
(* What the recursion of _scrub computes, for every value however deep it  *)
(* nests, and so what a log line and a stored snapshot may show.           *)
(*                                                                         *)
(* A recursive function is a CHOOSE: that it satisfies its equation needs  *)
(* one that does (ScrubDef, LeavesDef), built from the flat values up, one *)
(* depth at a time.  What it computes then follows by induction on the     *)
(* depth.  The library's induction theorems take a predicate as a          *)
(* parameter, which no prover here instantiates; NestingInduction says the *)
(* same of a set of depths and rests on a minimal counterexample.          *)
(***************************************************************************)
EXTENDS PiiScrubbing, WellFoundedInduction, TLAPS

\* A set of depths that has the flat values' and with every depth the next has all.
LEMMA NestingInduction ==
  ASSUME NEW N \in Nat, NEW S, 0 \in S, \A n \in 0..N-1 : n \in S => n+1 \in S
  PROVE  \A n \in 0..N : n \in S
<1> DEFINE T == {n \in 0..N : n \notin S}
<1>1. SUFFICES T = {}
  OBVIOUS
<1>2. SUFFICES ASSUME T # {} PROVE FALSE
  OBVIOUS
<1>3. T \subseteq Nat
  OBVIOUS
<1>4. PICK x \in T : \A y \in T : ~(<<y, x>> \in OpToRel(<, Nat))
  <2> HIDE DEF T
  <2> QED BY <1>2, <1>3, WFMin, NatLessThanWellFounded
<1>5. x \in 0..N /\ x \notin S
  OBVIOUS
<1>6. x # 0 /\ x-1 \in 0..N-1
  BY <1>5
<1>7. x-1 \notin T
  <2>1. x \in Nat /\ x-1 \in Nat
    BY <1>5, <1>6
  <2>2. <<x-1, x>> \in OpToRel(<, Nat)
    BY <2>1 DEF OpToRel
  <2> HIDE DEF T
  <2> QED BY <1>4, <2>2
<1>8. x-1 \in S
  BY <1>6, <1>7
<1>9. QED
  BY <1>5, <1>6, <1>8

\* Every value has a depth it nests to.
LEMMA NestedValues ==
  /\ MaxNesting \in Nat \ {0}
  /\ \A n \in 0..MaxNesting : \A v \in Nested[n] : WellNested(v, n) /\ v \in Values
  /\ \A v \in Values : \E n \in 0..MaxNesting : v \in Nested[n]
BY PiiAssumption DEF Values

-------------------------------------------------------------------------------
(* The recursive calls of _scrub.                                               *)

\* They return: some function satisfies the recursion, and so does Scrub.  Up(f, n)
\* says that f does for the values that nest less than n deep.
LEMMA ScrubDef == Scrub = [v \in Values |-> ScrubCall(v, Scrub)]
<1> DEFINE Up(f, n) == /\ f = [v \in Values |-> f[v]]
                       /\ \A m \in 0..n-1 : \A v \in Nested[m] : f[v] = ScrubCall(v, f)
           S == {n \in Nat : \E f : Up(f, n)}
<1>1. 0 \in S
  <2>1. Up([v \in Values |-> v], 0)
    OBVIOUS
  <2> QED BY <2>1
<1>2. ASSUME NEW n \in 0..MaxNesting, n \in S PROVE n+1 \in S
  <2>1. PICK f : Up(f, n)
    BY <1>2
  <2> DEFINE g == [v \in Values |-> ScrubCall(v, f)]
  <2>2. ASSUME NEW m \in 0..n, NEW v \in Nested[m]
        PROVE  g[v] = ScrubCall(v, g)
    <3>1. v \in Values /\ WellNested(v, m)
      BY <1>2, NestedValues
    <3>2. ASSUME m > 0, NEW u \in Nested[m-1] PROVE g[u] = f[u]
      BY <2>1, <3>2, <1>2, NestedValues
    <3>3. g[v] = ScrubCall(v, f)
      BY <3>1
    <3>4. ScrubCall(v, f) = ScrubCall(v, g)
      <4> HIDE DEF g
      <4> QED BY <3>1, <3>2 DEF WellNested, ScrubCall
    <3> QED BY <3>3, <3>4
  <2>3. Up(g, n+1)
    BY <2>2
  <2>4. n+1 \in Nat /\ \E h : Up(h, n+1)
    <3> HIDE DEF Up, g
    <3> QED BY <2>3
  <2> QED BY <2>4
<1>3. MaxNesting + 1 \in S
  <2> DEFINE N == MaxNesting + 1
  <2>1. N \in Nat /\ 0..N-1 = 0..MaxNesting /\ N \in 0..N
    BY NestedValues
  <2> HIDE DEF S, N
  <2>2. \A n \in 0..N : n \in S
    BY <2>1, <1>1, <1>2, NestingInduction
  <2>3. N \in S
    BY <2>1, <2>2
  <2> QED BY <2>3 DEF N
<1>4. PICK f : Up(f, MaxNesting + 1)
  BY <1>3
<1>5. f = [v \in Values |-> ScrubCall(v, f)]
  BY <1>4, NestedValues
<1>6. QED
  BY <1>5 DEF Scrub

\* What a call returns for each kind of value.
LEMMA ScrubKinds ==
  ASSUME NEW n \in 0..MaxNesting, NEW v \in Nested[n]
  PROVE  /\ v.kind \in {"dict", "list", "str", "other"} /\ Scrub[v].kind = v.kind
         /\ v.kind = "str" => v = Text(v.words) /\ Scrub[v] = Text(Masked(v.words))
         /\ v.kind = "other" => Scrub[v] = v
         /\ v.kind = "dict" =>
              /\ n > 0 /\ DOMAIN v.fields \subseteq Keys
              /\ DOMAIN Scrub[v].fields = DOMAIN v.fields
              /\ \A k \in DOMAIN v.fields :
                   /\ v.fields[k] \in Nested[n-1]
                   /\ Scrub[v].fields[k] = IF Lower[k] \in SensitiveKeys THEN Redacted
                                           ELSE Scrub[v.fields[k]]
         /\ v.kind = "list" =>
              /\ n > 0 /\ DOMAIN v.items \subseteq Nat
              /\ DOMAIN Scrub[v].items = DOMAIN v.items
              /\ \A i \in DOMAIN v.items :
                   v.items[i] \in Nested[n-1] /\ Scrub[v].items[i] = Scrub[v.items[i]]
<1>1. v \in Values /\ WellNested(v, n)
  BY NestedValues
<1>2. Scrub[v] = ScrubCall(v, Scrub)
  BY <1>1, ScrubDef
<1>3. CASE v \in [kind : {"str"}, words : Seq(Words)]
  BY <1>2, <1>3 DEF ScrubCall, Text
<1>4. CASE v \in [kind : {"other"}, shown : Seq(Words)]
  BY <1>2, <1>4 DEF ScrubCall
<1>5. CASE /\ n > 0 /\ v.kind = "dict" /\ DOMAIN v.fields \subseteq Keys
           /\ v \in [kind : {"dict"}, fields : [DOMAIN v.fields -> Nested[n-1]]]
  <2>1. \A k \in DOMAIN v.fields : v.fields[k] \in Nested[n-1]
    BY <1>5
  <2>2. Scrub[v] = Dict([k \in DOMAIN v.fields |->
                          IF Lower[k] \in SensitiveKeys THEN Redacted ELSE Scrub[v.fields[k]]])
    BY <1>2, <1>5 DEF ScrubCall
  <2> QED BY <1>5, <2>1, <2>2 DEF Dict
<1>6. CASE n > 0 /\ v \in [kind : {"list"}, items : Seq(Nested[n-1])]
  <2>1. v.kind = "list" /\ v.items \in Seq(Nested[n-1])
    BY <1>6
  <2>2. DOMAIN v.items \subseteq Nat /\ \A i \in DOMAIN v.items : v.items[i] \in Nested[n-1]
    BY <2>1
  <2>3. Scrub[v] = List([i \in DOMAIN v.items |-> Scrub[v.items[i]]])
    BY <1>2, <2>1 DEF ScrubCall
  <2> QED BY <1>6, <2>1, <2>2, <2>3 DEF List
<1>7. QED
  BY <1>1, <1>3, <1>4, <1>5, <1>6 DEF WellNested

\* An empty dict or list is a leaf, and is returned as it is.
LEMMA EmptyStays ==
  ASSUME NEW n \in 0..MaxNesting, NEW v \in Nested[n],
         \/ v.kind = "dict" /\ DOMAIN v.fields = {}
         \/ v.kind = "list" /\ DOMAIN v.items = {}
  PROVE  Scrub[v] = v
<1>1. v \in Values /\ WellNested(v, n)
  BY NestedValues
<1>2. Scrub[v] = ScrubCall(v, Scrub)
  BY <1>1, ScrubDef
<1>3. CASE v.kind = "dict" /\ DOMAIN v.fields = {}
  <2>1. v \in [kind : {"dict"}, fields : [DOMAIN v.fields -> Nested[n-1]]]
    BY <1>1, <1>3 DEF WellNested
  <2>2. v = Dict(v.fields) /\ v.fields = [k \in {} |-> v.fields[k]]
    BY <2>1, <1>3 DEF Dict
  <2>3. Scrub[v] = Dict([k \in {} |-> IF Lower[k] \in SensitiveKeys THEN Redacted
                                      ELSE Scrub[v.fields[k]]])
    BY <1>2, <1>3 DEF ScrubCall
  <2>4. [k \in {} |-> IF Lower[k] \in SensitiveKeys THEN Redacted ELSE Scrub[v.fields[k]]]
          = [k \in {} |-> v.fields[k]]
    OBVIOUS
  <2> QED BY <2>2, <2>3, <2>4
<1>4. CASE v.kind = "list" /\ DOMAIN v.items = {}
  <2>1. v \in [kind : {"list"}, items : Seq(Nested[n-1])]
    BY <1>1, <1>4 DEF WellNested
  <2>2. v = List(v.items) /\ v.items = [i \in {} |-> v.items[i]]
    <3>1. v.items \in Seq(Nested[n-1])
      BY <2>1
    <3>2. v.items \in [1..Len(v.items) -> Nested[n-1]]
      BY <3>1
    <3>3. v.items = [i \in DOMAIN v.items |-> v.items[i]]
      BY <3>2
    <3>4. v = List(v.items)
      BY <2>1 DEF List
    <3> QED BY <3>3, <3>4, <1>4
  <2>3. Scrub[v] = List([i \in {} |-> Scrub[v.items[i]]])
    BY <1>2, <1>4 DEF ScrubCall
  <2>4. [i \in {} |-> Scrub[v.items[i]]] = [i \in {} |-> v.items[i]]
    OBVIOUS
  <2> QED BY <2>2, <2>3, <2>4
<1>5. QED
  BY <1>3, <1>4

-------------------------------------------------------------------------------
(* The leaves of a value.                                                       *)

\* They depend on those of what the value holds, and of nothing else.
LEMMA LeavesByAgrees ==
  ASSUME NEW v, NEW f, NEW g,
         v.kind = "dict" => \A k \in DOMAIN v.fields : f[v.fields[k]] = g[v.fields[k]],
         v.kind = "list" => \A i \in DOMAIN v.items : f[v.items[i]] = g[v.items[i]]
  PROVE  LeavesBy(v, f) = LeavesBy(v, g)
<1>1. CASE v.kind = "dict" /\ DOMAIN v.fields # {}
  <2>1. {Below(<<"key", k>>, f[v.fields[k]]) : k \in DOMAIN v.fields}
          = {Below(<<"key", k>>, g[v.fields[k]]) : k \in DOMAIN v.fields}
    BY <1>1
  <2> QED BY <1>1, <2>1 DEF LeavesBy
<1>2. CASE v.kind = "list" /\ DOMAIN v.items # {}
  <2>1. {Below(<<"item", i>>, f[v.items[i]]) : i \in DOMAIN v.items}
          = {Below(<<"item", i>>, g[v.items[i]]) : i \in DOMAIN v.items}
    BY <1>2, Zenon
  <2> QED BY <1>2, <2>1 DEF LeavesBy
<1>3. CASE ~(v.kind = "dict" /\ DOMAIN v.fields # {}) /\ ~(v.kind = "list" /\ DOMAIN v.items # {})
  BY <1>3 DEF LeavesBy
<1>4. QED
  BY <1>1, <1>2, <1>3

\* The same for the leaves of the values and of what _scrub makes of them.
LEMMA LeavesDef == Leaves = [v \in Shown |-> LeavesBy(v, Leaves)]
<1> DEFINE Up(f, n) ==
             /\ f = [v \in Shown |-> f[v]]
             /\ \A m \in 0..n-1 : \A v \in Nested[m] :
                  /\ f[v] = LeavesBy(v, f)
                  /\ f[Scrub[v]] = LeavesBy(Scrub[v], f)
           S == {n \in Nat : \E f : Up(f, n)}
<1>1. 0 \in S
  <2>1. Up([v \in Shown |-> v], 0)
    OBVIOUS
  <2> QED BY <2>1
<1>2. ASSUME NEW n \in 0..MaxNesting, n \in S PROVE n+1 \in S
  <2>1. PICK f : Up(f, n)
    BY <1>2
  <2> DEFINE g == [v \in Shown |-> LeavesBy(v, f)]
  <2>2. ASSUME NEW m \in 0..n, NEW v \in Nested[m]
        PROVE  g[v] = LeavesBy(v, g) /\ g[Scrub[v]] = LeavesBy(Scrub[v], g)
    <3>1. v \in Shown /\ Scrub[v] \in Shown
      BY <1>2, NestedValues DEF Shown
    <3>2. ASSUME m > 0, NEW u \in Nested[m-1]
          PROVE  g[u] = f[u] /\ g[Scrub[u]] = f[Scrub[u]]
      <4>1. u \in Shown /\ Scrub[u] \in Shown
        BY <3>2, <1>2, NestedValues DEF Shown
      <4>2. f[u] = LeavesBy(u, f) /\ f[Scrub[u]] = LeavesBy(Scrub[u], f)
        BY <2>1, <3>2, <1>2, NestedValues
      <4> QED BY <4>1, <4>2
    <3>3. ASSUME m > 0 PROVE g[Redacted] = f[Redacted]
      <4>1. Redacted \in Nested[0] /\ Redacted \in Shown
        BY PiiAssumption, NestedValues DEF Shown
      <4>2. 0 \in 0..n-1
        BY <3>3, <1>2
      <4>3. f[Redacted] = LeavesBy(Redacted, f)
        BY <2>1, <4>1, <4>2
      <4> QED BY <4>1, <4>3
    <3>4. m \in 0..MaxNesting
      BY NestedValues
    <3> HIDE DEF g
    <3>5. LeavesBy(v, f) = LeavesBy(v, g)
      <4>1. v.kind = "dict" => \A k \in DOMAIN v.fields : f[v.fields[k]] = g[v.fields[k]]
        BY <3>2, <3>4, ScrubKinds
      <4>2. v.kind = "list" => \A i \in DOMAIN v.items : f[v.items[i]] = g[v.items[i]]
        BY <3>2, <3>4, ScrubKinds
      <4> QED BY <4>1, <4>2, LeavesByAgrees
    <3>6. LeavesBy(Scrub[v], f) = LeavesBy(Scrub[v], g)
      <4>1. CASE v.kind = "dict"
        <5>1. ASSUME NEW k \in DOMAIN Scrub[v].fields
              PROVE  f[Scrub[v].fields[k]] = g[Scrub[v].fields[k]]
          <6>1. m > 0 /\ v.fields[k] \in Nested[m-1]
            BY <4>1, <3>4, ScrubKinds
          <6>2. Scrub[v].fields[k] \in {Redacted, Scrub[v.fields[k]]}
            BY <4>1, <3>4, ScrubKinds
          <6> QED BY <6>1, <6>2, <3>2, <3>3
        <5>2. Scrub[v].kind = "dict"
          BY <4>1, <3>4, ScrubKinds
        <5> QED BY <5>1, <5>2, LeavesByAgrees
      <4>2. CASE v.kind = "list"
        <5>1. ASSUME NEW i \in DOMAIN Scrub[v].items
              PROVE  f[Scrub[v].items[i]] = g[Scrub[v].items[i]]
          <6>1. m > 0 /\ v.items[i] \in Nested[m-1] /\ Scrub[v].items[i] = Scrub[v.items[i]]
            BY <4>2, <3>4, ScrubKinds
          <6> QED BY <6>1, <3>2
        <5>2. Scrub[v].kind = "list"
          BY <4>2, <3>4, ScrubKinds
        <5> QED BY <5>1, <5>2, LeavesByAgrees
      <4>3. CASE v.kind \notin {"dict", "list"}
        <5>1. Scrub[v].kind \notin {"dict", "list"}
          BY <4>3, <3>4, ScrubKinds
        <5> QED BY <5>1 DEF LeavesBy
      <4> QED BY <4>1, <4>2, <4>3
    <3> QED BY <3>1, <3>5, <3>6 DEF g
  <2>3. Up(g, n+1)
    BY <2>2
  <2>4. n+1 \in Nat /\ \E h : Up(h, n+1)
    <3> HIDE DEF Up, g
    <3> QED BY <2>3
  <2> QED BY <2>4
<1>3. MaxNesting + 1 \in S
  <2> DEFINE N == MaxNesting + 1
  <2>1. N \in Nat /\ 0..N-1 = 0..MaxNesting /\ N \in 0..N
    BY NestedValues
  <2> HIDE DEF S, N
  <2>2. \A n \in 0..N : n \in S
    BY <2>1, <1>1, <1>2, NestingInduction
  <2>3. N \in S
    BY <2>1, <2>2
  <2> QED BY <2>3 DEF N
<1>4. PICK f : Up(f, MaxNesting + 1)
  BY <1>3
<1>5. \A v \in Shown : f[v] = LeavesBy(v, f)
  BY <1>4, NestedValues DEF Shown
<1>6. f = [v \in Shown |-> LeavesBy(v, f)]
  BY <1>4, <1>5
<1>7. QED
  BY <1>6 DEF Leaves

\* The steps a path is made of.
Steps == ({"key"} \X Keys) \cup ({"item"} \X Nat)

\* A step through a key whose value must not be shown.
Sensitive(step) == step[1] = "key" /\ Lower[step[2]] \in SensitiveKeys

\* A leaf, seen from one level up.
LeafAt(step, leaf) == [path |-> <<step>> \o leaf.path, value |-> leaf.value]

\* Min of the community modules on sets of natural numbers.
LEMMA MinOfSteps ==
  ASSUME NEW m \in Nat, NEW T \in SUBSET Nat, m \in T, \A i \in T : m <= i
  PROVE  Min(T) = m
<1>1. Min(T) \in T /\ \A i \in T : Min(T) <= i
  BY DEF Min
<1>2. Min(T) \in Nat /\ m <= Min(T) /\ Min(T) <= m
  BY <1>1
<1>3. QED
  BY <1>2

\* A path that goes through sensitive keys goes through a first one.
LEMMA FirstStep ==
  ASSUME NEW T \in SUBSET Nat, T # {}
  PROVE  Min(T) \in T /\ \A i \in T : Min(T) <= i
<1>1. PICK m \in T : \A i \in T : ~(<<i, m>> \in OpToRel(<, Nat))
  BY WFMin, NatLessThanWellFounded
<1>2. \A i \in T : m <= i
  <2> SUFFICES ASSUME NEW i \in T, i < m PROVE FALSE
    OBVIOUS
  <2>1. <<i, m>> \in OpToRel(<, Nat)
    BY DEF OpToRel
  <2> QED BY <2>1, <1>1
<1>3. QED
  BY <1>1, <1>2, MinOfSteps

\* A path with a step put before it.
LEMMA PathGrows ==
  ASSUME NEW step \in Steps, NEW path \in Seq(Steps)
  PROVE  /\ <<step>> \o path \in Seq(Steps)
         /\ DOMAIN (<<step>> \o path) = 1..Len(path)+1
         /\ (<<step>> \o path)[1] = step
         /\ \A i \in 1..Len(path) : (<<step>> \o path)[i+1] = path[i]
OBVIOUS

\* What becomes of a leaf below a sensitive step, and below any other.
LEMMA ExpectedBelow ==
  ASSUME NEW step \in Steps, NEW leaf, leaf.path \in Seq(Steps)
  PROVE  Expected(LeafAt(step, leaf)) =
           IF Sensitive(step) THEN [path |-> <<step>>, value |-> Redacted]
           ELSE LeafAt(step, Expected(leaf))
<1> DEFINE p == <<step>> \o leaf.path
           q == leaf.path
<1>1. /\ p \in Seq(Steps) /\ q \in Seq(Steps)
      /\ DOMAIN p = 1..Len(q)+1 /\ DOMAIN q = 1..Len(q) /\ Len(q) \in Nat
      /\ p[1] = step /\ \A i \in 1..Len(q) : p[i+1] = q[i]
      /\ p = <<step>> \o q
  BY PathGrows
<1>2. LeafAt(step, leaf).path = p /\ LeafAt(step, leaf).value = leaf.value
  BY DEF LeafAt
<1> HIDE DEF p
<1>3. CASE Sensitive(step)
  <2>1. 1 \in SensitiveSteps(p) /\ SensitiveSteps(p) \subseteq Nat /\ \A i \in SensitiveSteps(p) : 1 <= i
    BY <1>1, <1>3 DEF SensitiveSteps, Sensitive
  <2>2. Min(SensitiveSteps(p)) = 1
    BY <2>1, MinOfSteps
  <2>3. SubSeq(p, 1, 1) = <<step>>
    <3> DEFINE t == SubSeq(p, 1, 1)
    <3>1. t \in Seq(Steps) /\ Len(t) = 1 /\ t[1] = step
      BY <1>1
    <3> HIDE DEF t
    <3>2. t = <<step>>
      BY <3>1
    <3> QED BY <3>2 DEF t
  <2> QED BY <1>2, <1>3, <2>1, <2>2, <2>3 DEF Expected
<1>4. CASE ~Sensitive(step)
  <2>1. \A i \in Nat : i+1 \in SensitiveSteps(p) <=> i \in SensitiveSteps(q)
    BY <1>1, <1>4 DEF SensitiveSteps, Sensitive
  <2>2. \A i \in SensitiveSteps(p) : i \in Nat /\ i-1 \in Nat /\ i-1 \in SensitiveSteps(q)
    BY <1>1, <1>4 DEF SensitiveSteps, Sensitive
  <2>3. SensitiveSteps(q) \subseteq 1..Len(q)
    BY <1>1 DEF SensitiveSteps
  <2>4. CASE SensitiveSteps(q) = {}
    <3>1. SensitiveSteps(p) = {}
      BY <2>2, <2>4
    <3> QED BY <1>1, <1>2, <1>4, <2>4, <3>1 DEF Expected, LeafAt
  <2>5. CASE SensitiveSteps(q) # {}
    <3> DEFINE m == Min(SensitiveSteps(q))
    <3>1. m \in SensitiveSteps(q) /\ m \in 1..Len(q) /\ \A i \in SensitiveSteps(q) : m <= i
      BY <2>3, <2>5, FirstStep
    <3> HIDE DEF m
    <3>2. m+1 \in SensitiveSteps(p) /\ \A i \in SensitiveSteps(p) : m+1 <= i
      BY <2>1, <2>2, <3>1
    <3>3. Min(SensitiveSteps(p)) = m+1
      BY <2>2, <3>1, <3>2, MinOfSteps
    <3>4. SubSeq(p, 1, m+1) = <<step>> \o SubSeq(q, 1, m)
      BY <1>1, <3>1
    <3>5. Expected(leaf) = [path |-> SubSeq(q, 1, m), value |-> Redacted]
      BY <2>5 DEF Expected, m
    <3>6. Expected(LeafAt(step, leaf)) = [path |-> SubSeq(p, 1, m+1), value |-> Redacted]
      BY <1>2, <3>2, <3>3 DEF Expected
    <3>7. LeafAt(step, Expected(leaf)) = [path |-> SubSeq(p, 1, m+1), value |-> Redacted]
      <4>1. Expected(leaf).path = SubSeq(q, 1, m) /\ Expected(leaf).value = Redacted
        <5>1. \A a, b : [path |-> a, value |-> b].path = a /\ [path |-> a, value |-> b].value = b
          OBVIOUS
        <5> QED BY <3>5, <5>1, Zenon
      <4>2. <<step>> \o Expected(leaf).path = SubSeq(p, 1, m+1)
        BY <3>4, <4>1, Zenon
      <4> QED BY <4>1, <4>2, Zenon DEF LeafAt
    <3> QED BY <1>4, <3>6, <3>7
  <2> QED BY <2>4, <2>5
<1>5. QED
  BY <1>3, <1>4

\* LeavesDef, where it is used.
LEMMA LeavesOf ==
  \A v \in Values : /\ Leaves[v] = LeavesBy(v, Leaves)
                    /\ Leaves[Scrub[v]] = LeavesBy(Scrub[v], Leaves)
BY LeavesDef DEF Shown

\* Every value has leaves, at paths of steps.
IsLeafSet(leaves) == leaves # {} /\ leaves \subseteq [path : Seq(Steps), value : Values]

LEMMA BelowIsLeafSet ==
  ASSUME NEW step \in Steps, NEW leaves, IsLeafSet(leaves)
  PROVE  IsLeafSet(Below(step, leaves))
<1>1. ASSUME NEW leaf \in leaves
      PROVE  [path |-> <<step>> \o leaf.path, value |-> leaf.value]
               \in [path : Seq(Steps), value : Values]
  <2>1. leaf.path \in Seq(Steps) /\ leaf.value \in Values
    BY DEF IsLeafSet
  <2>2. <<step>> \o leaf.path \in Seq(Steps)
    BY <2>1, PathGrows
  <2> QED BY <2>1, <2>2
<1>2. QED
  BY <1>1 DEF Below, IsLeafSet

LEMMA UnionIsLeafSet ==
  ASSUME NEW F, F # {}, \A leaves \in F : IsLeafSet(leaves)
  PROVE  IsLeafSet(UNION F)
BY DEF IsLeafSet

LEMMA LeavesAreLeaves ==
  \A n \in 0..MaxNesting : \A v \in Nested[n] : IsLeafSet(Leaves[v])
<1> DEFINE S == {n \in Nat : \A v \in Nested[n] : IsLeafSet(Leaves[v])}
<1>1. ASSUME NEW n \in 0..MaxNesting, n > 0 => n-1 \in S
      PROVE  n \in S
  <2> SUFFICES ASSUME NEW v \in Nested[n] PROVE IsLeafSet(Leaves[v])
    BY NestedValues
  <2>1. v \in Values /\ Leaves[v] = LeavesBy(v, Leaves)
    BY NestedValues, LeavesOf
  <2>2. CASE v.kind = "dict" /\ DOMAIN v.fields # {}
    <3> DEFINE D == DOMAIN v.fields
    <3>1. \A k \in D : IsLeafSet(Below(<<"key", k>>, Leaves[v.fields[k]]))
      <4> SUFFICES ASSUME NEW k \in D
                   PROVE  IsLeafSet(Below(<<"key", k>>, Leaves[v.fields[k]]))
        OBVIOUS
      <4>1. n > 0 /\ k \in Keys /\ v.fields[k] \in Nested[n-1]
        BY <2>2, ScrubKinds
      <4>2. IsLeafSet(Leaves[v.fields[k]]) /\ <<"key", k>> \in Steps
        BY <4>1, <1>1 DEF Steps
      <4> QED BY <4>2, BelowIsLeafSet
    <3> DEFINE F == {Below(<<"key", k>>, Leaves[v.fields[k]]) : k \in D}
    <3>2. Leaves[v] = UNION F
      BY <2>1, <2>2 DEF LeavesBy
    <3>3. F # {} /\ \A leaves \in F : IsLeafSet(leaves)
      BY <2>2, <3>1, Zenon
    <3> HIDE DEF F
    <3> QED BY <3>2, <3>3, UnionIsLeafSet
  <2>3. CASE v.kind = "list" /\ DOMAIN v.items # {}
    <3> DEFINE D == DOMAIN v.items
    <3>1. \A i \in D : IsLeafSet(Below(<<"item", i>>, Leaves[v.items[i]]))
      <4> SUFFICES ASSUME NEW i \in D
                   PROVE  IsLeafSet(Below(<<"item", i>>, Leaves[v.items[i]]))
        OBVIOUS
      <4>1. n > 0 /\ i \in Nat /\ v.items[i] \in Nested[n-1]
        BY <2>3, ScrubKinds
      <4>2. IsLeafSet(Leaves[v.items[i]]) /\ <<"item", i>> \in Steps
        BY <4>1, <1>1 DEF Steps
      <4> QED BY <4>2, BelowIsLeafSet
    <3> DEFINE F == {Below(<<"item", i>>, Leaves[v.items[i]]) : i \in D}
    <3>2. Leaves[v] = UNION F
      BY <2>1, <2>3 DEF LeavesBy
    <3>3. F # {} /\ \A leaves \in F : IsLeafSet(leaves)
      BY <2>3, <3>1, Zenon
    <3> HIDE DEF F
    <3> QED BY <3>2, <3>3, UnionIsLeafSet
  <2>4. CASE ~(v.kind = "dict" /\ DOMAIN v.fields # {}) /\ ~(v.kind = "list" /\ DOMAIN v.items # {})
    <3>1. Leaves[v] = {[path |-> <<>>, value |-> v]}
      BY <2>1, <2>4 DEF LeavesBy
    <3> QED BY <2>1, <3>1 DEF IsLeafSet
  <2> QED BY <2>2, <2>3, <2>4
<1>2. \A n \in 0..MaxNesting : n \in S
  <2>1. 0 \in S
    BY <1>1, NestedValues
  <2>2. \A n \in 0..MaxNesting-1 : n \in S => n+1 \in S
    <3> SUFFICES ASSUME NEW n \in 0..MaxNesting-1, n \in S PROVE n+1 \in S
      OBVIOUS
    <3>1. n+1 \in 0..MaxNesting /\ (n+1)-1 = n
      BY NestedValues
    <3> HIDE DEF S
    <3> QED BY <3>1, <1>1
  <2> HIDE DEF S
  <2> QED BY <2>1, <2>2, NestingInduction, NestedValues
<1>3. QED
  BY <1>2

-------------------------------------------------------------------------------
(* What becomes of the leaves.                                                  *)

ExpectedOf(leaves) == {Expected(leaf) : leaf \in leaves}

\* All leaves below a sensitive key become one; below any other step each becomes
\* what it would become on its own.
LEMMA ExpectedOfBelow ==
  ASSUME NEW step \in Steps, NEW leaves, IsLeafSet(leaves)
  PROVE  ExpectedOf(Below(step, leaves)) =
           IF Sensitive(step) THEN {[path |-> <<step>>, value |-> Redacted]}
           ELSE Below(step, ExpectedOf(leaves))
<1>1. Below(step, leaves) = {LeafAt(step, leaf) : leaf \in leaves}
  BY DEF Below, LeafAt
<1>2. Below(step, ExpectedOf(leaves)) = {LeafAt(step, Expected(leaf)) : leaf \in leaves}
  BY DEF Below, LeafAt, ExpectedOf
<1>3. ExpectedOf(Below(step, leaves)) = {Expected(LeafAt(step, leaf)) : leaf \in leaves}
  BY <1>1 DEF ExpectedOf
<1>4. \A leaf \in leaves : leaf.path \in Seq(Steps)
  BY DEF IsLeafSet
<1>5. leaves # {}
  BY DEF IsLeafSet
<1>6. CASE Sensitive(step)
  <2>1. \A leaf \in leaves : Expected(LeafAt(step, leaf)) = [path |-> <<step>>, value |-> Redacted]
    BY <1>4, <1>6, ExpectedBelow
  <2> QED BY <1>3, <1>5, <1>6, <2>1, Zenon
<1>7. CASE ~Sensitive(step)
  <2>1. \A leaf \in leaves : Expected(LeafAt(step, leaf)) = LeafAt(step, Expected(leaf))
    BY <1>4, <1>7, ExpectedBelow
  <2>2. {Expected(LeafAt(step, leaf)) : leaf \in leaves}
          = {LeafAt(step, Expected(leaf)) : leaf \in leaves}
    BY <2>1, Zenon
  <2> QED BY <1>2, <1>3, <1>7, <2>2, Zenon
<1>8. QED
  BY <1>6, <1>7

LEMMA ExpectedOfUnion ==
  ASSUME NEW F
  PROVE  ExpectedOf(UNION F) = UNION {ExpectedOf(leaves) : leaves \in F}
BY DEF ExpectedOf

\* The one leaf a sensitive key is left with.
LEMMA RedactedBelow ==
  ASSUME NEW step \in Steps
  PROVE  Below(step, Leaves[Redacted]) = {[path |-> <<step>>, value |-> Redacted]}
<1>1. Redacted \in Values
  BY PiiAssumption, NestedValues
<1>2. Leaves[Redacted] = {[path |-> <<>>, value |-> Redacted]}
  BY <1>1, LeavesOf DEF LeavesBy, Redacted, Text
<1>3. <<step>> \o <<>> = <<step>>
  OBVIOUS
<1>4. Below(step, Leaves[Redacted])
        = {[path |-> <<step>> \o <<>>, value |-> Redacted]}
  <2>1. \A a, b : [path |-> a, value |-> b].path = a /\ [path |-> a, value |-> b].value = b
    OBVIOUS
  <2>2. Below(step, Leaves[Redacted])
          = {[path |-> <<step>> \o leaf.path, value |-> leaf.value] :
               leaf \in {[path |-> <<>>, value |-> Redacted]}}
    BY <1>2 DEF Below
  <2> QED BY <2>1, <2>2, Zenon
<1>5. QED
  BY <1>3, <1>4

\* Whatever the nesting, scrubbing a value does to each of its leaves what Expected says.
LEMMA ScrubIsExpected ==
  \A n \in 0..MaxNesting : \A v \in Nested[n] : Leaves[Scrub[v]] = ExpectedOf(Leaves[v])
<1> DEFINE S == {n \in Nat : \A v \in Nested[n] : Leaves[Scrub[v]] = ExpectedOf(Leaves[v])}
<1>1. ASSUME NEW n \in 0..MaxNesting, n > 0 => n-1 \in S
      PROVE  n \in S
  <2> SUFFICES ASSUME NEW v \in Nested[n] PROVE Leaves[Scrub[v]] = ExpectedOf(Leaves[v])
    BY NestedValues
  <2>1. /\ v \in Values /\ Leaves[v] = LeavesBy(v, Leaves)
        /\ Leaves[Scrub[v]] = LeavesBy(Scrub[v], Leaves)
    BY NestedValues, LeavesOf
  <2>2. CASE v.kind = "dict" /\ DOMAIN v.fields # {}
    <3> DEFINE D == DOMAIN v.fields
               w == Scrub[v]
    <3>1. \A k \in D : ExpectedOf(Below(<<"key", k>>, Leaves[v.fields[k]]))
                        = Below(<<"key", k>>, Leaves[w.fields[k]])
      <4> SUFFICES ASSUME NEW k \in D
                   PROVE  ExpectedOf(Below(<<"key", k>>, Leaves[v.fields[k]]))
                          = Below(<<"key", k>>, Leaves[w.fields[k]])
        OBVIOUS
      <4>1. n > 0 /\ k \in Keys /\ v.fields[k] \in Nested[n-1]
            /\ w.fields[k] = IF Lower[k] \in SensitiveKeys THEN Redacted ELSE Scrub[v.fields[k]]
        BY <2>2, ScrubKinds
      <4>2. n-1 \in 0..MaxNesting
        BY <4>1, NestedValues
      <4>3. IsLeafSet(Leaves[v.fields[k]]) /\ <<"key", k>> \in Steps
        BY <4>1, <4>2, LeavesAreLeaves DEF Steps
      <4>4. CASE Sensitive(<<"key", k>>)
        <5>1. w.fields[k] = Redacted
          BY <4>1, <4>4 DEF Sensitive
        <5>2. Below(<<"key", k>>, Leaves[Redacted])
                = {[path |-> <<<<"key", k>>>>, value |-> Redacted]}
          BY <4>3, RedactedBelow
        <5> QED BY <4>3, <4>4, <5>1, <5>2, ExpectedOfBelow
      <4>5. CASE ~Sensitive(<<"key", k>>)
        <5>1. w.fields[k] = Scrub[v.fields[k]]
          BY <4>1, <4>5 DEF Sensitive
        <5>2. Leaves[Scrub[v.fields[k]]] = ExpectedOf(Leaves[v.fields[k]])
          BY <4>1, <1>1
        <5> QED BY <4>3, <4>5, <5>1, <5>2, ExpectedOfBelow
      <4> QED BY <4>4, <4>5
    <3>2. Leaves[v] = UNION {Below(<<"key", k>>, Leaves[v.fields[k]]) : k \in D}
      BY <2>1, <2>2 DEF LeavesBy
    <3>3. Leaves[w] = UNION {Below(<<"key", k>>, Leaves[w.fields[k]]) : k \in D}
      <4>1. w.kind = "dict" /\ DOMAIN w.fields = D
        BY <2>2, ScrubKinds
      <4> QED BY <2>1, <2>2, <4>1 DEF LeavesBy
    <3> DEFINE F == {Below(<<"key", k>>, Leaves[v.fields[k]]) : k \in D}
    <3>4. {ExpectedOf(leaves) : leaves \in F}
            = {Below(<<"key", k>>, Leaves[w.fields[k]]) : k \in D}
      <4> HIDE DEF w
      <4> QED BY <3>1, Zenon
    <3>5. ExpectedOf(UNION F) = UNION {ExpectedOf(leaves) : leaves \in F}
      BY ExpectedOfUnion
    <3> QED BY <3>2, <3>3, <3>4, <3>5
  <2>3. CASE v.kind = "list" /\ DOMAIN v.items # {}
    <3> DEFINE D == DOMAIN v.items
               w == Scrub[v]
    <3>1. \A i \in D : ExpectedOf(Below(<<"item", i>>, Leaves[v.items[i]]))
                        = Below(<<"item", i>>, Leaves[w.items[i]])
      <4> SUFFICES ASSUME NEW i \in D
                   PROVE  ExpectedOf(Below(<<"item", i>>, Leaves[v.items[i]]))
                          = Below(<<"item", i>>, Leaves[w.items[i]])
        OBVIOUS
      <4>1. n > 0 /\ i \in Nat /\ v.items[i] \in Nested[n-1] /\ w.items[i] = Scrub[v.items[i]]
        BY <2>3, ScrubKinds
      <4>2. n-1 \in 0..MaxNesting
        BY <4>1, NestedValues
      <4>3. IsLeafSet(Leaves[v.items[i]]) /\ <<"item", i>> \in Steps
        BY <4>1, <4>2, LeavesAreLeaves DEF Steps
      <4>4. ~Sensitive(<<"item", i>>)
        BY DEF Sensitive
      <4>5. Leaves[Scrub[v.items[i]]] = ExpectedOf(Leaves[v.items[i]])
        BY <4>1, <1>1
      <4> QED BY <4>1, <4>3, <4>4, <4>5, ExpectedOfBelow
    <3>2. Leaves[v] = UNION {Below(<<"item", i>>, Leaves[v.items[i]]) : i \in D}
      BY <2>1, <2>3 DEF LeavesBy
    <3>3. Leaves[w] = UNION {Below(<<"item", i>>, Leaves[w.items[i]]) : i \in D}
      <4>1. w.kind = "list" /\ DOMAIN w.items = D
        BY <2>3, ScrubKinds
      <4> QED BY <2>1, <2>3, <4>1 DEF LeavesBy
    <3> DEFINE F == {Below(<<"item", i>>, Leaves[v.items[i]]) : i \in D}
    <3>4. {ExpectedOf(leaves) : leaves \in F}
            = {Below(<<"item", i>>, Leaves[w.items[i]]) : i \in D}
      <4> HIDE DEF w
      <4> QED BY <3>1, Zenon
    <3>5. ExpectedOf(UNION F) = UNION {ExpectedOf(leaves) : leaves \in F}
      BY ExpectedOfUnion
    <3> QED BY <3>2, <3>3, <3>4, <3>5
  <2>4. CASE ~(v.kind = "dict" /\ DOMAIN v.fields # {}) /\ ~(v.kind = "list" /\ DOMAIN v.items # {})
    <3>1. Leaves[v] = {[path |-> <<>>, value |-> v]}
      BY <2>1, <2>4 DEF LeavesBy
    <3>2. Leaves[Scrub[v]] = {[path |-> <<>>, value |-> Scrub[v]]}
      BY <2>1, <2>4, ScrubKinds DEF LeavesBy
    <3>3. Expected([path |-> <<>>, value |-> v])
            = [path |-> <<>>, value |-> IF v.kind = "str" THEN Text(Masked(v.words)) ELSE v]
      BY DEF Expected, SensitiveSteps
    <3>4. Scrub[v] = IF v.kind = "str" THEN Text(Masked(v.words)) ELSE v
      BY <2>4, ScrubKinds, EmptyStays
    <3> QED BY <3>1, <3>2, <3>3, <3>4 DEF ExpectedOf
  <2> QED BY <2>2, <2>3, <2>4
<1>2. \A n \in 0..MaxNesting : n \in S
  <2>1. 0 \in S
    BY <1>1, NestedValues
  <2>2. \A n \in 0..MaxNesting-1 : n \in S => n+1 \in S
    <3> SUFFICES ASSUME NEW n \in 0..MaxNesting-1, n \in S PROVE n+1 \in S
      OBVIOUS
    <3>1. n+1 \in 0..MaxNesting /\ (n+1)-1 = n
      BY NestedValues
    <3> HIDE DEF S
    <3> QED BY <3>1, <1>1
  <2> HIDE DEF S
  <2> QED BY <2>1, <2>2, NestingInduction, NestedValues
<1>3. QED
  BY <1>2

-------------------------------------------------------------------------------
(* The formatter and AuditLog.log.                                              *)

\* What has been written is what the call makes of what it was given.
WrittenInv ==
  /\ given \in Records \cup Snapshots
  /\ \/ written = None
     \/ given \in Records /\ written = Payload(given)
     \/ given \in Snapshots \ {None, Dict(<<>>)} /\ written = Scrub[given]

LEMMA WrittenInvariant == Spec => []WrittenInv
<1>1. Init => WrittenInv
  BY DEF Init, WrittenInv
<1>2. WrittenInv /\ [Next]_vars => WrittenInv'
  BY DEF WrittenInv, Next, vars, Format, Log
<1>3. QED
  BY <1>1, <1>2, PTL DEF Spec

\* A record is not a snapshot.
LEMMA RecordsAreNotValues ==
  ASSUME NEW r \in Records, NEW data \in Snapshots
  PROVE  r # data
<1>1. r = [message |-> r.message, attributes |-> r.attributes, exc_info |-> r.exc_info]
  BY DEF Records
<1>2. DOMAIN r = {"message", "attributes", "exc_info"}
  BY <1>1
<1>3. "kind" \in DOMAIN data
  <2>1. CASE data = None
    BY <2>1 DEF None, Object
  <2>2. CASE data # None
    <3>1. PICK n \in 0..MaxNesting : data \in Nested[n]
      BY <2>2, PiiAssumption, NestedValues
    <3>2. WellNested(data, n)
      BY <3>1, NestedValues
    <3> QED BY <3>2 DEF WellNested
  <2> QED BY <2>1, <2>2
<1>4. QED
  BY <1>2, <1>3

\* The fields of a line, and what each shows.
LEMMA PayloadFields ==
  ASSUME NEW r \in Records
  PROVE  /\ Payload(r) = Dict(Payload(r).fields) /\ Payload(r).kind = "dict"
         /\ "message" \in DOMAIN Payload(r).fields
         /\ Payload(r).fields["message"] = Scrub[r.message]
         /\ \A k \in DOMAIN r.attributes \ SkippedKeys :
              /\ k \in DOMAIN Payload(r).fields
              /\ k # "exc" \/ r.exc_info = None
                   => Payload(r).fields[k] = Scrub[r.attributes[k]]
         /\ DOMAIN Payload(r).fields \subseteq Keys
         /\ \A k \in DOMAIN Payload(r).fields :
              \/ k = "exc" /\ r.exc_info # None /\ Payload(r).fields[k] = List(<<r.exc_info>>)
              \/ /\ k \in DOMAIN r.attributes
                 /\ Payload(r).fields[k] = Scrub[r.attributes[k]]
              \/ k = "message" /\ Payload(r).fields[k] = Scrub[r.message]
              \/ k \in {"level", "logger", "time"} /\ Payload(r).fields[k] = Text(<<"word">>)
<1> DEFINE exc   == IF r.exc_info = None THEN {} ELSE {"exc"}
           extra == DOMAIN r.attributes \ SkippedKeys
           F == [k \in {"level", "logger", "message", "time"} \cup extra \cup exc |->
                   CASE k \in exc -> List(<<r.exc_info>>)
                     [] k \in extra \ exc -> Scrub[r.attributes[k]]
                     [] k \notin extra \cup exc ->
                          IF k = "message" THEN Scrub[r.message] ELSE Text(<<"word">>)]
<1>1. Payload(r) = Dict(F)
  BY DEF Payload
<1>2. /\ DOMAIN F = {"level", "logger", "message", "time"} \cup extra \cup exc
      /\ \A k \in exc : F[k] = List(<<r.exc_info>>)
      /\ \A k \in extra \ exc : F[k] = Scrub[r.attributes[k]]
      /\ \A k \in {"level", "logger", "message", "time"} \ (extra \cup exc) :
           F[k] = IF k = "message" THEN Scrub[r.message] ELSE Text(<<"word">>)
  <2> HIDE DEF exc, extra
  <2> QED OBVIOUS
<1>3. "message" \notin extra
  BY PiiAssumption
<1>4. /\ Payload(r) = Dict(Payload(r).fields) /\ Payload(r).kind = "dict"
      /\ Payload(r).fields = F
  <2> HIDE DEF F
  <2> QED BY <1>1 DEF Dict
<1> HIDE DEF F
<1>5. \A k \in exc : k = "exc" /\ r.exc_info # None
  OBVIOUS
<1>6. "message" \notin exc /\ (r.exc_info # None => exc = {"exc"}) /\ (r.exc_info = None => exc = {})
  OBVIOUS
<1>7. \A k \in DOMAIN F :
              \/ k = "exc" /\ r.exc_info # None /\ F[k] = List(<<r.exc_info>>)
              \/ k \in DOMAIN r.attributes /\ F[k] = Scrub[r.attributes[k]]
              \/ k = "message" /\ F[k] = Scrub[r.message]
              \/ k \in {"level", "logger", "time"} /\ F[k] = Text(<<"word">>)
  <2> SUFFICES ASSUME NEW k \in DOMAIN F
               PROVE \/ k = "exc" /\ r.exc_info # None /\ F[k] = List(<<r.exc_info>>)
                     \/ k \in DOMAIN r.attributes /\ F[k] = Scrub[r.attributes[k]]
                     \/ k = "message" /\ F[k] = Scrub[r.message]
                     \/ k \in {"level", "logger", "time"} /\ F[k] = Text(<<"word">>)
    OBVIOUS
  <2>1. CASE k \in exc
    BY <2>1, <1>2, <1>5
  <2>2. CASE k \in extra \ exc
    BY <2>2, <1>2
  <2>3. CASE k \notin extra \cup exc
    BY <2>3, <1>2
  <2> QED BY <2>1, <2>2, <2>3
<1>8. /\ "message" \in DOMAIN F /\ F["message"] = Scrub[r.message]
      /\ \A k \in extra : k \in DOMAIN F /\ (k # "exc" \/ r.exc_info = None => F[k] = Scrub[r.attributes[k]])
  BY <1>2, <1>3, <1>6
<1>9. DOMAIN F \subseteq Keys
  <2>1. r.attributes \in Attributes
    BY DEF Records
  <2>2. extra \subseteq Keys /\ {"level", "logger", "message", "time", "exc"} \subseteq Keys
    BY <2>1, PiiAssumption
  <2> QED BY <1>2, <1>5, <2>2
<1>10. QED
  BY <1>4, <1>7, <1>8, <1>9

\* What the callers hand to _scrub, and the traceback they do not, are values.
LEMMA CallsAreAboutValues ==
  /\ Text(<<"word">>) \in Values
  /\ \A r \in Records :
       /\ r.message \in Values
       /\ \A k \in DOMAIN r.attributes : r.attributes[k] \in Values
       /\ r.exc_info # None => List(<<r.exc_info>>) \in Values
  /\ \A data \in Snapshots \ {None} : data \in Values /\ data.kind = "dict"
<1>1. \A v \in Nested[0] : v \in Values
  BY NestedValues
<1>2. \A v \in Nested[1] : v \in Values
  BY NestedValues
<1>3. QED
  BY <1>1, <1>2, PiiAssumption DEF Records

\* Every field is a scrubbed value but the traceback and the frame.
LEMMA FieldKinds ==
  ASSUME NEW r \in Records, NEW k \in DOMAIN Payload(r).fields
  PROVE  \/ k = "exc" /\ r.exc_info # None /\ Payload(r).fields[k] \in Values
         \/ \E v \in Values : Payload(r).fields[k] = Scrub[v]
         \/ Payload(r).fields[k] = Text(<<"word">>)
<1>1. CASE k = "exc" /\ r.exc_info # None /\ Payload(r).fields[k] = List(<<r.exc_info>>)
  BY <1>1, CallsAreAboutValues
<1>2. CASE k \in DOMAIN r.attributes /\ Payload(r).fields[k] = Scrub[r.attributes[k]]
  BY <1>2, CallsAreAboutValues
<1>3. CASE k = "message" /\ Payload(r).fields[k] = Scrub[r.message]
  BY <1>3, CallsAreAboutValues
<1>4. CASE k \in {"level", "logger", "time"} /\ Payload(r).fields[k] = Text(<<"word">>)
  BY <1>4
<1>5. QED
  BY <1>1, <1>2, <1>3, <1>4, PayloadFields

\* What is written is a dict with something in it, of scrubbed values, traceback and frame.
THEOREM TypeCorrect == Spec => []TypeOK
<1>1. WrittenInv => TypeOK
  <2> SUFFICES ASSUME WrittenInv, written # None
               PROVE  /\ written = Dict(written.fields)
                      /\ DOMAIN written.fields # {} /\ DOMAIN written.fields \subseteq Keys
                      /\ \A k \in DOMAIN written.fields : written.fields[k] \in Shown
    BY DEF WrittenInv, TypeOK
  <2>1. CASE given \in Records /\ written = Payload(given)
    <3>1. \A k \in DOMAIN written.fields : written.fields[k] \in Shown
      BY <2>1, FieldKinds, CallsAreAboutValues DEF Shown
    <3>2. /\ written = Dict(written.fields) /\ "message" \in DOMAIN written.fields
          /\ DOMAIN written.fields \subseteq Keys
      BY <2>1, PayloadFields
    <3> QED BY <3>1, <3>2
  <2>2. CASE given \in Snapshots \ {None, Dict(<<>>)} /\ written = Scrub[given]
    <3>1. given \in Values /\ given.kind = "dict"
      BY <2>2, CallsAreAboutValues
    <3>2. PICK n \in 0..MaxNesting : given \in Nested[n]
      BY <3>1, NestedValues
    <3>3. WellNested(given, n)
      BY <3>2, NestedValues
    <3>4. given \in [kind : {"dict"}, fields : [DOMAIN given.fields -> Nested[n-1]]]
      BY <3>1, <3>3 DEF WellNested
    <3>5. given = Dict(given.fields) /\ given.fields = [k \in DOMAIN given.fields |-> given.fields[k]]
      BY <3>4 DEF Dict
    <3>6. DOMAIN given.fields # {}
      <4>1. ASSUME DOMAIN given.fields = {} PROVE given.fields = <<>>
        BY <3>5, <4>1
      <4> QED BY <4>1, <3>5, <2>2
    <3>7. Scrub[given] = Dict([k \in DOMAIN given.fields |->
            IF Lower[k] \in SensitiveKeys THEN Redacted ELSE Scrub[given.fields[k]]])
      BY <3>1, ScrubDef DEF ScrubCall
    <3>8. written = Dict(written.fields)
      BY <2>2, <3>7 DEF Dict
    <3>9. n > 0 /\ DOMAIN given.fields \subseteq Keys /\ DOMAIN written.fields = DOMAIN given.fields
      BY <2>2, <3>1, <3>2, ScrubKinds
    <3>10. ASSUME NEW k \in DOMAIN written.fields PROVE written.fields[k] \in Shown
      <4>1. /\ given.fields[k] \in Nested[n-1] /\ n-1 \in 0..MaxNesting
            /\ written.fields[k] \in {Redacted, Scrub[given.fields[k]]}
        BY <2>2, <3>1, <3>2, <3>9, ScrubKinds, NestedValues
      <4>2. given.fields[k] \in Values /\ Redacted \in Values
        BY <4>1, NestedValues, PiiAssumption
      <4> QED BY <4>1, <4>2 DEF Shown
    <3> QED BY <3>6, <3>8, <3>9, <3>10
  <2> QED BY <2>1, <2>2 DEF WrittenInv
<1>2. QED
  BY <1>1, WrittenInvariant, PTL

\* ScrubIsExpected for a value of any depth.
LEMMA ValuesMeetReference ==
  \A v \in Values : Leaves[Scrub[v]] = {Expected(leaf) : leaf \in Leaves[v]}
BY ScrubIsExpected, NestedValues DEF ExpectedOf

\* However deep a value nests, _scrub does to every leaf what the keys on its path and
\* its kind say, and nothing else.
THEOREM ScrubMeetsItsReference == Spec => []ScrubMeetsReference
<1>1. WrittenInv => ScrubMeetsReference
  <2> SUFFICES ASSUME WrittenInv, written # None, NEW pair \in Scrubbed
               PROVE  \E v \in Values : pair = <<v, Scrub[v]>>
    BY ValuesMeetReference DEF ScrubMeetsReference
  <2>1. CASE given \in Records /\ written = Payload(given)
    <3>1. given \notin Snapshots
      BY <2>1, RecordsAreNotValues
    <3>2. \/ pair = <<given.message, written.fields["message"]>>
          \/ \E k \in DOMAIN given.attributes \ SkippedKeys :
               /\ k # "exc" \/ given.exc_info = None
               /\ pair = <<given.attributes[k], written.fields[k]>>
      BY <3>1 DEF Scrubbed
    <3>3. CASE pair = <<given.message, written.fields["message"]>>
      <4>1. given.message \in Values /\ written.fields["message"] = Scrub[given.message]
        BY <2>1, PayloadFields, CallsAreAboutValues
      <4> QED BY <3>3, <4>1
    <3>4. ASSUME NEW k \in DOMAIN given.attributes \ SkippedKeys,
                 k # "exc" \/ given.exc_info = None,
                 pair = <<given.attributes[k], written.fields[k]>>
          PROVE  \E v \in Values : pair = <<v, Scrub[v]>>
      <4>1. given.attributes[k] \in Values /\ written.fields[k] = Scrub[given.attributes[k]]
        BY <2>1, <3>4, PayloadFields, CallsAreAboutValues
      <4> QED BY <3>4, <4>1
    <3> QED BY <3>2, <3>3, <3>4
  <2>2. CASE given \in Snapshots \ {None, Dict(<<>>)} /\ written = Scrub[given]
    BY <2>2, CallsAreAboutValues DEF Scrubbed
  <2> QED BY <2>1, <2>2 DEF WrittenInv
<1>2. QED
  BY <1>1, WrittenInvariant, PTL

\* A scrubbed value shows no address in a text and nothing but the redaction below a
\* sensitive key.
LEMMA ScrubbedLeaves ==
  ASSUME NEW v \in Values, NEW leaf \in Leaves[Scrub[v]]
  PROVE  /\ leaf.value.kind = "str" =>
              \A i \in DOMAIN leaf.value.words : leaf.value.words[i] # "email"
         /\ SensitiveSteps(leaf.path) # {} => leaf.value = Redacted
<1>1. PICK l \in Leaves[v] : leaf = Expected(l)
  BY ValuesMeetReference
<1>2. CASE SensitiveSteps(l.path) # {}
  <2>1. leaf.value = Redacted
    BY <1>1, <1>2 DEF Expected
  <2> QED BY <2>1 DEF Redacted, Text
<1>3. CASE SensitiveSteps(l.path) = {} /\ l.value.kind = "str"
  <2>1. leaf.path = l.path /\ leaf.value = Text(Masked(l.value.words))
    BY <1>1, <1>3 DEF Expected
  <2>2. leaf.value.words = Masked(l.value.words)
    BY <2>1 DEF Text
  <2>3. \A i \in DOMAIN leaf.value.words : leaf.value.words[i] # "email"
    BY <2>2 DEF Masked
  <2> QED BY <1>3, <2>1, <2>3
<1>4. CASE SensitiveSteps(l.path) = {} /\ l.value.kind # "str"
  BY <1>1, <1>4 DEF Expected
<1>5. QED
  BY <1>2, <1>3, <1>4

\* The leaves of a line are those of its fields, a step further down.
LEMMA PayloadLeaves ==
  ASSUME NEW r \in Records, NEW leaf \in LeavesBy(Payload(r), Leaves)
  PROVE  \E k \in DOMAIN Payload(r).fields :
           \E l \in Leaves[Payload(r).fields[k]] : leaf = LeafAt(<<"key", k>>, l)
<1>1. LeavesBy(Payload(r), Leaves)
        = UNION {Below(<<"key", k>>, Leaves[Payload(r).fields[k]]) : k \in DOMAIN Payload(r).fields}
  BY PayloadFields DEF LeavesBy
<1>2. PICK k \in DOMAIN Payload(r).fields : leaf \in Below(<<"key", k>>, Leaves[Payload(r).fields[k]])
  BY <1>1
<1>3. QED
  BY <1>2 DEF Below, LeafAt

\* The leaves of a scrubbed value have paths, and each leads along one of the value's own.
LEMMA ScrubbedPaths ==
  ASSUME NEW v \in Values, NEW leaf \in Leaves[Scrub[v]]
  PROVE  /\ leaf.path \in Seq(Steps)
         /\ \E l \in Leaves[v] : /\ l.path \in Seq(Steps) /\ Len(leaf.path) <= Len(l.path)
                                 /\ \A j \in 1..Len(leaf.path) : l.path[j] = leaf.path[j]
<1>1. PICK l \in Leaves[v] : leaf = Expected(l)
  BY ValuesMeetReference
<1>2. l.path \in Seq(Steps)
  BY LeavesAreLeaves, NestedValues DEF IsLeafSet
<1>3. CASE SensitiveSteps(l.path) # {}
  <2> DEFINE m == Min(SensitiveSteps(l.path))
  <2>1. SensitiveSteps(l.path) \subseteq 1..Len(l.path)
    BY <1>2 DEF SensitiveSteps
  <2>2. m \in 1..Len(l.path)
    BY <1>3, <2>1, FirstStep
  <2>3. leaf.path = SubSeq(l.path, 1, m)
    BY <1>1, <1>3, Zenon DEF Expected
  <2> HIDE DEF m
  <2>4. /\ leaf.path \in Seq(Steps) /\ Len(leaf.path) = m
        /\ \A j \in 1..m : l.path[j] = leaf.path[j]
    BY <1>2, <2>2, <2>3
  <2> QED BY <1>2, <2>2, <2>4
<1>4. CASE SensitiveSteps(l.path) = {}
  <2>1. leaf.path = l.path
    BY <1>1, <1>4 DEF Expected
  <2> QED BY <1>2, <2>1
<1>5. QED
  BY <1>3, <1>4

\* What NothingElseLeaks says of a leaf that is not in the traceback.
Clean(leaf) ==
  /\ leaf.value.kind = "str" =>
       \A i \in DOMAIN leaf.value.words : leaf.value.words[i] # "email"
  /\ \A i \in SensitiveSteps(leaf.path) :
       leaf.value = Redacted \/ (i = 1 /\ given \in Records)
  /\ \A i \in AddressSteps(leaf.path) :
       \E from \in LeavesBy(Given, Leaves) :
         i \in DOMAIN from.path /\ \A j \in 1..i : from.path[j] = leaf.path[j]

\* A snapshot shows the keys it was given, where they were.
LEMMA SnapshotIsClean ==
  ASSUME given \in Snapshots \ {None}, NEW leaf \in LeavesBy(Scrub[given], Leaves)
  PROVE  Clean(leaf)
<1>1. given \in Values /\ leaf \in Leaves[Scrub[given]] /\ Leaves[given] = LeavesBy(Given, Leaves)
  BY CallsAreAboutValues, LeavesOf DEF Given
<1>2. /\ leaf.value.kind = "str" =>
           \A i \in DOMAIN leaf.value.words : leaf.value.words[i] # "email"
      /\ SensitiveSteps(leaf.path) # {} => leaf.value = Redacted
  BY <1>1, ScrubbedLeaves
<1>3. PICK l \in Leaves[given] :
        /\ leaf.path \in Seq(Steps)
        /\ l.path \in Seq(Steps) /\ Len(leaf.path) <= Len(l.path)
        /\ \A j \in 1..Len(leaf.path) : l.path[j] = leaf.path[j]
  BY <1>1, ScrubbedPaths
<1>4. ASSUME NEW i \in AddressSteps(leaf.path)
      PROVE  i \in DOMAIN l.path /\ \A j \in 1..i : l.path[j] = leaf.path[j]
  <2>1. i \in 1..Len(leaf.path)
    BY <1>3 DEF AddressSteps
  <2> QED BY <1>3, <2>1
<1>5. QED
  BY <1>1, <1>2, <1>4 DEF Clean

\* The steps of a path that are not its first.
LEMMA StepsBelow ==
  ASSUME NEW step \in Steps, NEW path \in Seq(Steps)
  PROVE  /\ \A i \in SensitiveSteps(<<step>> \o path) : i # 1 => i-1 \in SensitiveSteps(path)
         /\ \A i \in AddressSteps(<<step>> \o path) :
              i \in 1..Len(path)+1 /\ (i # 1 => i-1 \in AddressSteps(path))
<1> DEFINE long == <<step>> \o path
<1>1. /\ DOMAIN long = 1..Len(path)+1
      /\ \A i \in 1..Len(path) : long[i+1] = path[i]
      /\ Len(path) \in Nat /\ DOMAIN path = 1..Len(path)
  BY PathGrows
<1> HIDE DEF long
<1>2. ASSUME NEW i \in DOMAIN long, i # 1 PROVE i-1 \in DOMAIN path /\ long[i] = path[i-1]
  <2>1. i-1 \in 1..Len(path) /\ (i-1)+1 = i
    BY <1>1, <1>2
  <2> QED BY <1>1, <2>1
<1>3. /\ \A i \in SensitiveSteps(long) : i # 1 => i-1 \in SensitiveSteps(path)
      /\ \A i \in AddressSteps(long) :
           i \in 1..Len(path)+1 /\ (i # 1 => i-1 \in AddressSteps(path))
  BY <1>1, <1>2 DEF SensitiveSteps, AddressSteps
<1>4. QED
  BY <1>3 DEF long

\* A field that is one text, unscrubbed because it is of the frame or scrubbed because
\* it is the message, under a key of the frame.
LEMMA FrameIsClean ==
  ASSUME NEW k \in {"level", "logger", "message", "time"}, NEW l, l.path = <<>>,
         l.value.kind = "str" => \A i \in DOMAIN l.value.words : l.value.words[i] # "email",
         given \in Records, NEW leaf, leaf = LeafAt(<<"key", k>>, l)
  PROVE  Clean(leaf)
<1>1. <<"key", k>> \in Steps /\ <<>> \in Seq(Steps) /\ k \notin AddressKeys
  BY PiiAssumption DEF Steps
<1>2. leaf.path = <<<<"key", k>>>> \o <<>> /\ leaf.value = l.value
  BY DEF LeafAt
<1>3. SensitiveSteps(<<>>) = {} /\ AddressSteps(<<>>) = {}
  BY DEF SensitiveSteps, AddressSteps
<1>4. leaf.path[1] = <<"key", k>>
  BY <1>1, <1>2, PathGrows
<1>5. AddressSteps(leaf.path) = {}
  <2>1. \A i \in AddressSteps(leaf.path) : i = 1
    BY <1>1, <1>2, <1>3, StepsBelow
  <2> QED BY <1>1, <1>4, <2>1 DEF AddressSteps
<1>6. \A i \in SensitiveSteps(leaf.path) : i = 1
  BY <1>1, <1>2, <1>3, StepsBelow
<1>7. QED
  BY <1>2, <1>5, <1>6 DEF Clean

\* An attribute shows the keys of its value below its own name.
LEMMA AttributeIsClean ==
  ASSUME given \in Records, NEW k \in DOMAIN given.attributes,
         NEW l \in Leaves[Scrub[given.attributes[k]]], NEW leaf, leaf = LeafAt(<<"key", k>>, l)
  PROVE  Clean(leaf)
<1> DEFINE v == given.attributes[k]
           step == <<"key", k>>
<1>1. v \in Values /\ step \in Steps
  <2>1. given.attributes \in Attributes
    BY DEF Records
  <2>2. k \in Keys
    BY <2>1, PiiAssumption
  <2> QED BY <2>2, CallsAreAboutValues DEF Steps
<1>2. leaf.path = <<step>> \o l.path /\ leaf.value = l.value
  BY DEF LeafAt
<1>3. PICK o \in Leaves[v] :
        /\ l.path \in Seq(Steps)
        /\ o.path \in Seq(Steps) /\ Len(l.path) <= Len(o.path)
        /\ \A j \in 1..Len(l.path) : o.path[j] = l.path[j]
  BY <1>1, ScrubbedPaths
<1>4. /\ l.value.kind = "str" =>
           \A i \in DOMAIN l.value.words : l.value.words[i] # "email"
      /\ SensitiveSteps(l.path) # {} => l.value = Redacted
  BY <1>1, ScrubbedLeaves
<1> DEFINE from == LeafAt(step, o)
<1>5. from \in LeavesBy(Given, Leaves)
  <2>1. Given = Dict(given.attributes)
    BY RecordsAreNotValues DEF Given
  <2>2. LeavesBy(Given, Leaves)
          = UNION {Below(<<"key", q>>, Leaves[given.attributes[q]]) : q \in DOMAIN given.attributes}
    BY <2>1 DEF LeavesBy, Dict
  <2>3. from \in Below(step, Leaves[v])
    BY DEF Below, LeafAt
  <2> QED BY <2>2, <2>3
<1>6. from.path = <<step>> \o o.path
  BY DEF LeafAt
<1> HIDE DEF v, step, from
<1>7. ASSUME NEW i \in 1..Len(l.path)+1
      PROVE  i \in DOMAIN from.path /\ \A j \in 1..i : from.path[j] = leaf.path[j]
  <2>1. /\ DOMAIN from.path = 1..Len(o.path)+1
        /\ from.path[1] = step /\ leaf.path[1] = step
        /\ \A j \in 1..Len(o.path) : from.path[j+1] = o.path[j]
        /\ \A j \in 1..Len(l.path) : leaf.path[j+1] = l.path[j]
        /\ Len(l.path) \in Nat /\ Len(o.path) \in Nat
    <3>1. /\ DOMAIN (<<step>> \o o.path) = 1..Len(o.path)+1 /\ (<<step>> \o o.path)[1] = step
          /\ \A j \in 1..Len(o.path) : (<<step>> \o o.path)[j+1] = o.path[j]
      BY <1>1, <1>3, PathGrows
    <3>2. /\ (<<step>> \o l.path)[1] = step
          /\ \A j \in 1..Len(l.path) : (<<step>> \o l.path)[j+1] = l.path[j]
      BY <1>1, <1>3, PathGrows
    <3>3. Len(l.path) \in Nat /\ Len(o.path) \in Nat
      BY <1>3
    <3> QED BY <1>2, <1>6, <3>1, <3>2, <3>3, Zenon
  <2>2. ASSUME NEW j \in 1..i, j # 1 PROVE from.path[j] = leaf.path[j]
    <3>1. j-1 \in 1..Len(l.path) /\ j-1 \in 1..Len(o.path) /\ (j-1)+1 = j
      BY <1>3, <2>1, <2>2
    <3>2. from.path[j] = o.path[j-1] /\ leaf.path[j] = l.path[j-1]
      BY <2>1, <3>1
    <3> QED BY <1>3, <3>1, <3>2
  <2>3. \A j \in 1..i : from.path[j] = leaf.path[j]
    <3> SUFFICES ASSUME NEW j \in 1..i PROVE from.path[j] = leaf.path[j]
      OBVIOUS
    <3>1. CASE j = 1
      BY <2>1, <3>1
    <3> QED BY <2>2, <3>1
  <2>4. i \in DOMAIN from.path
    BY <1>3, <2>1
  <2> QED BY <2>3, <2>4
<1>8. /\ \A i \in SensitiveSteps(leaf.path) : i # 1 => SensitiveSteps(l.path) # {}
      /\ \A i \in AddressSteps(leaf.path) : i \in 1..Len(l.path)+1
  BY <1>1, <1>2, <1>3, StepsBelow
<1>9. QED
  BY <1>2, <1>4, <1>5, <1>7, <1>8 DEF Clean

\* Nothing gets through but what the list of NothingElseLeaks names: objects, the
\* traceback, the names of attributes, and keys that were given with an address in them.
THEOREM NothingElseGetsThrough == Spec => []NothingElseLeaks
<1>1. WrittenInv => NothingElseLeaks
  <2> SUFFICES ASSUME WrittenInv, written # None, NEW leaf \in LeavesBy(written, Leaves),
                      ~InTraceback(leaf)
               PROVE  Clean(leaf)
    BY DEF NothingElseLeaks, Clean
  <2>1. CASE given \in Snapshots \ {None, Dict(<<>>)} /\ written = Scrub[given]
    BY <2>1, SnapshotIsClean
  <2>2. CASE given \in Records /\ written = Payload(given)
    <3>1. PICK k \in DOMAIN written.fields :
            \E l \in Leaves[written.fields[k]] : leaf = LeafAt(<<"key", k>>, l)
      BY <2>2, PayloadLeaves
    <3>2. PICK l \in Leaves[written.fields[k]] : leaf = LeafAt(<<"key", k>>, l)
      BY <3>1
    <3>3. CASE k = "exc" /\ given.exc_info # None /\ written.fields[k] = List(<<given.exc_info>>)
      <4>1. written.fields[k] \in Values
        BY <2>2, <3>3, CallsAreAboutValues
      <4>2. l.path \in Seq(Steps) /\ <<"key", k>> \in Steps
        BY <3>2, <3>3, <4>1, LeavesAreLeaves, NestedValues, PiiAssumption DEF IsLeafSet, Steps
      <4>3. leaf.path = <<<<"key", k>>>> \o l.path
        BY <3>2 DEF LeafAt
      <4>4. leaf.path[1] = <<"key", k>>
        BY <4>2, <4>3, PathGrows
      <4> QED BY <2>2, <3>3, <4>4 DEF InTraceback
    <3>4. CASE k \in DOMAIN given.attributes /\ written.fields[k] = Scrub[given.attributes[k]]
      BY <2>2, <3>2, <3>4, AttributeIsClean
    <3>5. CASE k = "message" /\ written.fields[k] = Scrub[given.message]
      <4>1. given.message \in Values /\ given.message.kind = "str"
        BY <2>2, CallsAreAboutValues, PiiAssumption DEF Records
      <4>2. Leaves[given.message] = {[path |-> <<>>, value |-> given.message]}
        BY <4>1, LeavesOf DEF LeavesBy
      <4>3. \A o \in Leaves[given.message] : o.path = <<>>
        BY <4>2
      <4>4. l.path \in Seq(Steps) /\ Len(l.path) <= 0
        BY <3>2, <3>5, <4>1, <4>3, ScrubbedPaths
      <4>5. l.path = <<>>
        BY <4>4
      <4>6. l.value.kind = "str" => \A i \in DOMAIN l.value.words : l.value.words[i] # "email"
        BY <3>2, <3>5, <4>1, ScrubbedLeaves
      <4> QED BY <2>2, <3>2, <3>5, <4>5, <4>6, FrameIsClean
    <3>6. CASE k \in {"level", "logger", "time"} /\ written.fields[k] = Text(<<"word">>)
      <4>1. Leaves[Text(<<"word">>)] = {[path |-> <<>>, value |-> Text(<<"word">>)]}
        BY CallsAreAboutValues, LeavesOf DEF LeavesBy, Text
      <4>2. l.path = <<>> /\ l.value = Text(<<"word">>)
        BY <3>2, <3>6, <4>1
      <4>3. Text(<<"word">>).words = <<"word">>
        BY DEF Text
      <4>4. l.value.words = <<"word">>
        BY <4>2, <4>3, Zenon
      <4>5. \A i \in DOMAIN l.value.words : l.value.words[i] # "email"
        BY <4>4
      <4> QED BY <2>2, <3>2, <3>6, <4>2, <4>5, FrameIsClean
    <3> QED BY <2>2, <3>3, <3>4, <3>5, <3>6, PayloadFields
  <2> QED BY <2>1, <2>2 DEF WrittenInv
<1>2. QED
  BY <1>1, WrittenInvariant, PTL
===============================================================================
