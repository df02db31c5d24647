------------------------------ MODULE PlanProofs ------------------------------
(***************************************************************************)
(* Proofs about PlanVerification for all workspaces, search bounds and     *)
(* answers of the external planner.                                        *)
(***************************************************************************)
EXTENDS PlanVerification, TLAPS, FiniteSetTheorems, SequenceTheorems, WellFoundedInduction

-----------------------------------------------------------------------------
(* Numbers, lists and functions defined one number after the other *)

\* A set of numbers with 0 and every successor has them all
LEMMA AllNumbers ==
  ASSUME NEW S, 0 \in S, \A n \in Nat : n \in S => n + 1 \in S
  PROVE  Nat \subseteq S
<1> DEFINE T == Nat \ S
           R == OpToRel(<, Nat)
<1> SUFFICES ASSUME T # {} PROVE FALSE
  OBVIOUS
<1>1. IsWellFoundedOn(R, Nat)
  BY NatLessThanWellFounded
<1>2. \A x, y \in Nat : x < y => <<x, y>> \in R
  BY DEF OpToRel
<1> HIDE DEF R
<1>3. \E x \in T : \A y \in T : ~ (<<y, x>> \in R)
  <2>1. T \subseteq Nat
    OBVIOUS
  <2> HIDE DEF T
  <2> QED BY <1>1, <2>1, WFMin
<1>4. PICK x \in T : \A y \in T : ~ (<<y, x>> \in R)
  BY <1>3
<1>5. x \in Nat /\ x # 0 /\ x - 1 \in Nat /\ x - 1 < x /\ x - 1 + 1 = x
  BY <1>4
<1>6. x - 1 \in S
  BY <1>2, <1>4, <1>5
<1>7. x - 1 + 1 \in S
  BY <1>5, <1>6
<1> QED BY <1>4, <1>5, <1>7

\* The same up to a bound
LEMMA PassesOn ==
  ASSUME NEW N \in Nat, NEW S, 0 \in S, \A n \in 1..N : n - 1 \in S => n \in S
  PROVE  0..N \subseteq S
<1> DEFINE A == {n \in Nat : n <= N => n \in S}
<1>1. 0 \in A
  OBVIOUS
<1>2. ASSUME NEW n \in Nat, n \in A PROVE n + 1 \in A
  <2> SUFFICES ASSUME n + 1 <= N PROVE n + 1 \in S
    OBVIOUS
  <2>1. n + 1 \in 1..N /\ n + 1 - 1 = n /\ n \in S
    BY <1>2
  <2> QED BY <2>1
<1>3. Nat \subseteq A
  <2> HIDE DEF A
  <2> QED BY <1>1, <1>2, AllNumbers
<1> QED BY <1>3

\* A function may be defined by where it starts and one move for each number
Moves(T, N, X) == T \in [1..N -> [X -> X]]

\* f is where the moves lead, one after the other
Leads(f, init, N, X, T) ==
  f \in [0..N -> X] /\ f[0] = init /\ \A n \in 1..N : f[n] = T[n][f[n - 1]]

LEMMA Iterates ==
  ASSUME NEW X, NEW init \in X, NEW N \in Nat, NEW T, Moves(T, N, X)
  PROVE  \E f : Leads(f, init, N, X, T)
<1> USE DEF Moves
<1> DEFINE Good(k, f) == Leads(f, init, k, X, T)
           S == {k \in Nat : k <= N => \E f : Good(k, f)}
<1>1. 0 \in S
  <2> DEFINE g == [n \in 0..0 |-> init]
  <2>1. Good(0, g)
    BY DEF Leads
  <2> HIDE DEF g
  <2>2. \E f : Good(0, f)
    BY <2>1, Zenon
  <2> HIDE DEF Good
  <2> QED BY <2>2
<1>2. ASSUME NEW k \in Nat, k \in S PROVE k + 1 \in S
  <2> SUFFICES ASSUME k + 1 <= N PROVE \E f : Good(k + 1, f)
    OBVIOUS
  <2>1. PICK f : Good(k, f)
    BY <1>2
  <2> USE DEF Leads
  <2> DEFINE g == [n \in 0..(k + 1) |-> IF n = k + 1 THEN T[n][f[k]] ELSE f[n]]
  <2>2. T[k + 1] \in [X -> X] /\ f[k] \in X
    BY <2>1
  <2>3. Good(k + 1, g)
    <3>1. g \in [0..(k + 1) -> X]
      <4>1. \A n \in 0..(k + 1) : n # k + 1 => n \in 0..k
        OBVIOUS
      <4> QED BY <2>1, <2>2, <4>1
    <3>2. g[0] = init
      BY <2>1
    <3>3. ASSUME NEW n \in 1..(k + 1) PROVE g[n] = T[n][g[n - 1]]
      <4>1. CASE n = k + 1
        BY <4>1
      <4>2. CASE n # k + 1
        <5>1. n \in 1..k /\ n - 1 \in 0..k /\ n - 1 # k + 1 /\ n \in 0..(k + 1) /\ n - 1 \in 0..(k + 1)
          BY <4>2
        <5> QED BY <2>1, <4>2, <5>1
      <4> QED BY <4>1, <4>2
    <3> QED BY <3>1, <3>2, <3>3
  <2> HIDE DEF g
  <2> HIDE DEF Leads
  <2> QED BY <2>3
<1>3. N \in S
  <2> HIDE DEF S
  <2> QED BY <1>1, <1>2, AllNumbers
<1> QED BY <1>3

\* What holds at 0 and is passed on holds everywhere
LEMMA Passes ==
  ASSUME NEW X, NEW N \in Nat, NEW g, g[0] \in X, \A n \in 1..N : g[n - 1] \in X => g[n] \in X
  PROVE  \A n \in 0..N : g[n] \in X
<1> DEFINE S == {n \in 0..N : g[n] \in X}
<1>1. 0 \in S
  OBVIOUS
<1>2. ASSUME NEW n \in 1..N, n - 1 \in S PROVE n \in S
  BY <1>2
<1>3. 0..N \subseteq S
  <2> HIDE DEF S
  <2> QED BY <1>1, <1>2, PassesOn
<1> QED BY <1>3

-----------------------------------------------------------------------------
(* The topological order *)

OrderOf(steps) ==
  CHOOSE f : f = [n \in 0..Len(steps) |-> IF n = 0 THEN <<>> ELSE Placed(steps, f[n - 1])]

LEMMA OrderOfIs == \A steps : TopologicalOrder(steps) = OrderOf(steps)[Len(steps)]
  BY DEF TopologicalOrder, OrderOf

\* The elements before a position
Before(seq, i) == {seq[j] : j \in 1..(i - 1)}

\* A list of steps, each once, none before its parents
Ordered(steps, order) ==
  /\ order \in Seq(Ids(steps))
  /\ IsInjective(order)
  /\ \A i \in DOMAIN order : EffectiveDependencies(steps)[order[i]] \subseteq Before(order, i)

\* What is appended comes behind what is there
LEMMA Appended ==
  ASSUME NEW S, NEW seq \in Seq(S), NEW x \in S
  PROVE  /\ Append(seq, x) \in Seq(S)
         /\ Len(Append(seq, x)) = Len(seq) + 1
         /\ DOMAIN Append(seq, x) = DOMAIN seq \cup {Len(seq) + 1}
         /\ \A i \in DOMAIN seq : Append(seq, x)[i] = seq[i]
         /\ Append(seq, x)[Len(seq) + 1] = x
         /\ ToSet(Append(seq, x)) = ToSet(seq) \cup {x}
         /\ \A i \in 1..(Len(seq) + 1) : Before(Append(seq, x), i) = Before(seq, i)
         /\ Before(Append(seq, x), Len(seq) + 1) = ToSet(seq)
         /\ IsInjective(seq) /\ x \notin ToSet(seq) => IsInjective(Append(seq, x))
<1>1. /\ Append(seq, x) \in Seq(S)
      /\ Len(Append(seq, x)) = Len(seq) + 1
      /\ \A i \in 1..Len(seq) : Append(seq, x)[i] = seq[i]
      /\ Append(seq, x)[Len(seq) + 1] = x
  BY AppendProperties
<1>2. Len(seq) \in Nat /\ DOMAIN seq = 1..Len(seq) /\ DOMAIN Append(seq, x) = 1..(Len(seq) + 1)
  BY <1>1, LenProperties
<1>3. ToSet(Append(seq, x)) = ToSet(seq) \cup {x}
  BY <1>1, <1>2 DEF ToSet
<1>4. \A i \in 1..(Len(seq) + 1) : Before(Append(seq, x), i) = Before(seq, i)
  BY <1>1, <1>2 DEF Before
<1>5. Before(seq, Len(seq) + 1) = ToSet(seq)
  BY <1>2 DEF Before, ToSet
<1>6. IsInjective(seq) /\ x \notin ToSet(seq) => IsInjective(Append(seq, x))
  BY <1>1, <1>2 DEF IsInjective, ToSet
<1>7. Len(seq) + 1 \in 1..(Len(seq) + 1)
  BY <1>2
<1> QED BY <1>1, <1>2, <1>3, <1>4, <1>5, <1>6, <1>7

\* Natural numbers have a least one
LEMMA Least ==
  ASSUME NEW S \in SUBSET Nat, S # {}
  PROVE  \E x \in S : \A y \in S : x <= y
<1> DEFINE R == OpToRel(<, Nat)
<1>1. IsWellFoundedOn(R, Nat)
  BY NatLessThanWellFounded
<1>2. \A x, y \in Nat : x < y => <<x, y>> \in R
  BY DEF OpToRel
<1> HIDE DEF R
<1>3. PICK x \in S : \A y \in S : ~ (<<y, x>> \in R)
  BY <1>1, WFMin
<1>4. ASSUME NEW y \in S PROVE x <= y
  <2>1. x \in Nat /\ y \in Nat /\ ~ (y < x)
    BY <1>2, <1>3
  <2> QED BY <2>1
<1> QED BY <1>4

LEMMA PlacedKeepsOrder ==
  ASSUME NEW steps, steps \in Seq(ToSet(steps)), NEW order, Ordered(steps, order)
  PROVE  Ordered(steps, Placed(steps, order))
<1> DEFINE first == CHOOSE i \in Ready(steps, order) : \A j \in Ready(steps, order) : i <= j
           id == steps[first].id
<1> SUFFICES ASSUME Ready(steps, order) # {} PROVE Ordered(steps, Append(order, id))
  BY DEF Placed
<1>1. Ready(steps, order) \in SUBSET Nat
  BY DEF Ready
<1>2. first \in Ready(steps, order)
  BY <1>1, Least
<1> HIDE DEF first
<1>3. id \in Ids(steps) /\ id \notin ToSet(order) /\ EffectiveDependencies(steps)[id] \subseteq ToSet(order)
  BY <1>2 DEF Ready, Ids
<1> HIDE DEF id
<1>4. order \in Seq(Ids(steps)) /\ IsInjective(order)
  BY DEF Ordered
<1>5. ASSUME NEW i \in DOMAIN Append(order, id)
      PROVE  EffectiveDependencies(steps)[Append(order, id)[i]] \subseteq Before(Append(order, id), i)
  <2>1. CASE i \in DOMAIN order
    <3>1. i \in 1..(Len(order) + 1)
      BY <2>1, <1>4
    <3> QED BY <2>1, <3>1, <1>3, <1>4, Appended DEF Ordered
  <2>2. CASE i = Len(order) + 1
    BY <2>2, <1>3, <1>4, Appended
  <2> QED BY <2>1, <2>2, <1>3, <1>4, Appended
<1> QED BY <1>3, <1>4, <1>5, Appended DEF Ordered

LEMMA OrderIsOrdered ==
  ASSUME NEW steps, steps \in Seq(ToSet(steps))
  PROVE  Ordered(steps, TopologicalOrder(steps))
<1> DEFINE N == Len(steps)
           X == {order \in Seq(Ids(steps)) : Ordered(steps, order)}
           T == [n \in 1..N |-> [order \in X |-> Placed(steps, order)]]
<1>1. <<>> \in X
  BY DEF Ordered, IsInjective
<1>2. \A order \in X : Placed(steps, order) \in X
  BY PlacedKeepsOrder DEF Ordered
<1>3. Moves(T, N, X) /\ N \in Nat
  BY <1>2 DEF Moves
<1> HIDE DEF X
<1>4. PICK f : Leads(f, <<>>, N, X, T)
  <2> HIDE DEF T, N
  <2> QED BY <1>1, <1>3, Iterates
<1>5. f = [n \in 0..N |-> IF n = 0 THEN <<>> ELSE Placed(steps, f[n - 1])]
  <2>1. \A n \in 1..N : f[n - 1] \in X
    BY <1>4 DEF Leads
  <2>2. f[0] = <<>> /\ \A n \in 1..N : f[n] = Placed(steps, f[n - 1])
    BY <1>4, <2>1 DEF Leads
  <2>3. f = [n \in 0..N |-> f[n]]
    BY <1>4 DEF Leads
  <2> HIDE DEF T, N
  <2> QED BY <1>3, <2>2, <2>3
<1> DEFINE g == OrderOf(steps)
<1>6. g = [n \in 0..N |-> IF n = 0 THEN <<>> ELSE Placed(steps, g[n - 1])]
  BY <1>5 DEF OrderOf
<1> HIDE DEF g
<1>7. g[0] = <<>> /\ \A n \in 1..N : g[n] = Placed(steps, g[n - 1])
  <2> HIDE DEF N
  <2> QED BY <1>3, <1>6
<1>8. g[0] \in X /\ \A n \in 1..N : g[n - 1] \in X => g[n] \in X
  BY <1>1, <1>2, <1>7
<1>9. g[N] \in X
  <2>1. \A n \in 0..N : g[n] \in X
    <3> HIDE DEF N
    <3> QED BY <1>3, <1>8, Passes
  <2> QED BY <1>3, <2>1
<1> QED BY <1>9, OrderOfIs DEF X, g

\* The step with an id is one of the steps
LEMMA StepOfIs ==
  ASSUME NEW steps, NEW id \in Ids(steps)
  PROVE  \E i \in DOMAIN steps : StepOf(steps, id) = steps[i] /\ steps[i].id = id
  BY DEF Ids, StepOf

LEMMA ParentsAreSteps ==
  ASSUME NEW steps, GraphValid(steps)
  PROVE  EffectiveDependencies(steps) \in [Ids(steps) -> SUBSET Ids(steps)]
<1>1. ASSUME NEW id \in Ids(steps) PROVE ToSet(Parents(StepOf(steps, id))) \subseteq Ids(steps)
  BY StepOfIs DEF GraphValid
<1> QED BY <1>1 DEF EffectiveDependencies

\* Whatever a step depends on comes before it
LEMMA DependenciesComeBefore ==
  ASSUME NEW steps, steps \in Seq(ToSet(steps)), GraphValid(steps)
  PROVE  LET order == TopologicalOrder(steps)
         IN  \A i \in DOMAIN order : TransitiveDependencies(steps)[order[i]] \subseteq Before(order, i)
<1> DEFINE order == TopologicalOrder(steps)
           deps == EffectiveDependencies(steps)
           N == Len(order)
           init == [id \in Ids(steps) |-> {}]
           X == {c \in [Ids(steps) -> SUBSET Ids(steps)] :
                   \A i \in DOMAIN order : c[order[i]] \subseteq Before(order, i)}
           T == [n \in 1..N |-> [c \in X |-> Gathered(steps, c, order[n])]]
<1>1. /\ order \in Seq(Ids(steps)) /\ IsInjective(order)
      /\ \A i \in DOMAIN order : deps[order[i]] \subseteq Before(order, i)
  BY OrderIsOrdered DEF Ordered
<1>2. deps \in [Ids(steps) -> SUBSET Ids(steps)]
  BY ParentsAreSteps
<1>3. N \in Nat /\ DOMAIN order = 1..N /\ \A i \in 1..N : order[i] \in Ids(steps)
  <2> HIDE DEF order
  <2> QED BY <1>1
<1>4. ASSUME NEW n \in 1..N, NEW c \in X PROVE Gathered(steps, c, order[n]) \in X
  <2> DEFINE id == order[n]
             all == deps[id] \cup UNION {c[parent] : parent \in deps[id]}
  <2>1. Gathered(steps, c, id) = [c EXCEPT ![id] = all]
    BY DEF Gathered
  <2> HIDE DEF deps, order
  <2>2. id \in Ids(steps) /\ n \in DOMAIN order
    BY <1>3
  <2>3. all \subseteq Before(order, n)
    <3>1. ASSUME NEW parent \in deps[id] PROVE c[parent] \subseteq Before(order, n)
      <4>1. PICK j \in 1..(n - 1) : parent = order[j]
        BY <1>1, <2>2 DEF Before
      <4>2. j \in DOMAIN order /\ j < n
        BY <1>3, <4>1
      <4>3. Before(order, j) \subseteq Before(order, n)
        BY <1>3, <4>2 DEF Before
      <4> QED BY <4>1, <4>2, <4>3
    <3> QED BY <1>1, <2>2, <3>1
  <2>4. Before(order, n) \subseteq Ids(steps)
    BY <1>3 DEF Before
  <2> HIDE DEF all
  <2>5. [c EXCEPT ![id] = all] \in [Ids(steps) -> SUBSET Ids(steps)]
    BY <2>2, <2>3, <2>4
  <2>6. ASSUME NEW i \in DOMAIN order PROVE [c EXCEPT ![id] = all][order[i]] \subseteq Before(order, i)
    <3>1. CASE i = n
      BY <3>1, <2>2, <2>3
    <3>2. CASE i # n
      BY <3>2, <1>1, <1>3, <2>2 DEF IsInjective
    <3> QED BY <3>1, <3>2
  <2> QED BY <2>1, <2>5, <2>6
<1>5. init \in X
  <2> HIDE DEF order
  <2> QED BY <1>3
<1> HIDE DEF X
<1>6. Moves(T, N, X)
  BY <1>4 DEF Moves
<1>7. PICK f : Leads(f, init, N, X, T)
  <2> HIDE DEF T, N, init
  <2> QED BY <1>3, <1>5, <1>6, Iterates
<1>8. f = [n \in 0..N |-> IF n = 0 THEN init ELSE Gathered(steps, f[n - 1], order[n])]
  <2>1. \A n \in 1..N : f[n - 1] \in X
    BY <1>7 DEF Leads
  <2>2. f[0] = init /\ \A n \in 1..N : f[n] = Gathered(steps, f[n - 1], order[n])
    BY <1>7, <2>1 DEF Leads
  <2>3. f = [n \in 0..N |-> f[n]]
    BY <1>7 DEF Leads
  <2> HIDE DEF T, N, init, order
  <2>4. \A n \in 0..N : f[n] = IF n = 0 THEN init ELSE Gathered(steps, f[n - 1], order[n])
    <3>1. \A n \in 0..N : n # 0 => n \in 1..N
      BY <1>3
    <3> QED BY <2>2, <3>1
  <2> QED BY <2>3, <2>4
<1> DEFINE g == CHOOSE c : c = [n \in 0..N |-> IF n = 0 THEN init ELSE Gathered(steps, c[n - 1], order[n])]
<1>9. g = [n \in 0..N |-> IF n = 0 THEN init ELSE Gathered(steps, g[n - 1], order[n])]
  BY <1>8
<1>10. TransitiveDependencies(steps) = g[N]
  BY DEF TransitiveDependencies
<1> HIDE DEF g
<1>11. g[0] = init /\ \A n \in 1..N : g[n] = Gathered(steps, g[n - 1], order[n])
  <2> HIDE DEF N, init, order
  <2> QED BY <1>3, <1>9
<1>12. g[0] \in X /\ \A n \in 1..N : g[n - 1] \in X => g[n] \in X
  <2> HIDE DEF init, N, order
  <2> QED BY <1>4, <1>5, <1>11
<1>13. g[N] \in X
  <2>1. \A n \in 0..N : g[n] \in X
    <3> HIDE DEF N
    <3> QED BY <1>3, <1>12, Passes
  <2> QED BY <1>3, <2>1
<1> QED BY <1>10, <1>13 DEF X

-----------------------------------------------------------------------------
(* Runs of a contract, and the exported problem *)

\* The facts after each of the steps
Trace(contract, order, f) ==
  /\ f = [n \in 0..Len(order) |-> f[n]]
  /\ f[0] = contract.initial
  /\ \A n \in 1..Len(order) : f[n] = ApplyAction(ActionOf(contract, order[n]), f[n - 1])

\* Each step once, behind its parents and with the facts it needs
Executable(contract, deps, order, f) ==
  /\ order \in Seq(DOMAIN deps)
  /\ IsInjective(order)
  /\ Trace(contract, order, f)
  /\ \A n \in 1..Len(order) : /\ deps[order[n]] \subseteq Before(order, n)
                              /\ ActionOf(contract, order[n]).pre \subseteq f[n - 1]

\* The order can be run and leaves these facts
Runs(contract, deps, order, facts) ==
  \E f : Executable(contract, deps, order, f) /\ f[Len(order)] = facts

LEMMA TraceExists ==
  ASSUME NEW contract, NEW D, NEW order \in Seq(D)
  PROVE  \E f : Trace(contract, order, f)
<1> DEFINE N == Len(order)
           all == contract.initial \cup UNION {ActionOf(contract, id).add : id \in D}
           X == SUBSET all
           T == [n \in 1..N |-> [facts \in X |-> ApplyAction(ActionOf(contract, order[n]), facts)]]
<1>1. N \in Nat /\ \A n \in 1..N : order[n] \in D
  OBVIOUS
<1>2. ASSUME NEW n \in 1..N, NEW facts \in X PROVE ApplyAction(ActionOf(contract, order[n]), facts) \in X
  BY <1>1 DEF ApplyAction
<1>3. contract.initial \in X
  OBVIOUS
<1> HIDE DEF X
<1>4. Moves(T, N, X)
  BY <1>2 DEF Moves
<1>5. PICK f : Leads(f, contract.initial, N, X, T)
  <2> HIDE DEF T, N
  <2> QED BY <1>1, <1>3, <1>4, Iterates
<1>6. \A n \in 1..N : f[n - 1] \in X
  BY <1>5 DEF Leads
<1>7. \A n \in 1..N : f[n] = ApplyAction(ActionOf(contract, order[n]), f[n - 1])
  BY <1>5, <1>6 DEF Leads
<1> QED BY <1>5, <1>7 DEF Leads, Trace

Done(ids) == {<<"done", id>> : id \in ids}
Unused(ids) == {<<"unused", id>> : id \in ids}

\* Names of different things are different
LEMMA NamesAreDistinct ==
  ASSUME NEW A, NEW B
  PROVE  /\ Named(A) \ Named(B) = Named(A \ B) /\ Named(A) \cup Named(B) = Named(A \cup B)
         /\ Done(A) \cup Done(B) = Done(A \cup B) /\ Unused(A) \ Unused(B) = Unused(A \ B)
         /\ Named(A) \cap Done(B) = {} /\ Named(A) \cap Unused(B) = {} /\ Done(A) \cap Unused(B) = {}
         /\ (Named(A) \subseteq Named(B) <=> A \subseteq B)
         /\ (Done(A) \subseteq Done(B) <=> A \subseteq B)
         /\ (Unused(A) \subseteq Unused(B) <=> A \subseteq B)
<1>1. Named(A) \ Named(B) = Named(A \ B) /\ Named(A) \cup Named(B) = Named(A \cup B)
  BY DEF Named
<1>2. Done(A) \cup Done(B) = Done(A \cup B) /\ Unused(A) \ Unused(B) = Unused(A \ B)
  BY DEF Done, Unused
<1>3. Named(A) \cap Done(B) = {} /\ Named(A) \cap Unused(B) = {} /\ Done(A) \cap Unused(B) = {}
  BY DEF Named, Done, Unused
<1>4. \A S, x : /\ <<"fact", x>> \in Named(S) <=> x \in S
                /\ <<"done", x>> \in Done(S) <=> x \in S
                /\ <<"unused", x>> \in Unused(S) <=> x \in S
  BY DEF Named, Done, Unused
<1>5. Named(A) \subseteq Named(B) <=> A \subseteq B
  <2>1. Named(A) \subseteq Named(B) => A \subseteq B
    BY <1>4
  <2> QED BY <2>1 DEF Named
<1>6. Done(A) \subseteq Done(B) <=> A \subseteq B
  <2>1. Done(A) \subseteq Done(B) => A \subseteq B
    BY <1>4
  <2> QED BY <2>1 DEF Done
<1>7. Unused(A) \subseteq Unused(B) <=> A \subseteq B
  <2>1. Unused(A) \subseteq Unused(B) => A \subseteq B
    BY <1>4
  <2> QED BY <2>1 DEF Unused
<1> QED BY <1>1, <1>2, <1>3, <1>5, <1>6, <1>7

\* The state of the problem that stands for these facts
Encoded(ids, facts, done) == Named(facts) \cup Done(done) \cup Unused(ids \ done)

Changed(state, del, add) == (state \ del) \cup add
With(done, id) == done \cup {id}
Adds(id, add) == Done({id}) \cup Named(add)
Deletes(id, del) == Unused({id}) \cup Named(del)
Needs(id, parents, facts) == Unused({id}) \cup Done(parents) \cup Named(facts)
Wants(ids, facts) == Done(ids) \cup Named(facts)
HoldsIn(part, state) == part \subseteq state

\* What holds in it holds of the facts and of what is done
LEMMA EncodedHolds ==
  ASSUME NEW ids, NEW facts, NEW done, NEW some, NEW parents
  PROVE  /\ HoldsIn(Wants(parents, some), Encoded(ids, facts, done))
              <=> HoldsIn(some, facts) /\ HoldsIn(parents, done)
         /\ \A id \in ids : id \notin done =>
              (HoldsIn(Needs(id, parents, some), Encoded(ids, facts, done))
                 <=> HoldsIn(some, facts) /\ HoldsIn(parents, done))
<1> DEFINE E == Encoded(ids, facts, done)
<1>1. Named(some) \subseteq E <=> Named(some) \subseteq Named(facts)
  <2>1. Named(some) \cap Done(done) = {} /\ Named(some) \cap Unused(ids \ done) = {}
    BY NamesAreDistinct, Zenon
  <2> QED BY <2>1 DEF Encoded
<1>2. Done(parents) \subseteq E <=> Done(parents) \subseteq Done(done)
  <2>1. Named(facts) \cap Done(parents) = {} /\ Done(parents) \cap Unused(ids \ done) = {}
    BY NamesAreDistinct, Zenon
  <2> QED BY <2>1 DEF Encoded
<1>3. \A id \in ids : id \notin done => Unused({id}) \subseteq E
  BY DEF Encoded, Unused
<1>4. Named(some) \subseteq Named(facts) <=> some \subseteq facts
  BY NamesAreDistinct, Zenon
<1>5. Done(parents) \subseteq Done(done) <=> parents \subseteq done
  BY NamesAreDistinct, Zenon
<1> HIDE DEF E
<1>6. Wants(parents, some) \subseteq E <=> some \subseteq facts /\ parents \subseteq done
  <2>1. Wants(parents, some) \subseteq E <=> Done(parents) \subseteq E /\ Named(some) \subseteq E
    BY DEF Wants
  <2> QED BY <1>1, <1>2, <1>4, <1>5, <2>1
<1>7. ASSUME NEW id \in ids, id \notin done
      PROVE  Needs(id, parents, some) \subseteq E <=> some \subseteq facts /\ parents \subseteq done
  <2>1. Needs(id, parents, some) \subseteq E
          <=> Unused({id}) \subseteq E /\ Done(parents) \subseteq E /\ Named(some) \subseteq E
    BY DEF Needs
  <2> QED BY <1>1, <1>2, <1>3, <1>4, <1>5, <1>7, <2>1
<1> QED BY <1>6, <1>7 DEF HoldsIn, E

\* An action of the problem does to it what the action of the contract does to the facts
LEMMA EncodedMoves ==
  ASSUME NEW ids, NEW facts, NEW done, NEW id \in ids, NEW add, NEW del
  PROVE  Changed(Encoded(ids, facts, done), Deletes(id, del), Adds(id, add))
           = Encoded(ids, Changed(facts, del, add), With(done, id))
<1>1. Named(facts) \ Named(del) = Named(facts \ del)
  BY NamesAreDistinct, Zenon
<1>2. Named(facts \ del) \cup Named(add) = Named((facts \ del) \cup add)
  BY DEF Named
<1>3. Done(done) \cup Done({id}) = Done(done \cup {id})
  BY NamesAreDistinct, Zenon
<1>4. Unused(ids \ done) \ Unused({id}) = Unused((ids \ done) \ {id})
  BY DEF Unused
<1>5. (ids \ done) \ {id} = ids \ (done \cup {id})
  OBVIOUS
<1>6. /\ Named(facts) \cap Unused({id}) = {} /\ Done(done) \cap Unused({id}) = {}
      /\ Named(del) \cap Done(done) = {} /\ Named(del) \cap Unused(ids \ done) = {}
  BY NamesAreDistinct, Zenon
<1> QED BY <1>1, <1>2, <1>3, <1>4, <1>5, <1>6 DEF Encoded, Changed, With, Adds, Deletes

FactsOf(problem, order) ==
  CHOOSE f : f = [n \in 0..Len(order) |->
                    IF n = 0 THEN problem.init
                    ELSE (f[n - 1] \ problem.actions[order[n]].del) \cup problem.actions[order[n]].add]

LEMMA ExecutesIs ==
  \A problem, order :
    Executes(problem, order) <=>
      /\ \A n \in DOMAIN order : problem.actions[order[n]].pre \subseteq FactsOf(problem, order)[n - 1]
      /\ problem.goal \subseteq FactsOf(problem, order)[Len(order)]
  BY DEF Executes, FactsOf

\* The parts of an exported problem
LEMMA ExportedParts ==
  ASSUME NEW plan, NEW contract
  PROVE  /\ ExportPddl(plan, contract).init = Encoded(Ids(plan.steps), contract.initial, {})
         /\ ExportPddl(plan, contract).goal = Wants(Ids(plan.steps), contract.goals)
         /\ DOMAIN ExportPddl(plan, contract).actions = Ids(plan.steps)
         /\ \A id \in Ids(plan.steps) :
              /\ ExportPddl(plan, contract).actions[id].pre =
                   Needs(id, EffectiveDependencies(plan.steps)[id], ActionOf(contract, id).pre)
              /\ ExportPddl(plan, contract).actions[id].add = Adds(id, ActionOf(contract, id).add)
              /\ ExportPddl(plan, contract).actions[id].del = Deletes(id, ActionOf(contract, id).del)
<1> DEFINE ids == Ids(plan.steps)
           problem == ExportPddl(plan, contract)
<1>1. problem.init = Named(contract.initial) \cup Unused(ids)
  BY DEF ExportPddl, Unused
<1>2. problem.goal = Named(contract.goals) \cup Done(ids) /\ DOMAIN problem.actions = ids
  BY DEF ExportPddl, Done
<1>3. Done({}) = {} /\ ids \ {} = ids
  BY DEF Done
<1>4. ASSUME NEW id \in ids
      PROVE  /\ problem.actions[id].pre =
                  Needs(id, EffectiveDependencies(plan.steps)[id], ActionOf(contract, id).pre)
             /\ problem.actions[id].add = Adds(id, ActionOf(contract, id).add)
             /\ problem.actions[id].del = Deletes(id, ActionOf(contract, id).del)
  <2>1. Unused({id}) = {<<"unused", id>>} /\ Done({id}) = {<<"done", id>>}
    BY DEF Unused, Done
  <2> QED BY <2>1 DEF ExportPddl, Done, Adds, Deletes, Needs
<1> QED BY <1>1, <1>2, <1>3, <1>4 DEF Encoded, Wants

\* The facts of the exported problem are those of the contract, and what is done
LEMMA ExportFollows ==
  ASSUME NEW plan, NEW contract, NEW order \in Seq(Ids(plan.steps)),
         NEW f, Trace(contract, order, f)
  PROVE  \A n \in 0..Len(order) : FactsOf(ExportPddl(plan, contract), order)[n] =
            Encoded(Ids(plan.steps), f[n], Before(order, n + 1))
<1> DEFINE N == Len(order)
           ids == Ids(plan.steps)
           problem == ExportPddl(plan, contract)
           F == [n \in 0..N |-> Encoded(ids, f[n], Before(order, n + 1))]
           moved(s, n) == (s \ problem.actions[order[n]].del) \cup problem.actions[order[n]].add
<1>1. N \in Nat /\ \A n \in 1..N : order[n] \in ids
  OBVIOUS
<1>0. \A id \in ids : /\ problem.actions[id].add = Adds(id, ActionOf(contract, id).add)
                      /\ problem.actions[id].del = Deletes(id, ActionOf(contract, id).del)
  BY ExportedParts
<1>2. F[0] = problem.init
  <2>1. Before(order, 1) = {}
    BY DEF Before
  <2>3. problem.init = Encoded(ids, contract.initial, {})
    BY ExportedParts, Zenon
  <2> HIDE DEF problem, N
  <2>2. F[0] = Encoded(ids, f[0], Before(order, 1))
    BY <1>1
  <2> QED BY <2>1, <2>2, <2>3 DEF Trace
<1>3. ASSUME NEW n \in 1..N PROVE F[n] = moved(F[n - 1], n)
  <2> DEFINE id == order[n]
             action == ActionOf(contract, id)
  <2>1. id \in ids
    BY <1>1
  <2>2. n \in 0..N /\ n - 1 \in 0..N /\ n - 1 + 1 = n
    BY <1>1
  <2>3. Before(order, n + 1) = Before(order, n) \cup {id}
    BY <1>1 DEF Before
  <2>4. f[n] = Changed(f[n - 1], action.del, action.add)
    BY DEF Trace, ApplyAction, Changed
  <2>5. F[n - 1] = Encoded(ids, f[n - 1], Before(order, n)) /\ F[n] = Encoded(ids, f[n], Before(order, n + 1))
    BY <2>2
  <2> HIDE DEF F, id, problem
  <2>6. problem.actions[id].add = Adds(id, action.add) /\ problem.actions[id].del = Deletes(id, action.del)
    BY <1>0, <2>1
  <2>7. Before(order, n + 1) = With(Before(order, n), id)
    BY <2>3 DEF With
  <2> HIDE DEF action
  <2>8. Changed(Encoded(ids, f[n - 1], Before(order, n)), Deletes(id, action.del), Adds(id, action.add))
          = Encoded(ids, Changed(f[n - 1], action.del, action.add), With(Before(order, n), id))
    BY <2>1, EncodedMoves
  <2>9. F[n] = Changed(F[n - 1], problem.actions[id].del, problem.actions[id].add)
    BY <2>4, <2>5, <2>6, <2>7, <2>8
  <2> QED BY <2>9 DEF id, Changed
<1> HIDE DEF problem
<1>4. F = [n \in 0..N |-> IF n = 0 THEN problem.init ELSE moved(F[n - 1], n)]
  <2>1. F = [n \in 0..N |-> F[n]]
    OBVIOUS
  <2> HIDE DEF F, N
  <2>2. \A n \in 0..N : F[n] = IF n = 0 THEN problem.init ELSE moved(F[n - 1], n)
    <3>1. \A n \in 0..N : n # 0 => n \in 1..N
      BY <1>1
    <3> QED BY <1>2, <1>3, <3>1
  <2> QED BY <2>1, <2>2
<1> DEFINE g == FactsOf(problem, order)
<1> HIDE DEF F
<1>5. g = [n \in 0..N |-> IF n = 0 THEN problem.init ELSE moved(g[n - 1], n)]
  BY <1>4 DEF FactsOf
<1> HIDE DEF g
<1>6. g[0] = problem.init /\ \A n \in 1..N : g[n] = moved(g[n - 1], n)
  <2> HIDE DEF N
  <2> QED BY <1>1, <1>5
<1> DEFINE S == {n \in 0..N : g[n] = F[n]}
<1>7. 0 \in S /\ \A n \in 1..N : n - 1 \in S => n \in S
  <2>1. g[0] = F[0]
    BY <1>2, <1>6
  <2>2. \A n \in 1..N : g[n - 1] = F[n - 1] => g[n] = F[n]
    BY <1>3, <1>6
  <2> HIDE DEF N
  <2>3. \A n \in 1..N : n \in 0..N /\ n - 1 \in 0..N
    BY <1>1
  <2>4. 0 \in 0..N
    BY <1>1
  <2> QED BY <2>1, <2>2, <2>3, <2>4
<1>8. 0..N \subseteq S
  <2> HIDE DEF S, N
  <2> QED BY <1>1, <1>7, PassesOn
<1> QED BY <1>8 DEF F, g, problem

LEMMA ExecutesWithTrace ==
  ASSUME NEW plan, NEW contract, NEW order \in Seq(Ids(plan.steps)), IsInjective(order),
         NEW f, Trace(contract, order, f)
  PROVE  Executes(ExportPddl(plan, contract), order) <=>
           /\ Executable(contract, EffectiveDependencies(plan.steps), order, f)
           /\ contract.goals \subseteq f[Len(order)]
           /\ ToSet(order) = Ids(plan.steps)
<1> DEFINE N == Len(order)
           ids == Ids(plan.steps)
           deps == EffectiveDependencies(plan.steps)
           problem == ExportPddl(plan, contract)
           g == FactsOf(problem, order)
           pre(n) == ActionOf(contract, order[n]).pre
<1>1. N \in Nat /\ DOMAIN order = 1..N /\ \A n \in 1..N : order[n] \in ids
  OBVIOUS
<1>2. \A n \in 0..N : g[n] = Encoded(ids, f[n], Before(order, n + 1))
  BY ExportFollows
<1>3. ASSUME NEW n \in 1..N
      PROVE  problem.actions[order[n]].pre \subseteq g[n - 1]
               <=> pre(n) \subseteq f[n - 1] /\ deps[order[n]] \subseteq Before(order, n)
  <2>1. n - 1 \in 0..N /\ n - 1 + 1 = n
    BY <1>1
  <2>2. g[n - 1] = Encoded(ids, f[n - 1], Before(order, n))
    BY <1>2, <2>1
  <2>3. problem.actions[order[n]].pre = Needs(order[n], deps[order[n]], pre(n))
    BY <1>1, ExportedParts
  <2>4. order[n] \in ids /\ order[n] \notin Before(order, n)
    BY <1>1 DEF Before, IsInjective
  <2> HIDE DEF g, problem, ids, deps, pre
  <2>5. HoldsIn(Needs(order[n], deps[order[n]], pre(n)), Encoded(ids, f[n - 1], Before(order, n)))
          <=> HoldsIn(pre(n), f[n - 1]) /\ HoldsIn(deps[order[n]], Before(order, n))
    BY <2>4, EncodedHolds
  <2> QED BY <2>2, <2>3, <2>5 DEF HoldsIn
<1>4. problem.goal \subseteq g[N] <=> contract.goals \subseteq f[N] /\ ToSet(order) = ids
  <2>1. g[N] = Encoded(ids, f[N], ToSet(order))
    <3>1. Before(order, N + 1) = ToSet(order)
      BY <1>1 DEF Before, ToSet
    <3>2. N \in 0..N
      BY <1>1
    <3> QED BY <1>2, <3>1, <3>2
  <2>2. problem.goal = Wants(ids, contract.goals)
    BY ExportedParts
  <2>3. ToSet(order) \subseteq ids
    BY <1>1 DEF ToSet
  <2> HIDE DEF g, problem, ids, N
  <2>4. HoldsIn(Wants(ids, contract.goals), Encoded(ids, f[N], ToSet(order)))
          <=> HoldsIn(contract.goals, f[N]) /\ HoldsIn(ids, ToSet(order))
    BY EncodedHolds
  <2> QED BY <2>1, <2>2, <2>3, <2>4 DEF HoldsIn
<1>5. Executes(problem, order) <=>
        /\ \A n \in DOMAIN order : problem.actions[order[n]].pre \subseteq g[n - 1]
        /\ problem.goal \subseteq g[N]
  BY ExecutesIs
<1>6. DOMAIN deps = ids
  BY DEF EffectiveDependencies
<1> HIDE DEF g, problem, N, deps
<1>7. Executable(contract, deps, order, f) <=>
        \A n \in 1..N : deps[order[n]] \subseteq Before(order, n) /\ pre(n) \subseteq f[n - 1]
  BY <1>6 DEF Executable, N
<1> QED BY <1>1, <1>3, <1>4, <1>5, <1>7 DEF problem, deps, N

\* What can be run with the contract can be executed in the exported problem, and the reverse
LEMMA ExecutesIffRuns ==
  ASSUME NEW plan, NEW contract, NEW order \in Seq(Ids(plan.steps)), IsInjective(order)
  PROVE  Executes(ExportPddl(plan, contract), order) <=>
           /\ ToSet(order) = Ids(plan.steps)
           /\ \E facts : /\ Runs(contract, EffectiveDependencies(plan.steps), order, facts)
                         /\ contract.goals \subseteq facts
<1>1. PICK f : Trace(contract, order, f)
  BY TraceExists
<1>2. ASSUME Executes(ExportPddl(plan, contract), order)
      PROVE  /\ ToSet(order) = Ids(plan.steps)
             /\ Runs(contract, EffectiveDependencies(plan.steps), order, f[Len(order)])
             /\ contract.goals \subseteq f[Len(order)]
  BY <1>1, <1>2, ExecutesWithTrace DEF Runs
<1>3. ASSUME ToSet(order) = Ids(plan.steps), NEW facts, contract.goals \subseteq facts,
             Runs(contract, EffectiveDependencies(plan.steps), order, facts)
      PROVE  Executes(ExportPddl(plan, contract), order)
  <2>1. PICK h : Executable(contract, EffectiveDependencies(plan.steps), order, h) /\ h[Len(order)] = facts
    BY <1>3 DEF Runs
  <2>2. Trace(contract, order, h)
    BY <2>1 DEF Executable
  <2> QED BY <1>3, <2>1, <2>2, ExecutesWithTrace
<1> QED BY <1>2, <1>3

-----------------------------------------------------------------------------
(* The planner for contracts that delete nothing *)

\* A list without duplicates has as many elements as places
LEMMA InjectiveCounts ==
  ASSUME NEW S, NEW seq \in Seq(S), IsInjective(seq)
  PROVE  IsFiniteSet(ToSet(seq)) /\ Cardinality(ToSet(seq)) = Len(seq)
<1>1. Len(seq) \in Nat /\ DOMAIN seq = 1..Len(seq)
  OBVIOUS
<1>2. seq \in Surjection(1..Len(seq), ToSet(seq)) /\ seq \in Injection(1..Len(seq), ToSet(seq))
  BY <1>1 DEF Surjection, Injection, IsInjective, ToSet
<1>3. IsFiniteSet(1..Len(seq)) /\ Cardinality(1..Len(seq)) = Len(seq)
  BY <1>1, FS_Interval
<1> QED BY <1>2, <1>3, FS_Surjection

LEMMA FullIsAll ==
  ASSUME NEW S, IsFiniteSet(S), NEW seq \in Seq(S), IsInjective(seq)
  PROVE  Len(seq) = Cardinality(S) <=> ToSet(seq) = S
<1>1. ToSet(seq) \in SUBSET S
  BY DEF ToSet
<1> QED BY <1>1, InjectiveCounts, FS_Subset

\* Each of the steps has an action
HasActions(contract, ids) ==
  \A id \in ids : /\ ActionOf(contract, id).step = id
                  /\ \E i \in DOMAIN contract.actions : ActionOf(contract, id) = contract.actions[i]

LEMMA ActionsAreThere ==
  ASSUME NEW contract
  PROVE  HasActions(contract, {contract.actions[i].step : i \in DOMAIN contract.actions})
  BY DEF HasActions, ActionOf

\* What a planner can rely on
Solving(contract, deps) ==
  /\ DOMAIN deps \subseteq Nat
  /\ IsFiniteSet(DOMAIN deps)
  /\ DOMAIN deps = {contract.actions[i].step : i \in DOMAIN contract.actions}
  /\ HasActions(contract, DOMAIN deps)

LEMMA RunStarts ==
  \A contract, deps : Runs(contract, deps, <<>>, contract.initial)
<1> TAKE contract, deps
<1> DEFINE f == [n \in 0..0 |-> contract.initial]
<1>1. Executable(contract, deps, <<>>, f) /\ f[Len(<<>>)] = contract.initial
  BY DEF Executable, Trace, IsInjective
<1> HIDE DEF f
<1> QED BY <1>1 DEF Runs

LEMMA RunExtends ==
  ASSUME NEW contract, NEW deps, NEW order, NEW facts, Runs(contract, deps, order, facts),
         NEW id \in DOMAIN deps, id \notin ToSet(order), HasActions(contract, DOMAIN deps),
         Applicable(ActionOf(contract, id), facts, ToSet(order), deps)
  PROVE  Runs(contract, deps, Append(order, id), ApplyAction(ActionOf(contract, id), facts))
<1>1. PICK f : Executable(contract, deps, order, f) /\ f[Len(order)] = facts
  BY DEF Runs
<1> DEFINE N == Len(order)
           more == Append(order, id)
           last == ApplyAction(ActionOf(contract, id), facts)
           g == [n \in 0..(N + 1) |-> IF n = N + 1 THEN last ELSE f[n]]
<1>2. order \in Seq(DOMAIN deps) /\ IsInjective(order) /\ Trace(contract, order, f)
  BY <1>1 DEF Executable
<1>3. N \in Nat
  BY <1>2
<1>4. /\ more \in Seq(DOMAIN deps) /\ IsInjective(more) /\ Len(more) = N + 1
      /\ \A n \in 1..N : more[n] = order[n]
      /\ more[N + 1] = id
      /\ \A n \in 1..N : Before(more, n) = Before(order, n)
      /\ Before(more, N + 1) = ToSet(order)
  <2>1. 1..N \subseteq 1..(N + 1) /\ DOMAIN order = 1..N
    BY <1>2, <1>3
  <2> QED BY <1>2, <2>1, Appended
<1>5. ActionOf(contract, id).pre \subseteq facts /\ deps[id] \subseteq ToSet(order)
  BY DEF Applicable, HasActions
<1> HIDE DEF more, last
<1>6. g[0] = f[0] /\ g[N + 1] = last /\ \A n \in 0..N : g[n] = f[n]
  BY <1>3
<1>7. g = [n \in 0..(N + 1) |-> g[n]]
  OBVIOUS
<1> HIDE DEF g, N
<1>8. ASSUME NEW n \in 1..(N + 1)
      PROVE  /\ g[n] = ApplyAction(ActionOf(contract, more[n]), g[n - 1])
             /\ deps[more[n]] \subseteq Before(more, n)
             /\ ActionOf(contract, more[n]).pre \subseteq g[n - 1]
  <2>1. CASE n \in 1..N
    <3>1. n \in 0..N /\ n - 1 \in 0..N
      BY <1>3, <2>1
    <3>2. f[n] = ApplyAction(ActionOf(contract, order[n]), f[n - 1])
      BY <1>2, <2>1 DEF Trace, N
    <3>3. deps[order[n]] \subseteq Before(order, n) /\ ActionOf(contract, order[n]).pre \subseteq f[n - 1]
      BY <1>1, <2>1 DEF Executable, N
    <3> QED BY <1>4, <1>6, <2>1, <3>1, <3>2, <3>3
  <2>2. CASE n = N + 1
    <3>1. n - 1 = N /\ N \in 0..N /\ f[N] = facts
      BY <1>1, <1>3, <2>2 DEF N
    <3> QED BY <1>4, <1>5, <1>6, <2>2, <3>1 DEF last
  <2> QED BY <1>3, <2>1, <2>2
<1>9. Trace(contract, more, g)
  <2>1. g[0] = contract.initial
    BY <1>2, <1>6 DEF Trace
  <2> QED BY <1>4, <1>7, <1>8, <2>1 DEF Trace
<1>10. Executable(contract, deps, more, g)
  BY <1>4, <1>8, <1>9 DEF Executable
<1> QED BY <1>4, <1>6, <1>10 DEF Runs, more, last

\* What these steps add
AddedBy(contract, ids) == UNION {ActionOf(contract, id).add : id \in ids}

\* The elements from one position to another
Between(seq, m, n) == {seq[j] : j \in (m + 1)..n}

\* Facts come from somewhere
LEMMA FactsComeFrom ==
  ASSUME NEW contract, NEW D, NEW order \in Seq(D), NEW f, Trace(contract, order, f), NEW m \in 0..Len(order)
  PROVE  \A n \in 0..Len(order) :
           n >= m => f[n] \subseteq f[m] \cup AddedBy(contract, Between(order, m, n))
<1> DEFINE N == Len(order)
           S == {n \in 0..N : n >= m => f[n] \subseteq f[m] \cup AddedBy(contract, Between(order, m, n))}
<1>1. N \in Nat /\ m \in Nat
  OBVIOUS
<1>2. 0 \in S
  <2>1. 0 >= m => m = 0
    BY <1>1
  <2> QED BY <1>1, <2>1
<1>3. ASSUME NEW n \in 1..N, n - 1 \in S PROVE n \in S
  <2> SUFFICES ASSUME n >= m PROVE f[n] \subseteq f[m] \cup AddedBy(contract, Between(order, m, n))
    BY <1>1
  <2>1. CASE n = m
    BY <2>1
  <2>2. CASE n # m
    <3>1. n - 1 \in 0..N /\ n - 1 >= m /\ n \in (m + 1)..n /\ (m + 1)..(n - 1) \subseteq (m + 1)..n
      BY <1>1, <2>2
    <3>2. f[n - 1] \subseteq f[m] \cup AddedBy(contract, Between(order, m, n - 1))
      BY <1>3, <3>1
    <3>3. Between(order, m, n - 1) \subseteq Between(order, m, n) /\ order[n] \in Between(order, m, n)
      BY <3>1 DEF Between
    <3>4. f[n] \subseteq f[n - 1] \cup ActionOf(contract, order[n]).add
      BY DEF Trace, ApplyAction
    <3> HIDE DEF S
    <3> QED BY <3>2, <3>3, <3>4 DEF AddedBy
  <2> QED BY <2>1, <2>2
<1>4. 0..N \subseteq S
  <2> HIDE DEF S, N
  <2> QED BY <1>1, <1>2, <1>3, PassesOn
<1> QED BY <1>4

\* Without deletions they stay
LEMMA FactsStay ==
  ASSUME NEW contract, Monotonic(contract), NEW ids, HasActions(contract, ids),
         NEW order \in Seq(ids), NEW f, Trace(contract, order, f)
  PROVE  \A n \in 0..Len(order) : f[n] = contract.initial \cup AddedBy(contract, Before(order, n + 1))
<1> DEFINE N == Len(order)
           F(n) == contract.initial \cup AddedBy(contract, Before(order, n + 1))
           S == {n \in 0..N : f[n] = F(n)}
<1>1. N \in Nat
  OBVIOUS
<1>2. 0 \in S
  <2>1. Before(order, 1) = {} /\ f[0] = contract.initial
    BY <1>1 DEF Before, Trace
  <2> QED BY <1>1, <2>1 DEF AddedBy
<1>3. ASSUME NEW n \in 1..N, n - 1 \in S PROVE n \in S
  <2> DEFINE action == ActionOf(contract, order[n])
  <2>1. n - 1 \in 0..N /\ n \in 0..N /\ n - 1 + 1 = n /\ order[n] \in ids
    BY <1>1
  <2>2. f[n - 1] = contract.initial \cup AddedBy(contract, Before(order, n))
    BY <1>3, <2>1
  <2>3. Before(order, n + 1) = Before(order, n) \cup {order[n]}
    BY <1>1 DEF Before
  <2>4. action.del = {}
    BY <2>1 DEF HasActions, Monotonic
  <2>5. f[n] = f[n - 1] \cup action.add
    BY <2>4 DEF Trace, ApplyAction
  <2>6. AddedBy(contract, Before(order, n + 1)) = AddedBy(contract, Before(order, n)) \cup action.add
    BY <2>3 DEF AddedBy
  <2> HIDE DEF action
  <2> QED BY <2>1, <2>2, <2>5, <2>6
<1>4. 0..N \subseteq S
  <2> HIDE DEF S, N
  <2> QED BY <1>1, <1>2, <1>3, PassesOn
<1> QED BY <1>4

LEMMA FactsAtEnd ==
  ASSUME NEW contract, Monotonic(contract), NEW deps, HasActions(contract, DOMAIN deps),
         NEW order, NEW facts, Runs(contract, deps, order, facts)
  PROVE  facts = contract.initial \cup AddedBy(contract, ToSet(order))
<1>1. PICK f : Executable(contract, deps, order, f) /\ f[Len(order)] = facts
  BY DEF Runs
<1>2. order \in Seq(DOMAIN deps)
  BY <1>1 DEF Executable
<1>3. Before(order, Len(order) + 1) = ToSet(order) /\ Len(order) \in 0..Len(order)
  BY <1>2 DEF Before, ToSet
<1> QED BY <1>1, <1>2, <1>3, FactsStay DEF Executable

\* The steps that could be taken next
Candidates(contract, deps, s) ==
  {id \in DOMAIN deps \ ToSet(s.order) :
     Applicable(ActionOf(contract, id), s.facts, ToSet(s.order), deps)}

\* Whoever cannot go on has taken every step that some run takes
LEMMA StuckHasAll ==
  ASSUME NEW contract, Monotonic(contract), NEW deps, HasActions(contract, DOMAIN deps),
         NEW s, Runs(contract, deps, s.order, s.facts), Candidates(contract, deps, s) = {},
         NEW order, NEW facts, Runs(contract, deps, order, facts)
  PROVE  ToSet(order) \subseteq ToSet(s.order)
<1>1. PICK f : Executable(contract, deps, order, f) /\ f[Len(order)] = facts
  BY DEF Runs
<1>2. order \in Seq(DOMAIN deps) /\ Len(order) \in Nat /\ DOMAIN order = 1..Len(order)
  BY <1>1 DEF Executable
<1> DEFINE missing == {n \in 1..Len(order) : order[n] \notin ToSet(s.order)}
<1> SUFFICES ASSUME missing # {} PROVE FALSE
  BY <1>2 DEF ToSet
<1>3. PICK n \in missing : \A other \in missing : n <= other
  <2>1. missing \in SUBSET Nat
    BY <1>2
  <2> HIDE DEF missing
  <2> QED BY <2>1, Least
<1>4. Before(order, n) \subseteq ToSet(s.order)
  <2>1. \A j \in 1..(n - 1) : j \in 1..Len(order) /\ j \notin missing
    BY <1>2, <1>3
  <2> QED BY <2>1 DEF Before
<1>5. n - 1 \in 0..Len(order) /\ n - 1 + 1 = n /\ order[n] \in DOMAIN deps
  BY <1>2, <1>3
<1>6. f[n - 1] = contract.initial \cup AddedBy(contract, Before(order, n))
  BY <1>1, <1>2, <1>5, FactsStay DEF Executable
<1>7. s.facts = contract.initial \cup AddedBy(contract, ToSet(s.order))
  BY FactsAtEnd
<1>8. AddedBy(contract, Before(order, n)) \subseteq AddedBy(contract, ToSet(s.order))
  BY <1>4 DEF AddedBy
<1>9. deps[order[n]] \subseteq Before(order, n) /\ ActionOf(contract, order[n]).pre \subseteq f[n - 1]
  BY <1>1, <1>3 DEF Executable
<1>10. Applicable(ActionOf(contract, order[n]), s.facts, ToSet(s.order), deps)
  BY <1>4, <1>5, <1>6, <1>7, <1>8, <1>9 DEF Applicable, HasActions
<1> QED BY <1>3, <1>5, <1>10 DEF Candidates

\* Where the turns of the monotonic planner can lead
Progress(contract, deps) ==
  {s \in [facts : SUBSET (contract.initial \cup AddedBy(contract, DOMAIN deps)), order : Seq(DOMAIN deps)] :
     Runs(contract, deps, s.order, s.facts)}

LEMMA AdvancedProgresses ==
  ASSUME NEW contract, NEW deps, Solving(contract, deps), NEW s \in Progress(contract, deps)
  PROVE  /\ Advanced(contract, deps, s) \in Progress(contract, deps)
         /\ Candidates(contract, deps, s) = {} => Advanced(contract, deps, s) = s
         /\ Candidates(contract, deps, s) # {} => Len(Advanced(contract, deps, s).order) = Len(s.order) + 1
<1> DEFINE candidates == Candidates(contract, deps, s)
           lowest == CHOOSE id \in candidates : \A other \in candidates : id <= other
           action == ActionOf(contract, lowest)
           next == [facts |-> ApplyAction(action, s.facts), order |-> Append(s.order, lowest)]
<1>1. Advanced(contract, deps, s) = IF candidates = {} THEN s ELSE next
  BY DEF Advanced, Candidates
<1>2. s.order \in Seq(DOMAIN deps) /\ Runs(contract, deps, s.order, s.facts)
  BY DEF Progress
<1>3. ASSUME candidates # {} PROVE next \in Progress(contract, deps) /\ Len(next.order) = Len(s.order) + 1
  <2>1. candidates \in SUBSET Nat
    BY DEF Candidates, Solving
  <2>2. lowest \in candidates
    <3> HIDE DEF candidates
    <3> QED BY <1>3, <2>1, Least
  <2> HIDE DEF lowest
  <2>3. /\ lowest \in DOMAIN deps /\ lowest \notin ToSet(s.order)
        /\ Applicable(action, s.facts, ToSet(s.order), deps)
    BY <2>2 DEF Candidates
  <2>4. Runs(contract, deps, Append(s.order, lowest), ApplyAction(action, s.facts))
    BY <1>2, <2>3, RunExtends DEF Solving
  <2>5. ApplyAction(action, s.facts) \subseteq contract.initial \cup AddedBy(contract, DOMAIN deps)
    BY <2>3 DEF Progress, ApplyAction, AddedBy
  <2>6. Append(s.order, lowest) \in Seq(DOMAIN deps) /\ Len(Append(s.order, lowest)) = Len(s.order) + 1
    BY <1>2, <2>3, Appended
  <2> HIDE DEF action
  <2> QED BY <2>4, <2>5, <2>6 DEF Progress
<1> HIDE DEF next, candidates
<1> QED BY <1>1, <1>3 DEF candidates

\* The planner ends with all the steps or where none is left that it could take
LEMMA MonotonicEnds ==
  ASSUME NEW contract, NEW deps, Solving(contract, deps)
  PROVE  \E s \in Progress(contract, deps) :
           /\ MonotonicSolve(contract, deps) =
                Answer(IF Len(s.order) = Cardinality(DOMAIN deps) /\ contract.goals \subseteq s.facts
                       THEN "PASS" ELSE "REJECT", s.order, Len(s.order) + 1)
           /\ Len(s.order) = Cardinality(DOMAIN deps) \/ Candidates(contract, deps, s) = {}
<1> DEFINE N == Cardinality(DOMAIN deps)
           X == Progress(contract, deps)
           init == [facts |-> contract.initial, order |-> <<>>]
           T == [n \in 1..N |-> [s \in X |-> Advanced(contract, deps, s)]]
<1>1. N \in Nat
  BY FS_CardinalityType DEF Solving
<1>2. init \in X
  BY RunStarts DEF Progress
<1>3. \A s \in X : Advanced(contract, deps, s) \in X
  BY AdvancedProgresses
<1> HIDE DEF X
<1>4. Moves(T, N, X)
  BY <1>3 DEF Moves
<1>5. PICK f : Leads(f, init, N, X, T)
  <2> HIDE DEF T, N, init
  <2> QED BY <1>1, <1>2, <1>4, Iterates
<1>6. f = [n \in 0..N |-> IF n = 0 THEN init ELSE Advanced(contract, deps, f[n - 1])]
  <2>1. \A n \in 1..N : f[n - 1] \in X
    <3> HIDE DEF T, N, init
    <3> QED BY <1>1, <1>5 DEF Leads
  <2>2. f[0] = init /\ \A n \in 1..N : f[n] = Advanced(contract, deps, f[n - 1])
    BY <1>5, <2>1 DEF Leads
  <2>3. f = [n \in 0..N |-> f[n]]
    BY <1>5 DEF Leads
  <2> HIDE DEF T, N, init
  <2>4. \A n \in 0..N : f[n] = IF n = 0 THEN init ELSE Advanced(contract, deps, f[n - 1])
    <3>1. \A n \in 0..N : n # 0 => n \in 1..N
      BY <1>1
    <3> QED BY <2>2, <3>1
  <2> QED BY <2>3, <2>4
<1> DEFINE g == CHOOSE state : state =
                  [n \in 0..N |-> IF n = 0 THEN init ELSE Advanced(contract, deps, state[n - 1])]
<1>7. g = [n \in 0..N |-> IF n = 0 THEN init ELSE Advanced(contract, deps, g[n - 1])]
  BY <1>6
<1>8. MonotonicSolve(contract, deps) =
        Answer(IF Len(g[N].order) = N /\ contract.goals \subseteq g[N].facts
               THEN "PASS" ELSE "REJECT", g[N].order, Len(g[N].order) + 1)
  BY DEF MonotonicSolve
<1> HIDE DEF g
<1>9. g[0] = init /\ \A n \in 1..N : g[n] = Advanced(contract, deps, g[n - 1])
  <2> HIDE DEF N, init
  <2> QED BY <1>1, <1>7
<1> DEFINE S == {n \in 0..N : /\ g[n] \in X
                              /\ Len(g[n].order) = n \/ Candidates(contract, deps, g[n]) = {}}
<1>10. 0 \in S
  BY <1>1, <1>2, <1>9
<1>11. ASSUME NEW n \in 1..N, n - 1 \in S PROVE n \in S
  <2>1. g[n - 1] \in X /\ (Len(g[n - 1].order) = n - 1 \/ Candidates(contract, deps, g[n - 1]) = {})
    BY <1>11
  <2>2. g[n] = Advanced(contract, deps, g[n - 1]) /\ n \in 0..N /\ n - 1 + 1 = n
    BY <1>1, <1>9
  <2>3. /\ g[n] \in X
        /\ Candidates(contract, deps, g[n - 1]) = {} => g[n] = g[n - 1]
        /\ Candidates(contract, deps, g[n - 1]) # {} => Len(g[n].order) = Len(g[n - 1].order) + 1
    BY <2>1, <2>2, AdvancedProgresses DEF X
  <2> QED BY <2>1, <2>2, <2>3
<1>12. 0..N \subseteq S
  <2> HIDE DEF S, N
  <2> QED BY <1>1, <1>10, <1>11, PassesOn
<1>13. g[N] \in X /\ (Len(g[N].order) = N \/ Candidates(contract, deps, g[N]) = {})
  BY <1>1, <1>12
<1> QED BY <1>8, <1>13 DEF X

\* The order takes every step and reaches the goals
Solves(contract, deps, order) ==
  /\ ToSet(order) = DOMAIN deps
  /\ \E facts : Runs(contract, deps, order, facts) /\ contract.goals \subseteq facts

\* An answer that says no more than is true
Right(contract, deps, answer, max) ==
  /\ answer.verdict = "PASS" => Solves(contract, deps, answer.order)
  /\ answer.verdict = "REJECT" => \A order : ~ Solves(contract, deps, order)
  /\ answer.verdict = "UNKNOWN" => answer.explored > max

LEMMA MonotonicIsRight ==
  ASSUME NEW contract, Monotonic(contract), NEW deps, Solving(contract, deps), NEW max
  PROVE  /\ Right(contract, deps, MonotonicSolve(contract, deps), max)
         /\ MonotonicSolve(contract, deps).verdict \in {"PASS", "REJECT"}
<1> DEFINE answer == MonotonicSolve(contract, deps)
           N == Cardinality(DOMAIN deps)
<1>1. PICK s \in Progress(contract, deps) :
        /\ answer = Answer(IF Len(s.order) = N /\ contract.goals \subseteq s.facts
                           THEN "PASS" ELSE "REJECT", s.order, Len(s.order) + 1)
        /\ Len(s.order) = N \/ Candidates(contract, deps, s) = {}
  BY MonotonicEnds
<1>2. s.order \in Seq(DOMAIN deps) /\ Runs(contract, deps, s.order, s.facts)
  BY DEF Progress
<1>3. IsInjective(s.order)
  BY <1>2 DEF Runs, Executable
<1>4. IsFiniteSet(DOMAIN deps)
  BY DEF Solving
<1>5. Len(s.order) = N <=> ToSet(s.order) = DOMAIN deps
  BY <1>2, <1>3, <1>4, FullIsAll
<1>6. /\ answer.verdict = IF Len(s.order) = N /\ contract.goals \subseteq s.facts THEN "PASS" ELSE "REJECT"
      /\ answer.order = s.order
  BY <1>1 DEF Answer
<1> HIDE DEF answer, N
<1>7. answer.verdict \in {"PASS", "REJECT"}
  BY <1>6
<1>8. ASSUME answer.verdict = "PASS" PROVE Solves(contract, deps, answer.order)
  <2>1. Len(s.order) = N /\ contract.goals \subseteq s.facts
    BY <1>6, <1>8
  <2> QED BY <1>2, <1>5, <1>6, <2>1 DEF Solves
<1>9. ASSUME NEW order, Solves(contract, deps, order) PROVE answer.verdict = "PASS"
  <2>1. PICK facts : Runs(contract, deps, order, facts) /\ contract.goals \subseteq facts
    BY <1>9 DEF Solves
  <2>2. ToSet(order) = DOMAIN deps
    BY <1>9 DEF Solves
  <2>3. HasActions(contract, DOMAIN deps)
    BY DEF Solving
  <2>4. ToSet(s.order) = DOMAIN deps
    <3>1. CASE Len(s.order) = N
      BY <1>5, <3>1
    <3>2. CASE Candidates(contract, deps, s) = {}
      <4>1. ToSet(order) \subseteq ToSet(s.order)
        BY <1>2, <2>1, <2>3, <3>2, StuckHasAll
      <4>2. ToSet(s.order) \subseteq DOMAIN deps
        BY <1>2 DEF ToSet
      <4> QED BY <2>2, <4>1, <4>2
    <3> QED BY <1>1, <3>1, <3>2
  <2>5. s.facts = facts
    <3>1. s.facts = contract.initial \cup AddedBy(contract, ToSet(s.order))
      BY <1>2, <2>3, FactsAtEnd
    <3>2. facts = contract.initial \cup AddedBy(contract, ToSet(order))
      BY <2>1, <2>3, FactsAtEnd
    <3> QED BY <2>2, <2>4, <3>1, <3>2
  <2> QED BY <1>5, <1>6, <2>1, <2>4, <2>5
<1> QED BY <1>7, <1>8, <1>9 DEF Right, answer

-----------------------------------------------------------------------------
(* The breadth-first search *)

\* A finite set of numbers can be put in order
LEMMA Sortable ==
  ASSUME NEW D \in SUBSET Nat, IsFiniteSet(D)
  PROVE  \E seq \in [1..Cardinality(D) -> D] :
           /\ ToSet(seq) = D
           /\ \A i, j \in DOMAIN seq : i < j => seq[i] < seq[j]
<1> DEFINE Sorts(seq, ids) == /\ seq \in [1..Cardinality(ids) -> ids]
                              /\ ToSet(seq) = ids
                              /\ \A i, j \in DOMAIN seq : i < j => seq[i] < seq[j]
           S == {n \in Nat : \A ids \in SUBSET D : Cardinality(ids) = n => \E seq : Sorts(seq, ids)}
<1>1. 0 \in S
  <2> SUFFICES ASSUME NEW ids \in SUBSET D, Cardinality(ids) = 0 PROVE \E seq : Sorts(seq, ids)
    OBVIOUS
  <2>1. ids = {}
    BY FS_Subset, FS_EmptySet
  <2>2. Sorts(<<>>, ids)
    BY <2>1 DEF ToSet
  <2> HIDE DEF Sorts
  <2> QED BY <2>2
<1>2. ASSUME NEW n \in Nat, n \in S PROVE n + 1 \in S
  <2> SUFFICES ASSUME NEW ids \in SUBSET D, Cardinality(ids) = n + 1 PROVE \E seq : Sorts(seq, ids)
    OBVIOUS
  <2>1. ids # {} /\ IsFiniteSet(ids)
    <3>1. IsFiniteSet(ids)
      BY FS_Subset
    <3>2. Cardinality({}) = 0
      BY FS_EmptySet
    <3> QED BY <3>1, <3>2
  <2>2. PICK x \in ids : \A y \in ids : x <= y
    BY <2>1, Least
  <2> DEFINE rest == ids \ {x}
  <2>3. rest \in SUBSET D /\ Cardinality(rest) = n
    <3>1. Cardinality(ids \ {x}) = Cardinality(ids) - 1
      BY <2>1, FS_RemoveElement
    <3> QED BY <3>1
  <2> HIDE DEF Sorts
  <2>4. PICK seq : Sorts(seq, rest)
    <3> HIDE DEF rest
    <3> QED BY <1>2, <2>3
  <2> USE DEF Sorts
  <2> DEFINE more == [i \in 1..(n + 1) |-> IF i = 1 THEN x ELSE seq[i - 1]]
  <2>5. seq \in [1..n -> rest] /\ ToSet(seq) = rest
    BY <2>3, <2>4
  <2>6. \A i \in 1..(n + 1) : i # 1 => i - 1 \in 1..n /\ more[i] = seq[i - 1]
    OBVIOUS
  <2>7. \A i \in 1..n : i + 1 \in 1..(n + 1) /\ i + 1 # 1 /\ i + 1 - 1 = i
    OBVIOUS
  <2>8. 1 \in 1..(n + 1) /\ more[1] = x
    OBVIOUS
  <2>9. more \in [1..(n + 1) -> ids]
    BY <2>5, <2>6
  <2> HIDE DEF more
  <2>10. ToSet(more) = ids
    <3>1. ASSUME NEW y \in ids PROVE \E i \in 1..(n + 1) : more[i] = y
      <4>1. CASE y = x
        BY <2>8, <4>1
      <4>2. CASE y # x
        <5>1. PICK i \in 1..n : seq[i] = y
          BY <2>5, <4>2 DEF ToSet
        <5> QED BY <2>6, <2>7, <5>1
      <4> QED BY <4>1, <4>2
    <3> QED BY <2>9, <3>1 DEF ToSet
  <2>11. ASSUME NEW i \in 1..(n + 1), NEW j \in 1..(n + 1), i < j PROVE more[i] < more[j]
    <3>1. j # 1 /\ j - 1 \in 1..n /\ more[j] = seq[j - 1]
      BY <2>6, <2>11
    <3>2. CASE i = 1
      <4>1. more[j] \in rest /\ more[i] = x
        BY <2>5, <2>8, <3>1, <3>2
      <4>2. x \in Nat /\ more[j] \in Nat /\ more[j] # x /\ x <= more[j]
        BY <2>2, <4>1
      <4> QED BY <4>1, <4>2
    <3>3. CASE i # 1
      <4>1. i - 1 \in 1..n /\ more[i] = seq[i - 1] /\ i - 1 < j - 1
        BY <2>6, <2>11, <3>3
      <4> QED BY <2>4, <2>5, <3>1, <4>1
    <3> QED BY <3>2, <3>3
  <2>12. Sorts(more, ids)
    BY <2>9, <2>10, <2>11
  <2> HIDE DEF Sorts
  <2> QED BY <2>12
<1>3. Cardinality(D) \in S
  <2>1. Cardinality(D) \in Nat
    BY FS_CardinalityType
  <2> HIDE DEF S
  <2> QED BY <1>1, <1>2, <2>1, AllNumbers
<1>4. PICK seq : Sorts(seq, D)
  <2> HIDE DEF Sorts
  <2> QED BY <1>3
<1> QED BY <1>4

LEMMA InOrderIs ==
  ASSUME NEW ids \in SUBSET Nat, IsFiniteSet(ids)
  PROVE  InOrder(ids) \in Seq(ids) /\ ToSet(InOrder(ids)) = ids
<1> DEFINE Sorted(seq) == ToSet(seq) = ids /\ \A i, j \in DOMAIN seq : i < j => seq[i] < seq[j]
           n == Cardinality(ids)
<1>1. \E seq \in [1..n -> ids] : Sorted(seq)
  BY Sortable
<1>2. n \in Nat
  BY FS_CardinalityType
<1>3. InOrder(ids) = CHOOSE seq \in [1..n -> ids] : Sorted(seq)
  BY DEF InOrder
<1>4. InOrder(ids) \in [1..n -> ids] /\ Sorted(InOrder(ids))
  <2> HIDE DEF Sorted, n
  <2> QED BY <1>1, <1>3
<1> HIDE DEF n
<1> QED BY <1>2, <1>4

LEMMA ListsJoin ==
  ASSUME NEW S, NEW q \in Seq(S), NEW r \in Seq(S)
  PROVE  q \o r \in Seq(S) /\ ToSet(q \o r) = ToSet(q) \cup ToSet(r)
<1>1. q \o r \in Seq(S) /\ Len(q \o r) = Len(q) + Len(r)
  BY ConcatProperties
<1>2. \A i \in 1..(Len(q) + Len(r)) : (q \o r)[i] = IF i <= Len(q) THEN q[i] ELSE r[i - Len(q)]
  BY ConcatProperties
<1>3. Len(q) \in Nat /\ Len(r) \in Nat
  OBVIOUS
<1> DEFINE s == q \o r
<1>4. ToSet(s) = ToSet(q) \cup ToSet(r)
  <2>1. DOMAIN s = 1..(Len(q) + Len(r))
    BY <1>1
  <2>2. \A i \in 1..Len(q) : i \in 1..(Len(q) + Len(r)) /\ i <= Len(q)
    BY <1>3
  <2>3. \A i \in 1..Len(r) : /\ i + Len(q) \in 1..(Len(q) + Len(r))
                             /\ ~ (i + Len(q) <= Len(q)) /\ i + Len(q) - Len(q) = i
    BY <1>3
  <2>4. \A i \in 1..(Len(q) + Len(r)) : ~ (i <= Len(q)) => i - Len(q) \in 1..Len(r)
    BY <1>3
  <2>5. \A i \in 1..(Len(q) + Len(r)) : i <= Len(q) => i \in 1..Len(q)
    BY <1>3
  <2>6. \A i \in 1..(Len(q) + Len(r)) : s[i] = IF i <= Len(q) THEN q[i] ELSE r[i - Len(q)]
    BY <1>2
  <2> HIDE DEF s
  <2>7. ASSUME NEW x \in ToSet(s) PROVE x \in ToSet(q) \cup ToSet(r)
    <3>1. PICK i \in 1..(Len(q) + Len(r)) : s[i] = x
      BY <2>1, <2>7 DEF ToSet
    <3> QED BY <2>4, <2>5, <2>6, <3>1 DEF ToSet
  <2>8. ASSUME NEW x \in ToSet(q) PROVE x \in ToSet(s)
    <3>1. PICK i \in 1..Len(q) : q[i] = x
      BY <2>8 DEF ToSet
    <3>2. s[i] = x
      BY <2>2, <2>6, <3>1
    <3> QED BY <2>1, <2>2, <3>2 DEF ToSet
  <2>9. ASSUME NEW x \in ToSet(r) PROVE x \in ToSet(s)
    <3>1. PICK i \in 1..Len(r) : r[i] = x
      BY <2>9 DEF ToSet
    <3>2. s[i + Len(q)] = x
      BY <2>3, <2>6, <3>1
    <3> QED BY <2>1, <2>3, <3>2 DEF ToSet
  <2> QED BY <2>7, <2>8, <2>9
<1> QED BY <1>1, <1>4

LEMMA QueueParts ==
  ASSUME NEW S, NEW q \in Seq(S), q # <<>>
  PROVE  Head(q) \in S /\ Tail(q) \in Seq(S) /\ ToSet(q) = {Head(q)} \cup ToSet(Tail(q))
<1>1. /\ Head(q) \in S /\ Tail(q) \in Seq(S) /\ Len(Tail(q)) = Len(q) - 1 /\ Head(q) = q[1]
      /\ Len(q) \in Nat /\ Len(q) # 0
  BY HeadTailProperties
<1>2. \A i \in 1..(Len(q) - 1) : Tail(q)[i] = q[i + 1]
  OBVIOUS
<1> DEFINE t == Tail(q)
<1>3. DOMAIN t = 1..(Len(q) - 1) /\ DOMAIN q = 1..Len(q) /\ \A i \in 1..(Len(q) - 1) : t[i] = q[i + 1]
  BY <1>1, <1>2
<1>4. \A i \in 1..Len(q) : i # 1 => i - 1 \in 1..(Len(q) - 1) /\ i - 1 + 1 = i
  BY <1>1
<1>5. 1 \in 1..Len(q) /\ \A i \in 1..(Len(q) - 1) : i + 1 \in 1..Len(q)
  BY <1>1
<1>6. ToSet(q) = {q[1]} \cup ToSet(t)
  <2> HIDE DEF t
  <2>1. ASSUME NEW x \in ToSet(q) PROVE x = q[1] \/ x \in ToSet(t)
    <3>1. PICK i \in 1..Len(q) : q[i] = x
      BY <1>3, <2>1 DEF ToSet
    <3>2. CASE i # 1
      <4>1. i - 1 \in 1..(Len(q) - 1) /\ t[i - 1] = x
        BY <1>3, <1>4, <3>1, <3>2
      <4> QED BY <1>3, <4>1 DEF ToSet
    <3> QED BY <3>1, <3>2
  <2>2. q[1] \in ToSet(q)
    BY <1>3, <1>5 DEF ToSet
  <2>3. ASSUME NEW x \in ToSet(t) PROVE x \in ToSet(q)
    <3>1. PICK i \in 1..(Len(q) - 1) : t[i] = x
      BY <1>3, <2>3 DEF ToSet
    <3>2. i + 1 \in 1..Len(q) /\ q[i + 1] = x
      BY <1>3, <1>5, <3>1
    <3> QED BY <1>3, <3>2 DEF ToSet
  <2> QED BY <2>1, <2>2, <2>3
<1> QED BY <1>1, <1>6

\* A way to the goals, with the facts on it
Way(contract, deps, order, f) ==
  /\ Executable(contract, deps, order, f)
  /\ ToSet(order) = DOMAIN deps
  /\ contract.goals \subseteq f[Len(order)]

\* Nothing on a way to the goals is given up as impossible
LEMMA WayIsPossible ==
  ASSUME NEW contract, NEW deps, Solving(contract, deps), NEW order, NEW f, Way(contract, deps, order, f),
         NEW m \in 0..Len(order)
  PROVE  ~ FutureImpossible(contract, f[m], Before(order, m + 1))
<1> DEFINE N == Len(order)
           done == Before(order, m + 1)
           left == {id \in {contract.actions[i].step : i \in DOMAIN contract.actions} : id \notin done}
<1>1. /\ order \in Seq(DOMAIN deps) /\ IsInjective(order) /\ Trace(contract, order, f)
      /\ \A n \in 1..N : ActionOf(contract, order[n]).pre \subseteq f[n - 1]
  BY DEF Way, Executable
<1>2. N \in Nat /\ DOMAIN order = 1..N /\ m \in Nat /\ m <= N
  BY <1>1
<1>3. left = Between(order, m, N)
  <2>1. left = ToSet(order) \ done
    BY DEF Way, Solving
  <2>2. ToSet(order) \ done = Between(order, m, N)
    <3>1. \A j \in (m + 1)..N : j \in 1..N /\ j \notin 1..(m + 1 - 1)
      BY <1>2
    <3>2. \A j \in 1..N : j \notin 1..(m + 1 - 1) => j \in (m + 1)..N
      BY <1>2
    <3>3. \A j \in 1..(m + 1 - 1) : j \in 1..N
      BY <1>2
    <3> HIDE DEF N
    <3> QED BY <1>1, <1>2, <3>1, <3>2, <3>3 DEF ToSet, Before, Between, IsInjective
  <2> QED BY <2>1, <2>2
<1>4. contract.goals \ f[m] \subseteq AddedBy(contract, left)
  <2>1. f[N] \subseteq f[m] \cup AddedBy(contract, Between(order, m, N))
    BY <1>1, <1>2, FactsComeFrom
  <2> QED BY <1>3, <2>1 DEF Way
<1>5. ASSUME NEW id \in left PROVE ActionOf(contract, id).pre \ f[m] \subseteq AddedBy(contract, left \ {id})
  <2>1. PICK k \in (m + 1)..N : id = order[k]
    BY <1>3, <1>5 DEF Between
  <2>2. k \in 1..N /\ k - 1 \in 0..N /\ k - 1 >= m
    BY <1>2, <2>1
  <2>3. f[k - 1] \subseteq f[m] \cup AddedBy(contract, Between(order, m, k - 1))
    BY <1>1, <2>2, FactsComeFrom
  <2>4. Between(order, m, k - 1) \subseteq left \ {id}
    <3>1. \A j \in (m + 1)..(k - 1) : j \in (m + 1)..N /\ j # k /\ j \in 1..N
      BY <1>2, <2>2
    <3> QED BY <1>1, <1>2, <1>3, <2>1, <2>2, <3>1 DEF Between, IsInjective
  <2>5. AddedBy(contract, Between(order, m, k - 1)) \subseteq AddedBy(contract, left \ {id})
    BY <2>4 DEF AddedBy
  <2>6. ActionOf(contract, id).pre \subseteq f[k - 1]
    BY <1>1, <2>1, <2>2
  <2> QED BY <2>3, <2>5, <2>6
<1> QED BY <1>4, <1>5 DEF FutureImpossible, AddedBy

\* What tells the state after the first m steps of a way from others
Key(order, f, m) == <<f[m], Before(order, m + 1)>>

Waits(queue, key) == \E node \in ToSet(queue) : Seen(node) = key

\* Every way is followed: its start was seen, and of what was seen of it the last waits
Followed(contract, deps, queue, seen) ==
  \A order, f : Way(contract, deps, order, f) =>
    /\ Key(order, f, 0) \in seen
    /\ \A m \in 0..Len(order) : Key(order, f, m) \in seen =>
         Waits(queue, Key(order, f, m)) \/ (m < Len(order) /\ Key(order, f, m + 1) \in seen)

LEMMA WaysEnd ==
  ASSUME NEW contract, NEW deps, NEW order, Solves(contract, deps, order)
  PROVE  \E f : Way(contract, deps, order, f)
<1>1. PICK facts : Runs(contract, deps, order, facts) /\ contract.goals \subseteq facts
  BY DEF Solves
<1>2. PICK f : Executable(contract, deps, order, f) /\ f[Len(order)] = facts
  BY <1>1 DEF Runs
<1>3. Way(contract, deps, order, f)
  BY <1>1, <1>2 DEF Way, Solves
<1> QED BY <1>3

\* With nothing waiting there is no way
LEMMA NoWayIsLeft ==
  ASSUME NEW contract, NEW deps, NEW seen, Followed(contract, deps, <<>>, seen), NEW order
  PROVE  ~ Solves(contract, deps, order)
<1> SUFFICES ASSUME Solves(contract, deps, order) PROVE FALSE
  OBVIOUS
<1>1. PICK f : Way(contract, deps, order, f)
  BY WaysEnd
<1>2. Len(order) \in Nat
  BY <1>1 DEF Way, Executable
<1>3. \A key : ~ Waits(<<>>, key)
  BY DEF Waits, ToSet
<1> DEFINE S == {m \in 0..Len(order) : Key(order, f, m) \in seen}
<1>4. /\ Key(order, f, 0) \in seen
      /\ \A m \in 0..Len(order) : Key(order, f, m) \in seen =>
           m < Len(order) /\ Key(order, f, m + 1) \in seen
  <2> HIDE DEF Key
  <2> QED BY <1>1, <1>3 DEF Followed
<1>5. 0 \in S
  BY <1>2, <1>4
<1>6. ASSUME NEW m \in 1..Len(order), m - 1 \in S PROVE m \in S
  <2>1. m - 1 \in 0..Len(order) /\ m \in 0..Len(order) /\ m - 1 + 1 = m
    BY <1>2
  <2>2. Key(order, f, m - 1 + 1) \in seen
    BY <1>4, <1>6
  <2> QED BY <2>1, <2>2
<1>7. 0..Len(order) \subseteq S
  <2> HIDE DEF S
  <2> QED BY <1>2, <1>5, <1>6, PassesOn
<1>8. Len(order) \in S /\ ~ (Len(order) < Len(order))
  BY <1>2, <1>7
<1> QED BY <1>4, <1>8

\* A node may be taken when no way needs it any more
LEMMA StillFollowed ==
  ASSUME NEW contract, NEW deps, NEW queue, NEW seen, Followed(contract, deps, queue, seen),
         NEW node, NEW rest, NEW more,
         \A other \in ToSet(queue) : other = node \/ other \in ToSet(rest),
         seen \subseteq more,
         \A key \in more : key \in seen \/ Waits(rest, key),
         \A order, f : Way(contract, deps, order, f) =>
           \A m \in 0..Len(order) : Key(order, f, m) = Seen(node) =>
             m < Len(order) /\ Key(order, f, m + 1) \in more
  PROVE  Followed(contract, deps, rest, more)
<1> SUFFICES ASSUME NEW order, NEW f, Way(contract, deps, order, f)
             PROVE  /\ Key(order, f, 0) \in more
                    /\ \A m \in 0..Len(order) : Key(order, f, m) \in more =>
                         \/ Waits(rest, Key(order, f, m))
                         \/ m < Len(order) /\ Key(order, f, m + 1) \in more
  BY DEF Followed
<1>1. Key(order, f, 0) \in seen
  BY DEF Followed
<1>2. ASSUME NEW m \in 0..Len(order), Key(order, f, m) \in more
      PROVE  \/ Waits(rest, Key(order, f, m))
             \/ m < Len(order) /\ Key(order, f, m + 1) \in more
  <2> HIDE DEF Key, Seen
  <2>1. CASE Key(order, f, m) \notin seen
    BY <1>2, <2>1
  <2>2. CASE Key(order, f, m) \in seen
    <3>1. Waits(queue, Key(order, f, m)) \/ (m < Len(order) /\ Key(order, f, m + 1) \in seen)
      BY <2>2 DEF Followed
    <3>2. ASSUME Waits(queue, Key(order, f, m))
          PROVE  Waits(rest, Key(order, f, m)) \/ Key(order, f, m) = Seen(node)
      BY <3>2 DEF Waits
    <3> QED BY <3>1, <3>2
  <2> QED BY <2>1, <2>2
<1> QED BY <1>1, <1>2

\* A node where all steps are done and a goal is missing, and one given up, are on no way
LEMMA DeadEnds ==
  ASSUME NEW contract, NEW deps, Solving(contract, deps), NEW node,
         \/ node.done = DOMAIN deps /\ ~ (contract.goals \subseteq node.facts)
         \/ FutureImpossible(contract, node.facts, node.done),
         NEW order, NEW f, Way(contract, deps, order, f), NEW m \in 0..Len(order)
  PROVE  Key(order, f, m) # Seen(node)
<1> SUFFICES ASSUME f[m] = node.facts, Before(order, m + 1) = node.done PROVE FALSE
  BY DEF Key, Seen
<1>1. ~ FutureImpossible(contract, f[m], Before(order, m + 1))
  BY WayIsPossible
<1>2. node.done = DOMAIN deps /\ ~ (contract.goals \subseteq node.facts)
  BY <1>1
<1>3. order \in Seq(DOMAIN deps) /\ IsInjective(order) /\ contract.goals \subseteq f[Len(order)]
  BY DEF Way, Executable
<1>4. CASE m = Len(order)
  BY <1>2, <1>3, <1>4
<1>5. CASE m # Len(order)
  <2>1. m + 1 \in 1..Len(order) /\ m + 1 \in DOMAIN order
    BY <1>3, <1>5
  <2>2. order[m + 1] \in Before(order, m + 1)
    BY <1>2, <1>3, <2>1
  <2> QED BY <1>3, <2>1, <2>2 DEF Before, IsInjective
<1> QED BY <1>4, <1>5

\* The nodes a search can be at
Nodes(contract, deps) ==
  {node \in [facts : SUBSET (contract.initial \cup AddedBy(contract, DOMAIN deps)),
             done  : SUBSET DOMAIN deps,
             order : Seq(DOMAIN deps)] :
     Runs(contract, deps, node.order, node.facts) /\ ToSet(node.order) = node.done}

LEMMA NodeIs ==
  ASSUME NEW contract, NEW deps, NEW facts, NEW done, NEW order, Runs(contract, deps, order, facts),
         HoldsIn(facts, contract.initial \cup AddedBy(contract, DOMAIN deps)), ToSet(order) = done
  PROVE  [facts |-> facts, done |-> done, order |-> order] \in Nodes(contract, deps)
<1> DEFINE known == contract.initial \cup AddedBy(contract, DOMAIN deps)
<1>1. order \in Seq(DOMAIN deps)
  BY DEF Runs, Executable
<1>2. done \in SUBSET DOMAIN deps
  BY <1>1 DEF ToSet
<1>3. facts \in SUBSET known
  BY DEF HoldsIn
<1> HIDE DEF known
<1>4. [facts |-> facts, done |-> done, order |-> order]
        \in [facts : SUBSET known, done : SUBSET DOMAIN deps, order : Seq(DOMAIN deps)]
  BY <1>1, <1>2, <1>3
<1> QED BY <1>4 DEF Nodes, known

LEMMA StartIsNode == \A contract, deps : Start(contract) \in Nodes(contract, deps)
<1> TAKE contract, deps
<1>1. Runs(contract, deps, <<>>, contract.initial)
  BY RunStarts
<1>2. ToSet(<<>>) = {}
  BY DEF ToSet
<1>3. HoldsIn(contract.initial, contract.initial \cup AddedBy(contract, DOMAIN deps))
  BY DEF HoldsIn
<1> QED BY <1>1, <1>2, <1>3, NodeIs DEF Start

\* The steps that lead from a node to a state that was not seen
Fresh(contract, deps, node, seen) ==
  {id \in DOMAIN deps \ node.done :
     /\ Applicable(ActionOf(contract, id), node.facts, node.done, deps)
     /\ Seen(Successor(contract, node, id)) \notin seen}

LEMMA SuccessorsAre ==
  ASSUME NEW contract, NEW deps, Solving(contract, deps), NEW node \in Nodes(contract, deps), NEW seen
  PROVE  /\ Successors(contract, deps, node, seen) \in Seq(Nodes(contract, deps))
         /\ ToSet(Successors(contract, deps, node, seen)) =
              {Successor(contract, node, id) : id \in Fresh(contract, deps, node, seen)}
<1> DEFINE fresh == Fresh(contract, deps, node, seen)
           ids == InOrder(fresh)
           found == [i \in DOMAIN ids |-> Successor(contract, node, ids[i])]
<1>1. Successors(contract, deps, node, seen) = found
  BY DEF Successors, Fresh
<1>2. fresh \in SUBSET Nat /\ fresh \in SUBSET DOMAIN deps
  BY DEF Fresh, Solving
<1>3. IsFiniteSet(fresh)
  BY <1>2, FS_Subset DEF Solving
<1>4. ASSUME NEW id \in fresh PROVE Successor(contract, node, id) \in Nodes(contract, deps)
  <2> DEFINE action == ActionOf(contract, id)
             facts == ApplyAction(action, node.facts)
             order == Append(node.order, id)
  <2>1. /\ id \in DOMAIN deps /\ id \notin node.done
        /\ Applicable(action, node.facts, node.done, deps)
    BY <1>4 DEF Fresh
  <2>2. /\ node.order \in Seq(DOMAIN deps) /\ node.done \in SUBSET DOMAIN deps
        /\ Runs(contract, deps, node.order, node.facts) /\ ToSet(node.order) = node.done
    BY DEF Nodes
  <2>3. Runs(contract, deps, order, facts)
    BY <2>1, <2>2, RunExtends DEF Solving
  <2>4. HoldsIn(facts, contract.initial \cup AddedBy(contract, DOMAIN deps))
    BY <2>1 DEF Nodes, ApplyAction, AddedBy, HoldsIn
  <2>5. ToSet(order) = node.done \cup {id}
    BY <2>1, <2>2, Appended
  <2> HIDE DEF facts, order, action
  <2>7. Successor(contract, node, id) = [facts |-> facts, done |-> node.done \cup {id}, order |-> order]
    BY DEF Successor, facts, order, action
  <2> DEFINE done == node.done \cup {id}
  <2> HIDE DEF done
  <2>8. [facts |-> facts, done |-> done, order |-> order] \in Nodes(contract, deps)
    BY <2>3, <2>4, <2>5, NodeIs DEF done
  <2> QED BY <2>7, <2>8 DEF done
<1> HIDE DEF fresh
<1>5. ids \in Seq(fresh) /\ ToSet(ids) = fresh
  BY <1>2, <1>3, InOrderIs
<1> HIDE DEF ids
<1>6. found \in Seq(Nodes(contract, deps))
  <2>1. \A i \in DOMAIN ids : ids[i] \in fresh
    BY <1>5
  <2>2. Len(ids) \in Nat /\ DOMAIN ids = 1..Len(ids)
    BY <1>5
  <2>3. found \in [1..Len(ids) -> Nodes(contract, deps)]
    BY <1>4, <2>1, <2>2
  <2> HIDE DEF found
  <2> QED BY <2>2, <2>3
<1>7. ToSet(found) = {Successor(contract, node, id) : id \in fresh}
  BY <1>5 DEF ToSet
<1> QED BY <1>1, <1>6, <1>7 DEF fresh

GoesOn(contract, deps, node, seen, order, f, m) ==
  /\ m < Len(order)
  /\ \/ Key(order, f, m + 1) \in seen
     \/ \E id \in Fresh(contract, deps, node, seen) :
          Key(order, f, m + 1) = Seen(Successor(contract, node, id))

\* A way that goes through a node goes on through what is found from there
LEMMA WayGoesOn ==
  ASSUME NEW contract, NEW deps, Solving(contract, deps), NEW node, node.done # DOMAIN deps, NEW seen,
         NEW order, NEW f, Way(contract, deps, order, f), NEW m \in 0..Len(order),
         Key(order, f, m) = Seen(node)
  PROVE  GoesOn(contract, deps, node, seen, order, f, m)
<1>1. f[m] = node.facts /\ Before(order, m + 1) = node.done
  BY DEF Key, Seen
<1>2. order \in Seq(DOMAIN deps) /\ IsInjective(order) /\ ToSet(order) = DOMAIN deps
  BY DEF Way, Executable
<1>3. m < Len(order)
  <2>1. Before(order, Len(order) + 1) = ToSet(order)
    BY <1>2 DEF Before, ToSet
  <2>2. m # Len(order)
    BY <1>1, <1>2, <2>1
  <2> QED BY <1>2, <2>2
<1> DEFINE id == order[m + 1]
<1>4. m + 1 \in 1..Len(order) /\ m + 1 \in DOMAIN order /\ m + 1 - 1 = m
  BY <1>2, <1>3
<1>5. id \in DOMAIN deps
  BY <1>2, <1>4
<1>6. id \notin node.done
  BY <1>1, <1>2, <1>4 DEF Before, IsInjective
<1>7. /\ deps[id] \subseteq node.done /\ ActionOf(contract, id).pre \subseteq node.facts
      /\ f[m + 1] = ApplyAction(ActionOf(contract, id), node.facts)
  <2>1. /\ Trace(contract, order, f)
        /\ deps[order[m + 1]] \subseteq Before(order, m + 1)
        /\ ActionOf(contract, order[m + 1]).pre \subseteq f[m + 1 - 1]
    BY <1>4 DEF Way, Executable
  <2>2. \A n \in 1..Len(order) : f[n] = ApplyAction(ActionOf(contract, order[n]), f[n - 1])
    BY <2>1 DEF Trace
  <2>3. f[m + 1] = ApplyAction(ActionOf(contract, order[m + 1]), f[m + 1 - 1])
    BY <1>4, <2>2
  <2> QED BY <1>1, <1>4, <2>1, <2>3
<1>8. Before(order, m + 2) = node.done \cup {id}
  <2>1. Before(order, m + 2) = Before(order, m + 1) \cup {id}
    BY <1>2, <1>4 DEF Before
  <2> QED BY <1>1, <2>1
<1>9. Applicable(ActionOf(contract, id), node.facts, node.done, deps)
  BY <1>5, <1>7 DEF Applicable, Solving, HasActions
<1> HIDE DEF id
<1>10. Key(order, f, m + 1) = Seen(Successor(contract, node, id))
  <2>1. m + 1 + 1 = m + 2
    BY <1>2
  <2>2. Before(order, m + 1 + 1) = node.done \cup {id}
    BY <1>8, <2>1
  <2> QED BY <1>7, <2>2 DEF Key, Seen, Successor
<1> QED BY <1>3, <1>5, <1>6, <1>9, <1>10 DEF Fresh, GoesOn

Keys(contract, deps) ==
  (SUBSET (contract.initial \cup AddedBy(contract, DOMAIN deps))) \X (SUBSET DOMAIN deps)

SearchState(queue, seen, explored, verdict, order) ==
  [queue |-> queue, seen |-> seen, explored |-> explored, verdict |-> verdict, order |-> order]

\* Where the turns of the search can lead
Searching(contract, deps, max) ==
  {s \in [queue : Seq(Nodes(contract, deps)), seen : SUBSET Keys(contract, deps), explored : Nat,
          verdict : {"searching", "PASS", "REJECT", "UNKNOWN"}, order : Seq(DOMAIN deps)] :
     /\ Right(contract, deps, s, max)
     /\ s.verdict = "searching" => Followed(contract, deps, s.queue, s.seen)}

LEMMA SearchingIs ==
  ASSUME NEW contract, NEW deps, NEW max, NEW queue \in Seq(Nodes(contract, deps)),
         NEW seen, HoldsIn(seen, Keys(contract, deps)), NEW explored \in Nat,
         NEW verdict \in {"searching", "PASS", "REJECT", "UNKNOWN"}, NEW order \in Seq(DOMAIN deps),
         verdict = "PASS" => Solves(contract, deps, order),
         verdict = "REJECT" => \A other : ~ Solves(contract, deps, other),
         verdict = "UNKNOWN" => explored > max,
         verdict = "searching" => Followed(contract, deps, queue, seen)
  PROVE  SearchState(queue, seen, explored, verdict, order) \in Searching(contract, deps, max)
<1> DEFINE s == SearchState(queue, seen, explored, verdict, order)
<1>1. /\ s.queue = queue /\ s.seen = seen /\ s.explored = explored /\ s.verdict = verdict /\ s.order = order
      /\ s \in [queue : {queue}, seen : {seen}, explored : {explored}, verdict : {verdict}, order : {order}]
  BY DEF SearchState
<1>2. seen \in SUBSET Keys(contract, deps)
  BY DEF HoldsIn
<1>3. s \in [queue : Seq(Nodes(contract, deps)), seen : SUBSET Keys(contract, deps), explored : Nat,
             verdict : {"searching", "PASS", "REJECT", "UNKNOWN"}, order : Seq(DOMAIN deps)]
  BY <1>2 DEF SearchState
<1>4. Right(contract, deps, s, max)
  BY <1>1 DEF Right
<1> HIDE DEF s
<1> QED BY <1>1, <1>3, <1>4 DEF Searching, s

LEMMA NodeKeys ==
  ASSUME NEW contract, NEW deps, NEW node \in Nodes(contract, deps)
  PROVE  Seen(node) \in Keys(contract, deps)
<1> DEFINE known == contract.initial \cup AddedBy(contract, DOMAIN deps)
<1>1. node \in [facts : SUBSET known, done : SUBSET DOMAIN deps, order : Seq(DOMAIN deps)]
  BY DEF Nodes
<1> HIDE DEF known
<1>2. node.facts \in SUBSET known /\ node.done \in SUBSET DOMAIN deps
  BY <1>1
<1>3. <<node.facts, node.done>> \in (SUBSET known) \X (SUBSET DOMAIN deps)
  BY <1>2
<1> QED BY <1>3 DEF Seen, Keys, known

SearchBegins(contract) == SearchState(<<Start(contract)>>, {Seen(Start(contract))}, 0, "searching", <<>>)

LEMMA SearchStarts ==
  ASSUME NEW contract, NEW deps, NEW max
  PROVE  SearchBegins(contract) \in Searching(contract, deps, max)
<1> DEFINE node == Start(contract)
<1>1. node \in Nodes(contract, deps)
  BY StartIsNode
<1>2. ASSUME NEW order, NEW f, Way(contract, deps, order, f) PROVE Key(order, f, 0) = Seen(node)
  <2>1. f[0] = contract.initial
    BY <1>2 DEF Way, Executable, Trace
  <2>2. Before(order, 1) = {}
    BY DEF Before
  <2> QED BY <2>1, <2>2 DEF Key, Seen, Start
<1>3. Seen(node) \in Keys(contract, deps)
  BY <1>1, NodeKeys
<1> HIDE DEF node
<1>4. <<node>> \in Seq(Nodes(contract, deps)) /\ ToSet(<<node>>) = {node}
  BY <1>1 DEF ToSet
<1>5. Followed(contract, deps, <<node>>, {Seen(node)})
  <2> HIDE DEF Key, Seen
  <2> QED BY <1>2, <1>4 DEF Followed, Waits
<1>6. HoldsIn({Seen(node)}, Keys(contract, deps))
  BY <1>3 DEF HoldsIn
<1>7. <<>> \in Seq(DOMAIN deps)
  OBVIOUS
<1>8. SearchState(<<node>>, {Seen(node)}, 0, "searching", <<>>) \in Searching(contract, deps, max)
  BY <1>4, <1>5, <1>6, <1>7, SearchingIs
<1> QED BY <1>8 DEF SearchBegins, node

WithVerdict(s, verdict, order) == [s EXCEPT !.verdict = verdict, !.order = order]
WithQueue(s, queue, explored) == [s EXCEPT !.queue = queue, !.explored = explored]
WithFound(s, queue, seen) == [s EXCEPT !.queue = queue, !.seen = seen]

LEMMA SearchStateChanges ==
  ASSUME NEW queue, NEW seen, NEW explored, NEW verdict, NEW order, NEW s,
         s = SearchState(queue, seen, explored, verdict, order), NEW x, NEW y
  PROVE  /\ WithVerdict(s, x, y) = SearchState(queue, seen, explored, x, y)
         /\ WithQueue(s, x, y) = SearchState(x, seen, y, verdict, order)
         /\ WithFound(s, x, y) = SearchState(x, y, explored, verdict, order)
<1>1. [s EXCEPT !.verdict = x, !.order = y] = SearchState(queue, seen, explored, x, y)
  <2> DEFINE a == [s EXCEPT !.verdict = x]
  <2>1. a = SearchState(queue, seen, explored, x, order)
    BY DEF SearchState
  <2>2. [s EXCEPT !.verdict = x, !.order = y] = [a EXCEPT !.order = y]
    OBVIOUS
  <2> HIDE DEF a
  <2>3. [a EXCEPT !.order = y] = SearchState(queue, seen, explored, x, y)
    BY <2>1 DEF SearchState
  <2> QED BY <2>2, <2>3
<1>2. [s EXCEPT !.queue = x, !.explored = y] = SearchState(x, seen, y, verdict, order)
  <2> DEFINE a == [s EXCEPT !.queue = x]
  <2>1. a = SearchState(x, seen, explored, verdict, order)
    BY DEF SearchState
  <2>2. [s EXCEPT !.queue = x, !.explored = y] = [a EXCEPT !.explored = y]
    OBVIOUS
  <2> HIDE DEF a
  <2>3. [a EXCEPT !.explored = y] = SearchState(x, seen, y, verdict, order)
    BY <2>1 DEF SearchState
  <2> QED BY <2>2, <2>3
<1>3. [s EXCEPT !.queue = x, !.seen = y] = SearchState(x, y, explored, verdict, order)
  <2> DEFINE a == [s EXCEPT !.queue = x]
  <2>1. a = SearchState(x, seen, explored, verdict, order)
    BY DEF SearchState
  <2>2. [s EXCEPT !.queue = x, !.seen = y] = [a EXCEPT !.seen = y]
    OBVIOUS
  <2> HIDE DEF a
  <2>3. [a EXCEPT !.seen = y] = SearchState(x, y, explored, verdict, order)
    BY <2>1 DEF SearchState
  <2> QED BY <2>2, <2>3
<1> QED BY <1>1, <1>2, <1>3 DEF WithVerdict, WithQueue, WithFound

LEMMA TurnKeepsSearching ==
  ASSUME NEW contract, NEW deps, Solving(contract, deps), NEW max,
         NEW s \in Searching(contract, deps, max)
  PROVE  SearchTurn(contract, deps, max, s) \in Searching(contract, deps, max)
<1>1. CASE s.verdict # "searching"
  BY <1>1 DEF SearchTurn
<1>2. CASE s.verdict = "searching"
  <2> DEFINE turn  == SearchTurn(contract, deps, max, s)
             node  == Head(s.queue)
             found == Successors(contract, deps, node, s.seen)
             next  == s.explored + 1
             keys  == {Seen(n) : n \in ToSet(found)}
             after == WithQueue(s, Tail(s.queue), next)
             goals == contract.goals \subseteq node.facts
             dead  == FutureImpossible(contract, node.facts, node.done)
  <2>0. turn = IF s.queue = <<>> THEN WithVerdict(s, "REJECT", <<>>)
               ELSE IF next > max THEN WithVerdict(after, "UNKNOWN", node.order)
               ELSE IF node.done = DOMAIN deps
               THEN IF goals THEN WithVerdict(after, "PASS", node.order) ELSE after
               ELSE IF dead THEN after
               ELSE WithFound(after, after.queue \o found, after.seen \cup keys)
    <3>1. turn = IF s.verdict # "searching" THEN s
                 ELSE IF s.queue = <<>> THEN WithVerdict(s, "REJECT", <<>>)
                 ELSE IF next > max THEN WithVerdict(after, "UNKNOWN", node.order)
                 ELSE IF node.done = DOMAIN deps
                 THEN IF goals THEN WithVerdict(after, "PASS", node.order) ELSE after
                 ELSE IF dead THEN after
                 ELSE WithFound(after, after.queue \o found, after.seen \cup keys)
      BY DEF SearchTurn, WithVerdict, WithQueue, WithFound
    <3> HIDE DEF turn, node, found, next, keys, after, goals, dead
    <3> QED BY <1>2, <3>1
  <2>1. /\ s.queue \in Seq(Nodes(contract, deps)) /\ s.seen \in SUBSET Keys(contract, deps)
        /\ s.explored \in Nat /\ s.order \in Seq(DOMAIN deps)
        /\ Followed(contract, deps, s.queue, s.seen)
        /\ s = SearchState(s.queue, s.seen, s.explored, s.verdict, s.order)
    BY <1>2 DEF Searching, SearchState
  <2>2. next \in Nat /\ HoldsIn(s.seen, Keys(contract, deps))
    BY <2>1 DEF HoldsIn
  <2> HIDE DEF turn, after, goals, dead
  <2>2a. after = SearchState(Tail(s.queue), s.seen, next, s.verdict, s.order)
    BY <2>1, SearchStateChanges DEF after
  <2>3. CASE s.queue = <<>>
    <3>1. turn = SearchState(s.queue, s.seen, s.explored, "REJECT", <<>>)
      <4> DEFINE none == <<>>
      <4>1. turn = WithVerdict(s, "REJECT", none)
        BY <2>0, <2>3
      <4> HIDE DEF none
      <4>2. WithVerdict(s, "REJECT", none) = SearchState(s.queue, s.seen, s.explored, "REJECT", none)
        BY <2>1, SearchStateChanges
      <4> QED BY <4>1, <4>2 DEF none
    <3>2. \A other : ~ Solves(contract, deps, other)
      BY <2>1, <2>3, NoWayIsLeft
    <3>3. <<>> \in Seq(DOMAIN deps)
      OBVIOUS
    <3> HIDE DEF turn
    <3>4. SearchState(s.queue, s.seen, s.explored, "REJECT", <<>>) \in Searching(contract, deps, max)
      BY <2>1, <2>2, <3>2, <3>3, SearchingIs
    <3> QED BY <3>1, <3>4 DEF turn
  <2>4. CASE s.queue # <<>>
    <3>1. /\ node \in Nodes(contract, deps) /\ Tail(s.queue) \in Seq(Nodes(contract, deps))
          /\ ToSet(s.queue) = {node} \cup ToSet(Tail(s.queue))
      BY <2>1, <2>4, QueueParts
    <3>2. /\ node.order \in Seq(DOMAIN deps) /\ ToSet(node.order) = node.done
          /\ Runs(contract, deps, node.order, node.facts)
      BY <3>1 DEF Nodes
    <3>3. found \in Seq(Nodes(contract, deps))
      BY <3>1, SuccessorsAre
    <3>3a. ToSet(found) = {Successor(contract, node, id) : id \in Fresh(contract, deps, node, s.seen)}
      BY <3>1, SuccessorsAre
    <3> HIDE DEF found, next, node, keys
    <3>3b. after.queue = Tail(s.queue) /\ after.seen = s.seen
      BY <2>2a DEF SearchState
    <3>4. CASE next > max
      <4>1. turn = SearchState(Tail(s.queue), s.seen, next, "UNKNOWN", node.order)
        BY <2>0, <2>2a, <2>4, <3>4, SearchStateChanges
      <4> QED BY <2>2, <3>1, <3>2, <3>4, <4>1, SearchingIs DEF turn
    <3>5. CASE ~ (next > max) /\ node.done = DOMAIN deps /\ contract.goals \subseteq node.facts
      <4>1. turn = SearchState(Tail(s.queue), s.seen, next, "PASS", node.order)
        BY <2>0, <2>2a, <2>4, <3>5, SearchStateChanges DEF goals
      <4>2. Solves(contract, deps, node.order)
        BY <3>2, <3>5 DEF Solves
      <4> QED BY <2>2, <3>1, <3>2, <4>1, <4>2, SearchingIs DEF turn
    <3>6. CASE /\ ~ (next > max)
               /\ \/ node.done = DOMAIN deps /\ ~ (contract.goals \subseteq node.facts)
                  \/ node.done # DOMAIN deps /\ FutureImpossible(contract, node.facts, node.done)
      <4>1. turn = SearchState(Tail(s.queue), s.seen, next, s.verdict, s.order)
        BY <2>0, <2>2a, <2>4, <3>6 DEF goals, dead
      <4>2. \A order, f : Way(contract, deps, order, f) =>
              \A m \in 0..Len(order) : Key(order, f, m) # Seen(node)
        BY <3>6, DeadEnds
      <4>3. Followed(contract, deps, Tail(s.queue), s.seen)
        <5>1. \A other \in ToSet(s.queue) : other = node \/ other \in ToSet(Tail(s.queue))
          BY <3>1
        <5> HIDE DEF Key, Seen
        <5> QED BY <2>1, <4>2, <5>1, StillFollowed
      <4> QED BY <1>2, <2>1, <2>2, <3>1, <4>1, <4>3, SearchingIs DEF turn
    <3>7. CASE ~ (next > max) /\ node.done # DOMAIN deps /\ ~ FutureImpossible(contract, node.facts, node.done)
      <4> DEFINE rest == Tail(s.queue) \o found
                 more == s.seen \cup keys
      <4>1. turn = SearchState(rest, more, next, s.verdict, s.order)
        <5>1. turn = WithFound(after, rest, more)
          BY <2>0, <2>4, <3>3b, <3>7 DEF dead
        <5> HIDE DEF rest, more
        <5> QED BY <2>2a, <5>1, SearchStateChanges
      <4>2. rest \in Seq(Nodes(contract, deps)) /\ ToSet(rest) = ToSet(Tail(s.queue)) \cup ToSet(found)
        <5>1. Tail(s.queue) \in Seq(Nodes(contract, deps))
          BY <3>1
        <5> DEFINE S == Nodes(contract, deps)
                   q == Tail(s.queue)
        <5>2. q \in Seq(S) /\ found \in Seq(S)
          BY <3>3, <5>1
        <5> HIDE DEF S, q
        <5>3. q \o found \in Seq(S) /\ ToSet(q \o found) = ToSet(q) \cup ToSet(found)
          BY <5>2, ListsJoin, Zenon
        <5> QED BY <5>3 DEF q, S
      <4>3. HoldsIn(more, Keys(contract, deps))
        <5>1. \A n \in ToSet(found) : Seen(n) \in Keys(contract, deps)
          BY <3>3, NodeKeys DEF ToSet
        <5> QED BY <2>1, <5>1 DEF HoldsIn, keys
      <4> HIDE DEF rest
      <4>4. \A other \in ToSet(s.queue) : other = node \/ other \in ToSet(rest)
        BY <3>1, <4>2
      <4>5. \A key \in more : key \in s.seen \/ Waits(rest, key)
        BY <4>2 DEF Waits, keys
      <4>6. s.seen \subseteq more
        OBVIOUS
      <4>7. ASSUME NEW order, NEW f, Way(contract, deps, order, f), NEW m \in 0..Len(order),
                   Key(order, f, m) = Seen(node)
            PROVE  m < Len(order) /\ Key(order, f, m + 1) \in more
        <5>0. node.done # DOMAIN deps
          BY <3>7
        <5> HIDE DEF Key, Seen, more
        <5>1. GoesOn(contract, deps, node, s.seen, order, f, m)
          BY <4>7, <5>0, WayGoesOn
        <5> QED BY <3>3a, <5>1 DEF more, keys, GoesOn
      <4> HIDE DEF more
      <4>8. Followed(contract, deps, rest, more)
        <5> HIDE DEF Key, Seen
        <5> QED BY <2>1, <4>4, <4>5, <4>6, <4>7, StillFollowed
      <4> QED BY <1>2, <2>1, <2>2, <4>1, <4>2, <4>3, <4>8, SearchingIs DEF turn
    <3> QED BY <3>4, <3>5, <3>6, <3>7 DEF turn
  <2> QED BY <2>3, <2>4
<1> QED BY <1>1, <1>2

LEMMA SearchIsRight ==
  ASSUME NEW contract, NEW deps, Solving(contract, deps), NEW max \in Nat
  PROVE  Right(contract, deps, SearchSolve(contract, deps, max), max)
<1> DEFINE N == max + 2
           X == Searching(contract, deps, max)
           init == SearchBegins(contract)
           T == [n \in 1..N |-> [s \in X |-> SearchTurn(contract, deps, max, s)]]
<1>1. N \in Nat
  OBVIOUS
<1>2. init \in X
  BY SearchStarts
<1>3. \A s \in X : SearchTurn(contract, deps, max, s) \in X
  BY TurnKeepsSearching
<1> HIDE DEF X, init
<1>4. Moves(T, N, X)
  BY <1>3 DEF Moves
<1>5. PICK f : Leads(f, init, N, X, T)
  <2> HIDE DEF T, N
  <2> QED BY <1>1, <1>2, <1>4, Iterates
<1>6. f = [n \in 0..N |-> IF n = 0 THEN init ELSE SearchTurn(contract, deps, max, f[n - 1])]
  <2>1. \A n \in 1..N : f[n - 1] \in X
    <3> HIDE DEF T, N
    <3> QED BY <1>1, <1>5 DEF Leads
  <2>2. f[0] = init /\ \A n \in 1..N : f[n] = SearchTurn(contract, deps, max, f[n - 1])
    <3>1. \A n \in 1..N : f[n] = T[n][f[n - 1]]
      BY <1>5 DEF Leads
    <3> HIDE DEF N
    <3> QED BY <1>5, <2>1, <3>1 DEF Leads
  <2>3. f = [n \in 0..N |-> f[n]]
    BY <1>5 DEF Leads
  <2> HIDE DEF T, N
  <2>4. \A n \in 0..N : f[n] = IF n = 0 THEN init ELSE SearchTurn(contract, deps, max, f[n - 1])
    <3>1. \A n \in 0..N : n # 0 => n \in 1..N
      BY <1>1
    <3> QED BY <2>2, <3>1
  <2> QED BY <2>3, <2>4
<1> DEFINE g == CHOOSE state : state =
                  [n \in 0..N |-> IF n = 0 THEN init ELSE SearchTurn(contract, deps, max, state[n - 1])]
<1>7. g = [n \in 0..N |-> IF n = 0 THEN init ELSE SearchTurn(contract, deps, max, g[n - 1])]
  BY <1>6
<1>8. SearchSolve(contract, deps, max) = Answer(g[N].verdict, g[N].order, g[N].explored)
  BY DEF SearchSolve, init, SearchBegins, SearchState
<1> HIDE DEF g
<1>9. g[0] = init /\ \A n \in 1..N : g[n] = SearchTurn(contract, deps, max, g[n - 1])
  <2> HIDE DEF N
  <2> QED BY <1>1, <1>7
<1>10. g[0] \in X /\ \A n \in 1..N : g[n - 1] \in X => g[n] \in X
  BY <1>2, <1>3, <1>9
<1>11. g[N] \in X
  <2> HIDE DEF N
  <2>1. \A n \in 0..N : g[n] \in X
    BY <1>1, <1>10, Passes
  <2> QED BY <1>1, <2>1
<1>12. Right(contract, deps, g[N], max)
  BY <1>11 DEF X, Searching
<1> HIDE DEF N
<1> QED BY <1>8, <1>12 DEF Right, Answer

-----------------------------------------------------------------------------
(* What the analysis of a plan with a contract says *)

LEMMA ValidIsSolving ==
  ASSUME NEW plan, IsPlan(plan), NEW contract, ContractValid(plan, contract)
  PROVE  Solving(contract, EffectiveDependencies(plan.steps)) /\ DOMAIN EffectiveDependencies(plan.steps) = Ids(plan.steps)
<1> DEFINE ids == Ids(plan.steps)
<1>1. plan.steps \in Seq(ToSet(plan.steps)) /\ \A i \in DOMAIN plan.steps : IsStep(plan.steps[i])
  BY DEF IsPlan
<1>2. \A i \in DOMAIN plan.steps : plan.steps[i].id \in Int
  BY <1>1 DEF IsStep
<1>3. \A i \in DOMAIN plan.steps : plan.steps[i].id >= 1
  BY DEF ContractValid, GraphValid, StepIndexed
<1>4. ids \subseteq Nat
  BY <1>2, <1>3 DEF Ids
<1>5. IsFiniteSet(ids)
  <2>1. Len(plan.steps) \in Nat /\ DOMAIN plan.steps = 1..Len(plan.steps)
    BY <1>1
  <2>2. IsFiniteSet(DOMAIN plan.steps)
    BY <2>1, FS_Interval
  <2> DEFINE F == [i \in DOMAIN plan.steps |-> plan.steps[i].id]
  <2>3. F \in Surjection(DOMAIN plan.steps, ids)
    BY DEF Surjection, Ids
  <2> HIDE DEF F, ids
  <2> QED BY <2>2, <2>3, FS_Surjection
<1>6. DOMAIN EffectiveDependencies(plan.steps) = ids
  BY DEF EffectiveDependencies
<1>7. {contract.actions[i].step : i \in DOMAIN contract.actions} = ids
  BY DEF ContractValid
<1>8. HasActions(contract, ids)
  BY <1>7, ActionsAreThere
<1> HIDE DEF ids
<1> QED BY <1>4, <1>5, <1>6, <1>7, <1>8 DEF Solving, ids

\* Whatever the analysis says of a well-formed contract is right
LEMMA AnalysisIsRight ==
  ASSUME NEW plan, IsPlan(plan), NEW max \in Nat, HasOneContract(plan)
  PROVE  /\ Right(FormalCheck(plan).contract, EffectiveDependencies(plan.steps),
                  AnalyzeFormalContract(plan, max), max)
         /\ Monotonic(FormalCheck(plan).contract) =>
              AnalyzeFormalContract(plan, max).verdict \in {"PASS", "REJECT"}
<1> DEFINE formal   == AnalyzeFormalContract(plan, max)
           contract == FormalCheck(plan).contract
           deps     == EffectiveDependencies(plan.steps)
           answer   == IF Monotonic(contract) THEN MonotonicSolve(contract, deps)
                       ELSE SearchSolve(contract, deps, max)
<1>1. OneAnchor(plan) /\ ContractValid(plan, contract) /\ AnchorArgvValid(FormalCheck(plan))
  BY DEF HasOneContract
<1>2. Anchors(plan) # {}
  BY <1>1 DEF OneAnchor
<1>3. Solving(contract, deps)
  BY <1>1, ValidIsSolving
<1>4. Right(contract, deps, answer, max) /\ (Monotonic(contract) => answer.verdict \in {"PASS", "REJECT"})
  <2> HIDE DEF contract, deps
  <2> QED BY <1>3, MonotonicIsRight, SearchIsRight
<1>5. formal = [enabled |-> TRUE, verdict |-> answer.verdict,
                order |-> answer.order, explored |-> answer.explored]
  BY <1>1, <1>2 DEF AnalyzeFormalContract
<1> HIDE DEF formal, contract, deps, answer
<1>6. formal.verdict = answer.verdict /\ formal.order = answer.order /\ formal.explored = answer.explored
  BY <1>5
<1>7. Right(contract, deps, formal, max)
  BY <1>4, <1>6 DEF Right
<1> QED BY <1>4, <1>6, <1>7 DEF formal, contract, deps

-----------------------------------------------------------------------------
(* What the compiler makes of a plan, and what an edit leaves, is a plan *)

LEMMA OrdinaryChecksAre ==
  ASSUME NEW S, NEW checks \in Seq(S)
  PROVE  /\ OrdinaryChecks(checks) \in Seq(S)
         /\ \A i \in DOMAIN OrdinaryChecks(checks) : OrdinaryChecks(checks)[i].kind = "check"
         /\ \A k \in 0..Len(checks) :
              (\A i \in 1..Len(checks) : checks[i].kind = "check" <=> i > k)
                => OrdinaryChecks(checks) = SubSeq(checks, k + 1, Len(checks))
<1> DEFINE N == Len(checks)
           X == {seq \in Seq(S) : \A i \in DOMAIN seq : seq[i].kind = "check"}
           keep(seq, n) == IF checks[n].kind = "check" THEN Append(seq, checks[n]) ELSE seq
           T == [n \in 1..N |-> [seq \in X |-> keep(seq, n)]]
<1>1. N \in Nat /\ \A n \in 1..N : checks[n] \in S
  OBVIOUS
<1>2. <<>> \in X
  OBVIOUS
<1>3. ASSUME NEW n \in 1..N, NEW seq \in X PROVE keep(seq, n) \in X
  <2>1. CASE checks[n].kind = "check"
    <3> DEFINE more == Append(seq, checks[n])
    <3>1. /\ more \in Seq(S) /\ DOMAIN more = DOMAIN seq \cup {Len(seq) + 1}
          /\ \A i \in DOMAIN seq : more[i] = seq[i]
          /\ more[Len(seq) + 1] = checks[n]
      BY <1>1, Appended
    <3> HIDE DEF more
    <3>2. \A i \in DOMAIN more : more[i].kind = "check"
      BY <2>1, <3>1
    <3> QED BY <2>1, <3>1, <3>2 DEF more
  <2> QED BY <2>1
<1> HIDE DEF X
<1>4. Moves(T, N, X)
  BY <1>3 DEF Moves
<1>5. PICK f : Leads(f, <<>>, N, X, T)
  <2> HIDE DEF T, N
  <2> QED BY <1>1, <1>2, <1>4, Iterates
<1>6. f = [n \in 0..N |-> IF n = 0 THEN <<>> ELSE keep(f[n - 1], n)]
  <2>1. \A n \in 1..N : f[n - 1] \in X
    BY <1>5 DEF Leads
  <2>2. f[0] = <<>> /\ \A n \in 1..N : f[n] = keep(f[n - 1], n)
    BY <1>5, <2>1 DEF Leads
  <2>3. f = [n \in 0..N |-> f[n]]
    BY <1>5 DEF Leads
  <2> HIDE DEF T, N, keep
  <2>4. \A n \in 0..N : f[n] = IF n = 0 THEN <<>> ELSE keep(f[n - 1], n)
    <3>1. \A n \in 0..N : n # 0 => n \in 1..N
      BY <1>1
    <3> QED BY <2>2, <3>1
  <2> QED BY <2>3, <2>4
<1> DEFINE g == CHOOSE kept : kept = [n \in 0..N |-> IF n = 0 THEN <<>> ELSE keep(kept[n - 1], n)]
<1>7. g = [n \in 0..N |-> IF n = 0 THEN <<>> ELSE keep(g[n - 1], n)]
  BY <1>6
<1>8. OrdinaryChecks(checks) = g[N]
  BY DEF OrdinaryChecks
<1> HIDE DEF g
<1>9. g[0] = <<>> /\ \A n \in 1..N : g[n] = keep(g[n - 1], n)
  <2> HIDE DEF N, keep
  <2> QED BY <1>1, <1>7
<1>10. g[0] \in X /\ \A n \in 1..N : g[n - 1] \in X => g[n] \in X
  BY <1>2, <1>3, <1>9
<1>11. g[N] \in X
  <2>1. \A n \in 0..N : g[n] \in X
    <3> HIDE DEF N
    <3> QED BY <1>1, <1>10, Passes
  <2> QED BY <1>1, <2>1
<1>12. ASSUME NEW k \in 0..N, \A i \in 1..N : checks[i].kind = "check" <=> i > k
       PROVE  g[N] = SubSeq(checks, k + 1, N)
  <2> DEFINE part(n) == IF n < k THEN <<>> ELSE SubSeq(checks, k + 1, n)
             P == {n \in 0..N : g[n] = part(n)}
  <2>1. 0 \in P
    <3>1. part(0) = <<>>
      <4>1. SubSeq(checks, k + 1, 0) = <<>>
        BY <1>1
      <4> QED BY <4>1
    <3> HIDE DEF part, keep
    <3> QED BY <1>1, <1>9, <3>1
  <2>2. ASSUME NEW n \in 1..N, n - 1 \in P PROVE n \in P
    <3>1. g[n - 1] = part(n - 1) /\ g[n] = keep(part(n - 1), n) /\ n \in 0..N
      <4> HIDE DEF part, keep
      <4> QED BY <1>1, <1>9, <2>2
    <3>2. CASE n > k
      <4>1. checks[n].kind = "check"
        BY <1>12, <3>2
      <4>2. part(n - 1) = SubSeq(checks, k + 1, n - 1)
        BY <1>1, <3>2
      <4>3. Append(SubSeq(checks, k + 1, n - 1), checks[n]) = SubSeq(checks, k + 1, n)
        BY <1>1, <3>2
      <4>4. part(n) = SubSeq(checks, k + 1, n)
        BY <1>1, <3>2
      <4>5. keep(part(n - 1), n) = part(n)
        <5> HIDE DEF part
        <5> QED BY <4>1, <4>2, <4>3, <4>4
      <4> HIDE DEF part, keep
      <4> QED BY <3>1, <4>5
    <3>3. CASE ~ (n > k)
      <4>1. checks[n].kind # "check"
        BY <1>12, <3>3
      <4>2. part(n - 1) = <<>>
        BY <1>1, <3>3
      <4>3. part(n) = <<>>
        BY <1>1, <3>3
      <4>4. keep(part(n - 1), n) = part(n)
        <5> HIDE DEF part
        <5> QED BY <4>1, <4>2, <4>3
      <4> HIDE DEF part, keep
      <4> QED BY <3>1, <4>4
    <3> QED BY <3>2, <3>3
  <2>3. 0..N \subseteq P
    <3> HIDE DEF P, N
    <3>1. \A n \in 1..N : n - 1 \in P => n \in P
      BY <2>2
    <3> QED BY <1>1, <2>1, <3>1, PassesOn
  <2>4. g[N] = part(N) /\ ~ (N < k)
    <3> HIDE DEF part
    <3> QED BY <1>1, <2>3
  <2> QED BY <2>4
<1> QED BY <1>8, <1>11, <1>12 DEF X

\* A list is one of its own elements
LEMMA OwnElements ==
  ASSUME NEW S, NEW seq \in Seq(S)
  PROVE  seq \in Seq(ToSet(seq)) /\ ToSet(seq) \subseteq S
  BY DEF ToSet

LEMMA ElementReplaced ==
  ASSUME NEW seq, seq \in Seq(ToSet(seq)), NEW i \in DOMAIN seq, NEW x
  PROVE  LET new == [seq EXCEPT ![i] = x]
         IN  /\ new \in Seq(ToSet(new)) /\ DOMAIN new = DOMAIN seq /\ Len(new) = Len(seq)
             /\ new[i] = x /\ \A j \in DOMAIN seq : j # i => new[j] = seq[j]
<1> DEFINE new == [seq EXCEPT ![i] = x]
           S == ToSet(seq) \cup {x}
<1>1. new \in Seq(S) /\ Len(new) = Len(seq) /\ new[i] = x /\ \A j \in DOMAIN seq : j # i => new[j] = seq[j]
  <2>1. seq \in Seq(S)
    BY DEF ToSet
  <2>2. x \in S
    OBVIOUS
  <2> HIDE DEF S
  <2> QED BY <2>1, <2>2
<1> HIDE DEF S
<1>2. DOMAIN new = DOMAIN seq
  OBVIOUS
<1> HIDE DEF new
<1>3. new \in Seq(ToSet(new))
  BY <1>1, OwnElements
<1> QED BY <1>1, <1>2, <1>3 DEF new

StepWith(id, deps, outputs, requires, covers, verify) ==
  [id |-> id, deps |-> deps, outputs |-> outputs, requires |-> requires, covers |-> covers, verify |-> verify]

LEMMA StepWithIs ==
  ASSUME NEW id \in Int, NEW deps, NEW outputs, NEW requires, NEW covers, NEW S, NEW verify \in Seq(S)
  PROVE  IsStep(StepWith(id, deps, outputs, requires, covers, verify))
<1> DEFINE step == StepWith(id, deps, outputs, requires, covers, verify)
<1>1. /\ step.id = id /\ step.deps = deps /\ step.outputs = outputs /\ step.requires = requires
      /\ step.covers = covers /\ step.verify = verify
  BY DEF StepWith
<1>2. verify \in Seq(ToSet(verify))
  BY OwnElements
<1>3. step \in [id : Int, deps : {deps}, outputs : {outputs}, requires : {requires},
                covers : {covers}, verify : Seq(ToSet(verify))]
  BY <1>2 DEF StepWith
<1> HIDE DEF step
<1> QED BY <1>1, <1>3 DEF IsStep, step

\* A change of one field leaves the others
LEMMA StepChanges ==
  ASSUME NEW step, IsStep(step)
  PROVE  /\ step = StepWith(step.id, step.deps, step.outputs, step.requires, step.covers, step.verify)
         /\ \A x : /\ [step EXCEPT !.deps = x] =
                        StepWith(step.id, x, step.outputs, step.requires, step.covers, step.verify)
                   /\ [step EXCEPT !.outputs = x] =
                        StepWith(step.id, step.deps, x, step.requires, step.covers, step.verify)
                   /\ [step EXCEPT !.requires = x] =
                        StepWith(step.id, step.deps, step.outputs, x, step.covers, step.verify)
                   /\ [step EXCEPT !.covers = x] =
                        StepWith(step.id, step.deps, step.outputs, step.requires, x, step.verify)
                   /\ [step EXCEPT !.verify = x] =
                        StepWith(step.id, step.deps, step.outputs, step.requires, step.covers, x)
<1>1. step = StepWith(step.id, step.deps, step.outputs, step.requires, step.covers, step.verify)
  BY DEF IsStep, StepWith
<1>2. ASSUME NEW x
      PROVE  /\ [step EXCEPT !.deps = x] =
                  StepWith(step.id, x, step.outputs, step.requires, step.covers, step.verify)
             /\ [step EXCEPT !.outputs = x] =
                  StepWith(step.id, step.deps, x, step.requires, step.covers, step.verify)
             /\ [step EXCEPT !.requires = x] =
                  StepWith(step.id, step.deps, step.outputs, x, step.covers, step.verify)
             /\ [step EXCEPT !.covers = x] =
                  StepWith(step.id, step.deps, step.outputs, step.requires, x, step.verify)
             /\ [step EXCEPT !.verify = x] =
                  StepWith(step.id, step.deps, step.outputs, step.requires, step.covers, x)
  BY <1>1 DEF StepWith
<1> QED BY <1>1, <1>2

\* A plan with other steps, or without requirements, is a plan
LEMMA PlanChanges ==
  ASSUME NEW plan, IsPlan(plan)
  PROVE  /\ plan = [reqs |-> plan.reqs, steps |-> plan.steps]
         /\ \A x : [plan EXCEPT !.steps = x] = [reqs |-> plan.reqs, steps |-> x]
         /\ \A x : [plan EXCEPT !.reqs = x] = [reqs |-> x, steps |-> plan.steps]
  BY DEF IsPlan

LEMMA StepsMakePlan ==
  ASSUME NEW reqs, NEW steps, steps \in Seq(ToSet(steps)), \A i \in DOMAIN steps : IsStep(steps[i])
  PROVE  IsPlan([reqs |-> reqs, steps |-> steps])
<1> DEFINE plan == [reqs |-> reqs, steps |-> steps]
<1>1. plan.reqs = reqs /\ plan.steps = steps /\ plan \in [reqs : {reqs}, steps : Seq(ToSet(steps))]
  OBVIOUS
<1> HIDE DEF plan
<1> QED BY <1>1 DEF IsPlan, plan

\* The same plan but for the checks of its steps
Agree(steps, others) ==
  /\ DOMAIN others = DOMAIN steps
  /\ \A i \in DOMAIN steps :
       /\ others[i].id = steps[i].id
       /\ others[i].deps = steps[i].deps
       /\ others[i].outputs = steps[i].outputs
       /\ others[i].requires = steps[i].requires
       /\ others[i].covers = steps[i].covers

LEMMA StrippedIs ==
  ASSUME NEW step, IsStep(step)
  PROVE  /\ IsStep(Stripped(step))
         /\ Stripped(step).id = step.id /\ Stripped(step).deps = step.deps
         /\ Stripped(step).outputs = step.outputs /\ Stripped(step).requires = step.requires
         /\ Stripped(step).covers = step.covers
         /\ Stripped(step).verify = OrdinaryChecks(step.verify)
<1>1. step.id \in Int /\ step.verify \in Seq(ToSet(step.verify))
  BY DEF IsStep
<1>2. OrdinaryChecks(step.verify) \in Seq(ToSet(step.verify))
  BY <1>1, OrdinaryChecksAre
<1> DEFINE checks == OrdinaryChecks(step.verify)
<1> HIDE DEF checks
<1>3. Stripped(step) = StepWith(step.id, step.deps, step.outputs, step.requires, step.covers, checks)
  <2>1. Stripped(step) = [step EXCEPT !.verify = checks]
    BY DEF Stripped, checks
  <2> QED BY <2>1, StepChanges
<1>4. IsStep(StepWith(step.id, step.deps, step.outputs, step.requires, step.covers, checks))
  BY <1>1, <1>2, StepWithIs DEF checks
<1>5. /\ Stripped(step).id = step.id /\ Stripped(step).deps = step.deps
      /\ Stripped(step).outputs = step.outputs /\ Stripped(step).requires = step.requires
      /\ Stripped(step).covers = step.covers
      /\ Stripped(step).verify = checks
  BY <1>3 DEF StepWith
<1> QED BY <1>3, <1>4, <1>5 DEF checks

LEMMA StripKeepsPlan ==
  ASSUME NEW plan, IsPlan(plan)
  PROVE  /\ IsPlan(StripGeneratedChecks(plan))
         /\ StripGeneratedChecks(plan).reqs = plan.reqs
         /\ Agree(plan.steps, StripGeneratedChecks(plan).steps)
         /\ \A i \in DOMAIN plan.steps :
              StripGeneratedChecks(plan).steps[i].verify = OrdinaryChecks(plan.steps[i].verify)
<1> DEFINE steps == plan.steps
           base == [i \in DOMAIN steps |-> Stripped(steps[i])]
<1>1. steps \in Seq(ToSet(steps)) /\ \A i \in DOMAIN steps : IsStep(steps[i])
  BY DEF IsPlan
<1>2. StripGeneratedChecks(plan) = [plan EXCEPT !.steps = base]
  BY DEF StripGeneratedChecks
<1>4. DOMAIN base = DOMAIN steps /\ \A i \in DOMAIN steps : base[i] = Stripped(steps[i])
  OBVIOUS
<1>5. base \in Seq(ToSet(base))
  <2>1. Len(steps) \in Nat /\ DOMAIN steps = 1..Len(steps)
    BY <1>1
  <2>2. base \in [1..Len(steps) -> ToSet(base)]
    BY <2>1 DEF ToSet
  <2> HIDE DEF base, steps
  <2> QED BY <2>1, <2>2
<1> HIDE DEF base, steps
<1>3. [plan EXCEPT !.steps = base] = [reqs |-> plan.reqs, steps |-> base]
  BY PlanChanges
<1>6. \A i \in DOMAIN steps :
        /\ IsStep(base[i])
        /\ base[i].id = steps[i].id /\ base[i].deps = steps[i].deps /\ base[i].outputs = steps[i].outputs
        /\ base[i].requires = steps[i].requires /\ base[i].covers = steps[i].covers
        /\ base[i].verify = OrdinaryChecks(steps[i].verify)
  BY <1>1, <1>4, StrippedIs
<1>7. IsPlan([reqs |-> plan.reqs, steps |-> base])
  BY <1>4, <1>5, <1>6, StepsMakePlan
<1>8. Agree(steps, base)
  BY <1>4, <1>6 DEF Agree
<1>9. StripGeneratedChecks(plan) = [reqs |-> plan.reqs, steps |-> base]
  BY <1>2, <1>3
<1> QED BY <1>6, <1>7, <1>8, <1>9 DEF steps

\* Where the compiler puts its checks
AnchorAt(plan, asked) ==
  CHOOSE i \in DOMAIN StripGeneratedChecks(plan).steps :
    StripGeneratedChecks(plan).steps[i].id = AnchorStep(plan, asked)

\* What the compiler makes of a plan that it accepts
LEMMA CompiledParts ==
  ASSUME NEW plan, IsPlan(plan), NEW asked, CompileSucceeds(plan, asked), NEW planner, NEW required
  PROVE  LET base     == StripGeneratedChecks(plan)
             made     == CompilePlan(plan, asked, planner, required)
             at       == AnchorAt(plan, asked)
             contract == CompileContract(base)
         IN  /\ IsPlan(made) /\ made.reqs = base.reqs /\ Agree(base.steps, made.steps)
             /\ at \in DOMAIN base.steps
             /\ made.steps[at].verify =
                  <<MakeFormalCheck(contract, planner, required), MakeSemanticCheck(contract)>>
                    \o base.steps[at].verify
             /\ \A i \in DOMAIN base.steps : i # at => made.steps[i].verify = base.steps[i].verify
<1> DEFINE base     == StripGeneratedChecks(plan)
           made     == CompilePlan(plan, asked, planner, required)
           at       == AnchorAt(plan, asked)
           contract == CompileContract(base)
           front    == <<MakeFormalCheck(contract, planner, required), MakeSemanticCheck(contract)>>
           checks   == front \o base.steps[at].verify
           steps    == [base.steps EXCEPT ![at] = [base.steps[at] EXCEPT !.verify = checks]]
<1>1. IsPlan(base) /\ Agree(plan.steps, base.steps)
  BY StripKeepsPlan
<1>2. at \in DOMAIN base.steps
  <2>1. AnchorStep(plan, asked) \in Ids(plan.steps)
    BY DEF CompileSucceeds
  <2>2. \E i \in DOMAIN base.steps : base.steps[i].id = AnchorStep(plan, asked)
    BY <1>1, <2>1 DEF Ids, Agree
  <2> QED BY <2>2 DEF AnchorAt
<1>3. made = [base EXCEPT !.steps[at].verify = checks]
  BY DEF CompilePlan, AnchorAt
<1> HIDE DEF base, made, at, front, contract
<1>4. made = [base EXCEPT !.steps = steps]
  BY <1>3
<1> HIDE DEF checks
<1>5. base.steps \in Seq(ToSet(base.steps)) /\ \A i \in DOMAIN base.steps : IsStep(base.steps[i])
  BY <1>1 DEF IsPlan
<1> DEFINE step == base.steps[at]
           new  == [step EXCEPT !.verify = checks]
<1>6. checks \in Seq(ToSet(front) \cup ToSet(step.verify))
  <2>1. step.verify \in Seq(ToSet(step.verify))
    BY <1>2, <1>5 DEF IsStep
  <2>2. front \in Seq(ToSet(front))
    BY DEF front, ToSet
  <2> DEFINE S == ToSet(front) \cup ToSet(step.verify)
             w == step.verify
  <2>3. front \in Seq(S) /\ w \in Seq(S)
    BY <2>1, <2>2
  <2> HIDE DEF S, w
  <2>4. front \o w \in Seq(S)
    BY <2>3, ListsJoin, Zenon
  <2> QED BY <2>4 DEF S, w, checks
<1>7. /\ IsStep(new) /\ new.id = step.id /\ new.deps = step.deps /\ new.outputs = step.outputs
      /\ new.requires = step.requires /\ new.covers = step.covers /\ new.verify = checks
  <2>1. IsStep(step)
    BY <1>2, <1>5
  <2> HIDE DEF step
  <2>2. new = StepWith(step.id, step.deps, step.outputs, step.requires, step.covers, checks)
    BY <2>1, StepChanges
  <2>3. step.id \in Int
    BY <2>1 DEF IsStep
  <2>4. IsStep(StepWith(step.id, step.deps, step.outputs, step.requires, step.covers, checks))
    BY <1>6, <2>3, StepWithIs
  <2> HIDE DEF new
  <2> QED BY <2>2, <2>4 DEF StepWith
<1> HIDE DEF new
<1>8. /\ steps \in Seq(ToSet(steps)) /\ DOMAIN steps = DOMAIN base.steps
      /\ steps[at] = new /\ \A j \in DOMAIN base.steps : j # at => steps[j] = base.steps[j]
  <2> DEFINE seq == base.steps
  <2>1. seq \in Seq(ToSet(seq)) /\ at \in DOMAIN seq
    BY <1>2, <1>5
  <2> HIDE DEF seq
  <2>2. LET more == [seq EXCEPT ![at] = new]
        IN  /\ more \in Seq(ToSet(more)) /\ DOMAIN more = DOMAIN seq
            /\ more[at] = new /\ \A j \in DOMAIN seq : j # at => more[j] = seq[j]
    BY <2>1, ElementReplaced
  <2> QED BY <2>2 DEF seq, new
<1> HIDE DEF steps
<1>9. \A i \in DOMAIN steps : IsStep(steps[i])
  BY <1>5, <1>7, <1>8
<1>10. made = [reqs |-> base.reqs, steps |-> steps]
  BY <1>1, <1>4, PlanChanges
<1>11. IsPlan(made)
  BY <1>8, <1>9, <1>10, StepsMakePlan
<1>12. Agree(base.steps, steps)
  BY <1>7, <1>8 DEF Agree
<1> QED BY <1>2, <1>7, <1>8, <1>10, <1>11, <1>12 DEF base, made, at, contract, front, checks, step

LEMMA ChecksReplaced ==
  ASSUME NEW step, IsStep(step), NEW S, NEW checks \in Seq(S)
  PROVE  IsStep([step EXCEPT !.verify = checks])
<1>1. step.id \in Int
  BY DEF IsStep
<1>2. [step EXCEPT !.verify = checks] =
        StepWith(step.id, step.deps, step.outputs, step.requires, step.covers, checks)
  BY StepChanges
<1> QED BY <1>1, <1>2, StepWithIs

LEMMA StepReplaced ==
  ASSUME NEW plan, IsPlan(plan), NEW i \in DOMAIN plan.steps, NEW step, IsStep(step)
  PROVE  IsPlan([plan EXCEPT !.steps = [plan.steps EXCEPT ![i] = step]])
<1> DEFINE steps == plan.steps
           new == [steps EXCEPT ![i] = step]
<1>1. steps \in Seq(ToSet(steps)) /\ \A j \in DOMAIN steps : IsStep(steps[j])
  BY DEF IsPlan
<1>2. /\ new \in Seq(ToSet(new)) /\ DOMAIN new = DOMAIN steps
      /\ new[i] = step /\ \A j \in DOMAIN steps : j # i => new[j] = steps[j]
  <2> HIDE DEF steps
  <2>1. LET more == [steps EXCEPT ![i] = step]
        IN  /\ more \in Seq(ToSet(more)) /\ DOMAIN more = DOMAIN steps
            /\ more[i] = step /\ \A j \in DOMAIN steps : j # i => more[j] = steps[j]
    <3>1. i \in DOMAIN steps
      BY DEF steps
    <3> QED BY <1>1, <3>1, ElementReplaced
  <2> QED BY <2>1
<1> HIDE DEF new
<1>3. IsPlan([reqs |-> plan.reqs, steps |-> new])
  BY <1>1, <1>2, StepsMakePlan
<1>4. [plan EXCEPT !.steps = new] = [reqs |-> plan.reqs, steps |-> new]
  BY PlanChanges
<1> QED BY <1>3, <1>4 DEF new

LEMMA EditedStepsAreSteps ==
  ASSUME NEW step, IsStep(step), NEW edited \in EditedSteps(step)
  PROVE  IsStep(edited)
<1>1. step.id \in Int /\ step.verify \in Seq(ToSet(step.verify)) /\ <<>> \in Seq(ToSet(step.verify))
  BY DEF IsStep
<1> DEFINE none == <<>>
           With5(deps, outputs, requires, covers, verify) ==
             StepWith(step.id, deps, outputs, requires, covers, verify)
<1>2. /\ [step EXCEPT !.deps = none] = With5(none, step.outputs, step.requires, step.covers, step.verify)
      /\ [step EXCEPT !.outputs = none] = With5(step.deps, none, step.requires, step.covers, step.verify)
      /\ [step EXCEPT !.requires = none] = With5(step.deps, step.outputs, none, step.covers, step.verify)
      /\ [step EXCEPT !.covers = none] = With5(step.deps, step.outputs, step.requires, none, step.verify)
      /\ [step EXCEPT !.verify = none] = With5(step.deps, step.outputs, step.requires, step.covers, none)
  <2> HIDE DEF none
  <2> QED BY StepChanges
<1>3. \/ edited = [step EXCEPT !.deps = none]
      \/ edited = [step EXCEPT !.outputs = none]
      \/ edited = [step EXCEPT !.requires = none]
      \/ edited = [step EXCEPT !.covers = none]
      \/ edited = [step EXCEPT !.verify = none]
  BY DEF EditedSteps
<1>4. none \in Seq(ToSet(step.verify))
  BY <1>1
<1> HIDE DEF none
<1>5. \A deps, outputs, requires, covers : /\ IsStep(With5(deps, outputs, requires, covers, step.verify))
                                           /\ IsStep(With5(deps, outputs, requires, covers, none))
  BY <1>1, <1>4, StepWithIs
<1> HIDE DEF With5
<1> QED BY <1>2, <1>3, <1>5

LEMMA EditedPlansArePlans ==
  ASSUME NEW plan, IsPlan(plan), NEW edited \in EditedPlans(plan)
  PROVE  IsPlan(edited)
<1> DEFINE steps == plan.steps
<1>1. steps \in Seq(ToSet(steps)) /\ \A i \in DOMAIN steps : IsStep(steps[i])
  BY DEF IsPlan
<1>2. ASSUME edited = [plan EXCEPT !.reqs = Undeclared] PROVE IsPlan(edited)
  <2>1. edited = [reqs |-> Undeclared, steps |-> steps]
    BY <1>2, PlanChanges
  <2> HIDE DEF steps
  <2> QED BY <1>1, <2>1, StepsMakePlan
<1>3. ASSUME NEW i \in DOMAIN steps, NEW step \in EditedSteps(steps[i]),
             edited = [plan EXCEPT !.steps = [steps EXCEPT ![i] = step]]
      PROVE  IsPlan(edited)
  <2>1. IsStep(step)
    BY <1>1, <1>3, EditedStepsAreSteps
  <2> QED BY <1>3, <2>1, StepReplaced
<1>4. ASSUME NEW i \in DOMAIN steps, NEW j \in DOMAIN steps[i].verify, NEW check,
             edited = [plan EXCEPT !.steps = [steps EXCEPT ![i].verify[j] = check]]
      PROVE  IsPlan(edited)
  <2> DEFINE step == steps[i]
             w == step.verify
             checks == [w EXCEPT ![j] = check]
  <2>1. IsStep(step)
    BY <1>1
  <2>2. w \in Seq(ToSet(w)) /\ j \in DOMAIN w
    BY <2>1 DEF IsStep
  <2>3. checks \in Seq(ToSet(checks))
    <3> HIDE DEF w
    <3> QED BY <2>2, ElementReplaced
  <2>4. edited = [plan EXCEPT !.steps = [steps EXCEPT ![i] = [step EXCEPT !.verify = checks]]]
    BY <1>4
  <2> HIDE DEF step, checks
  <2>5. IsStep([step EXCEPT !.verify = checks])
    BY <2>1, <2>3, ChecksReplaced
  <2> QED BY <2>4, <2>5, StepReplaced
<1>5. ASSUME NEW i \in DOMAIN steps, edited = [plan EXCEPT !.steps = [steps EXCEPT ![i].verify = @ \o @]]
      PROVE  IsPlan(edited)
  <2> DEFINE step == steps[i]
             w == step.verify
             checks == w \o w
             S == ToSet(w)
  <2>1. IsStep(step)
    BY <1>1
  <2>2. w \in Seq(S)
    BY <2>1 DEF IsStep
  <2>3. checks \in Seq(S)
    <3> HIDE DEF w, S
    <3> QED BY <2>2, ListsJoin, Zenon
  <2>4. edited = [plan EXCEPT !.steps = [steps EXCEPT ![i] = [step EXCEPT !.verify = checks]]]
    BY <1>5
  <2> HIDE DEF step, checks, S
  <2>5. IsStep([step EXCEPT !.verify = checks])
    BY <2>1, <2>3, ChecksReplaced
  <2> QED BY <2>4, <2>5, StepReplaced
<1> DEFINE A == UNION {{[steps EXCEPT ![i] = step] : step \in EditedSteps(steps[i])} : i \in DOMAIN steps}
           B == UNION {UNION {{[steps EXCEPT ![i].verify[j] = check] :
                                check \in EditedChecks(steps[i].verify[j])} :
                               j \in DOMAIN steps[i].verify} : i \in DOMAIN steps}
           C == {[steps EXCEPT ![i].verify = @ \o @] : i \in DOMAIN steps}
<1>6. edited \in {[plan EXCEPT !.steps = s] : s \in A \cup B \cup C} \cup {[plan EXCEPT !.reqs = Undeclared]}
  BY DEF EditedPlans
<1>7. ASSUME NEW s \in A, edited = [plan EXCEPT !.steps = s] PROVE IsPlan(edited)
  <2>1. PICK i \in DOMAIN steps : \E step \in EditedSteps(steps[i]) : s = [steps EXCEPT ![i] = step]
    OBVIOUS
  <2>2. PICK step \in EditedSteps(steps[i]) : s = [steps EXCEPT ![i] = step]
    BY <2>1
  <2>3. edited = [plan EXCEPT !.steps = [steps EXCEPT ![i] = step]]
    BY <1>7, <2>2
  <2> QED BY <1>3, <2>3
<1>8. ASSUME NEW s \in B, edited = [plan EXCEPT !.steps = s] PROVE IsPlan(edited)
  <2>1. PICK i \in DOMAIN steps : \E j \in DOMAIN steps[i].verify :
          \E check \in EditedChecks(steps[i].verify[j]) : s = [steps EXCEPT ![i].verify[j] = check]
    OBVIOUS
  <2>2. PICK j \in DOMAIN steps[i].verify :
          \E check \in EditedChecks(steps[i].verify[j]) : s = [steps EXCEPT ![i].verify[j] = check]
    BY <2>1
  <2>3. PICK check \in EditedChecks(steps[i].verify[j]) : s = [steps EXCEPT ![i].verify[j] = check]
    BY <2>2
  <2>4. edited = [plan EXCEPT !.steps = [steps EXCEPT ![i].verify[j] = check]]
    BY <1>8, <2>3
  <2> QED BY <1>4, <2>4
<1>9. ASSUME NEW s \in C, edited = [plan EXCEPT !.steps = s] PROVE IsPlan(edited)
  <2>1. PICK i \in DOMAIN steps : s = [steps EXCEPT ![i].verify = @ \o @]
    OBVIOUS
  <2>2. edited = [plan EXCEPT !.steps = [steps EXCEPT ![i].verify = @ \o @]]
    BY <1>9, <2>1
  <2> QED BY <1>5, <2>2
<1> HIDE DEF A, B, C
<1>10. edited = [plan EXCEPT !.reqs = Undeclared] \/ \E s \in A \cup B \cup C : edited = [plan EXCEPT !.steps = s]
  BY <1>6
<1> QED BY <1>2, <1>7, <1>8, <1>9, <1>10

-----------------------------------------------------------------------------
(* The states of the workspace *)

PlansArePlans == plans \in Seq(ToSet(plans)) /\ \A p \in DOMAIN plans : IsPlan(plans[p])

\* What the compiler left
AsLeft(plan) ==
  \E source, asked, planner, required :
    IsPlan(source) /\ CompileSucceeds(source, asked) /\ plan = CompilePlan(source, asked, planner, required)

CompiledAreAsLeft == compiled \subseteq DOMAIN plans /\ \A p \in compiled : AsLeft(plans[p])

PlanReport(p, requireCoverage) ==
  [kind |-> "plan", plan |-> p, result |-> VerifyPlan(plans[p], requireCoverage)]

FormalReport(planner, required, max, answers) ==
  [kind |-> "formal", planner |-> planner, required |-> required, answers |-> answers,
   exit |-> FormalExitCode(VerifyContracts(plans, None, planner, required, max, answers))]

FormalizeReport == [kind |-> "formalize", ok |-> VerifyFormalizations(plans, None)]

\* The report is about the plans as they are now
ReportIsCurrent ==
  \/ report = None
  \/ \E p \in DOMAIN plans : \E requireCoverage \in BOOLEAN : report = PlanReport(p, requireCoverage)
  \/ \E planner \in {"none", "auto"}, required \in BOOLEAN, max \in StateBounds,
        answers \in [DOMAIN plans -> Answers] : report = FormalReport(planner, required, max, answers)
  \/ report = FormalizeReport

PlanInv == PlansArePlans /\ CompiledAreAsLeft /\ ReportIsCurrent

LEMMA InitPlanInv == Init => PlanInv
<1> SUFFICES ASSUME Init PROVE PlanInv
  OBVIOUS
<1>1. PICK w \in Workspaces : plans = w.plans
  BY DEF Init
<1>2. PlansArePlans
  BY <1>1, WorkspacesAssumption DEF PlansArePlans
<1>3. CompiledAreAsLeft /\ ReportIsCurrent
  BY DEF Init, CompiledAreAsLeft, ReportIsCurrent
<1> QED BY <1>2, <1>3 DEF PlanInv

\* A plan may be replaced by one that is a plan
LEMMA OnePlanReplaced ==
  ASSUME PlanInv, NEW p \in DOMAIN plans, NEW plan, IsPlan(plan), plans' = [plans EXCEPT ![p] = plan],
         report' = None, (compiled' = compiled \cup {p} /\ AsLeft(plan)) \/ compiled' = compiled \ {p}
  PROVE  PlanInv'
<1>1. plans \in Seq(ToSet(plans)) /\ \A q \in DOMAIN plans : IsPlan(plans[q])
  BY DEF PlanInv, PlansArePlans
<1>2. LET new == [plans EXCEPT ![p] = plan]
      IN  /\ new \in Seq(ToSet(new)) /\ DOMAIN new = DOMAIN plans
          /\ new[p] = plan /\ \A q \in DOMAIN plans : q # p => new[q] = plans[q]
  BY <1>1, ElementReplaced
<1>3. /\ plans' \in Seq(ToSet(plans')) /\ DOMAIN plans' = DOMAIN plans
      /\ plans'[p] = plan /\ \A q \in DOMAIN plans : q # p => plans'[q] = plans[q]
  BY <1>2
<1>4. PlansArePlans'
  BY <1>1, <1>3 DEF PlansArePlans
<1>5. CompiledAreAsLeft'
  <2>1. compiled \subseteq DOMAIN plans /\ \A q \in compiled : AsLeft(plans[q])
    BY DEF PlanInv, CompiledAreAsLeft
  <2> QED BY <1>3, <2>1 DEF CompiledAreAsLeft
<1>6. ReportIsCurrent'
  BY DEF ReportIsCurrent
<1> QED BY <1>4, <1>5, <1>6 DEF PlanInv

LEMMA NextPlanInv == PlanInv /\ [Next]_vars => PlanInv'
<1> SUFFICES ASSUME PlanInv, [Next]_vars PROVE PlanInv'
  OBVIOUS
<1>1. ASSUME NEW p \in DOMAIN plans, NEW asked, NEW planner, NEW required, Compile(p, asked, planner, required)
      PROVE  PlanInv'
  <2> DEFINE plan == CompilePlan(plans[p], asked, planner, required)
  <2>1. IsPlan(plans[p]) /\ CompileSucceeds(plans[p], asked)
    BY <1>1 DEF Compile, PlanInv, PlansArePlans
  <2>2. plans' = [plans EXCEPT ![p] = plan] /\ compiled' = compiled \cup {p} /\ report' = None
    BY <1>1 DEF Compile
  <2>3. IsPlan(plan)
    BY <2>1, CompiledParts
  <2>4. AsLeft(plan)
    BY <2>1 DEF AsLeft
  <2> HIDE DEF plan
  <2> QED BY <2>2, <2>3, <2>4, OnePlanReplaced
<1>2. ASSUME NEW p \in DOMAIN plans, Edit(p) PROVE PlanInv'
  <2>1. PICK edited \in EditedPlans(plans[p]) : plans' = [plans EXCEPT ![p] = edited]
    BY <1>2 DEF Edit
  <2>2. IsPlan(edited)
    BY EditedPlansArePlans DEF PlanInv, PlansArePlans
  <2> QED BY <1>2, <2>1, <2>2, OnePlanReplaced DEF Edit
<1>3. ASSUME UNCHANGED <<plans, compiled>> PROVE (PlansArePlans /\ CompiledAreAsLeft)'
  BY <1>3 DEF PlanInv, PlansArePlans, CompiledAreAsLeft
<1>4. ASSUME NEW p \in DOMAIN plans, NEW requireCoverage \in BOOLEAN, PlanVerify(p, requireCoverage)
      PROVE  PlanInv'
  <2>1. plans' = plans /\ report' = PlanReport(p, requireCoverage)'
    BY <1>4 DEF PlanVerify, PlanReport
  <2>2. ReportIsCurrent'
    BY <2>1 DEF ReportIsCurrent
  <2> QED BY <1>3, <1>4, <2>2 DEF PlanVerify, PlanInv
<1>5. ASSUME NEW planner \in {"none", "auto"}, NEW required \in BOOLEAN, NEW max \in StateBounds,
             NEW answers \in [DOMAIN plans -> Answers], FormalVerify(planner, required, max, answers)
      PROVE  PlanInv'
  <2>1. plans' = plans /\ report' = FormalReport(planner, required, max, answers)'
    BY <1>5 DEF FormalVerify, FormalReport
  <2>2. ReportIsCurrent'
    BY <2>1 DEF ReportIsCurrent
  <2> QED BY <1>3, <1>5, <2>2 DEF FormalVerify, PlanInv
<1>6. ASSUME FormalizeVerify PROVE PlanInv'
  <2>1. plans' = plans /\ report' = FormalizeReport'
    BY <1>6 DEF FormalizeVerify, FormalizeReport
  <2>2. ReportIsCurrent'
    BY <2>1 DEF ReportIsCurrent
  <2> QED BY <1>3, <1>6, <2>2 DEF FormalizeVerify, PlanInv
<1>7. ASSUME UNCHANGED vars PROVE PlanInv'
  <2>1. plans' = plans /\ compiled' = compiled /\ report' = report
    BY <1>7 DEF vars
  <2>2. ReportIsCurrent'
    <3> USE DEF PlanReport, FormalReport, FormalizeReport
    <3> QED BY <2>1 DEF ReportIsCurrent, PlanInv
  <2> QED BY <1>3, <2>1, <2>2 DEF PlanInv
<1> QED BY <1>1, <1>2, <1>4, <1>5, <1>6, <1>7 DEF Next

-----------------------------------------------------------------------------
(* The planners and the exported problem *)

LEMMA SolvesIsExecutes ==
  ASSUME NEW plan, NEW contract, NEW order
  PROVE  Solves(contract, EffectiveDependencies(plan.steps), order) <=>
           /\ order \in Seq(Ids(plan.steps)) /\ IsInjective(order)
           /\ Executes(ExportPddl(plan, contract), order)
           /\ ToSet(order) = Ids(plan.steps)
<1> DEFINE deps == EffectiveDependencies(plan.steps)
           ids == Ids(plan.steps)
<1>1. DOMAIN deps = ids
  BY DEF EffectiveDependencies
<1> HIDE DEF deps, ids
<1>2. ASSUME Solves(contract, deps, order)
      PROVE  order \in Seq(ids) /\ IsInjective(order) /\ Executes(ExportPddl(plan, contract), order)
  <2>1. PICK facts : Runs(contract, deps, order, facts) /\ contract.goals \subseteq facts
    BY <1>2 DEF Solves
  <2>2. order \in Seq(ids) /\ IsInjective(order)
    BY <1>1, <2>1 DEF Runs, Executable
  <2>3. ToSet(order) = ids
    BY <1>1, <1>2 DEF Solves
  <2> QED BY <2>1, <2>2, <2>3, ExecutesIffRuns DEF deps, ids
<1>3. ASSUME order \in Seq(ids), IsInjective(order), Executes(ExportPddl(plan, contract), order)
      PROVE  Solves(contract, deps, order)
  <2>1. /\ ToSet(order) = ids
        /\ \E facts : Runs(contract, deps, order, facts) /\ contract.goals \subseteq facts
    BY <1>3, ExecutesIffRuns DEF deps, ids
  <2> QED BY <1>1, <2>1 DEF Solves
<1>4. Solves(contract, deps, order) => ToSet(order) = ids
  BY <1>1 DEF Solves
<1> QED BY <1>2, <1>3, <1>4 DEF deps, ids

LEMMA SolvableIsSolved ==
  ASSUME NEW plan, NEW contract, IsFiniteSet(Ids(plan.steps))
  PROVE  Solvable(ExportPddl(plan, contract)) <=>
           \E order : Solves(contract, EffectiveDependencies(plan.steps), order)
<1> DEFINE ids == Ids(plan.steps)
           n == Cardinality(ids)
           problem == ExportPddl(plan, contract)
           Solved(order) == Solves(contract, EffectiveDependencies(plan.steps), order)
<1>1. DOMAIN problem.actions = ids
  BY ExportedParts
<1>2. n \in Nat
  BY FS_CardinalityType
<1>3. Solvable(problem) <=> \E order \in SetToSeqs(ids) : Executes(problem, order)
  BY <1>1 DEF Solvable
<1>4. ASSUME NEW order \in SetToSeqs(ids), Executes(problem, order) PROVE Solved(order)
  <2>1. order \in [1..n -> ids] /\ \A i, j \in 1..n : i # j => order[i] # order[j]
    BY DEF SetToSeqs
  <2>2. order \in Seq(ids) /\ IsInjective(order)
    <3> HIDE DEF n
    <3> QED BY <1>2, <2>1 DEF IsInjective
  <2>3. ToSet(order) = ids
    BY <1>4, <2>2, ExecutesIffRuns
  <2> QED BY <1>4, <2>2, <2>3, SolvesIsExecutes
<1>5. ASSUME NEW order, Solved(order) PROVE order \in SetToSeqs(ids) /\ Executes(problem, order)
  <2>1. order \in Seq(ids) /\ IsInjective(order) /\ Executes(problem, order) /\ ToSet(order) = ids
    BY <1>5, SolvesIsExecutes
  <2>2. Len(order) = n
    BY <2>1, InjectiveCounts
  <2>3. order \in [1..n -> ids] /\ \A i, j \in 1..n : i # j => order[i] # order[j]
    BY <2>1, <2>2 DEF IsInjective
  <2>4. order \in SetToSeqs(ids)
    <3> HIDE DEF ids
    <3> QED BY <2>3 DEF SetToSeqs
  <2> QED BY <2>1, <2>4
<1> HIDE DEF problem, Solved, ids, n
<1>6. Solvable(problem) <=> \E order : Solved(order)
  BY <1>3, <1>4, <1>5
<1> QED BY <1>6 DEF problem, Solved

\* A report of plan verify is about one of the plans
LEMMA PlanReports ==
  ASSUME PlanInv, report.kind = "plan"
  PROVE  /\ report.plan \in DOMAIN plans /\ JudgedPlan = plans[report.plan] /\ IsPlan(JudgedPlan)
         /\ \E requireCoverage \in BOOLEAN : report.result = VerifyPlan(JudgedPlan, requireCoverage)
         /\ report.result.formal = AnalyzeFormalContract(JudgedPlan, MaxSearchStates)
<1>1. PICK p \in DOMAIN plans : \E requireCoverage \in BOOLEAN : report = PlanReport(p, requireCoverage)
  BY DEF PlanInv, ReportIsCurrent, None, FormalReport, FormalizeReport
<1>2. PICK requireCoverage \in BOOLEAN : report = PlanReport(p, requireCoverage)
  BY <1>1
<1>3. report.plan = p /\ report.result = VerifyPlan(plans[p], requireCoverage)
  BY <1>2 DEF PlanReport
<1>4. report.result.formal = AnalyzeFormalContract(plans[p], MaxSearchStates)
  BY <1>3 DEF VerifyPlan
<1> QED BY <1>3, <1>4 DEF JudgedPlan, PlanInv, PlansArePlans

LEMMA InvSolver == PlanInv => SolverIsRight
<1> SUFFICES ASSUME PlanInv, report.kind = "plan", HasOneContract(JudgedPlan)
             PROVE  LET formal == report.result.formal
                    IN  /\ formal.verdict = "PASS" =>
                             /\ Executes(JudgedProblem, formal.order)
                             /\ ToSet(formal.order) = Ids(JudgedPlan.steps)
                        /\ formal.verdict = "REJECT" => ~ Solvable(JudgedProblem)
                        /\ formal.verdict = "UNKNOWN" => formal.explored > MaxSearchStates
  BY DEF SolverIsRight
<1> DEFINE formal == report.result.formal
           deps   == EffectiveDependencies(JudgedPlan.steps)
<1>1. IsPlan(JudgedPlan) /\ formal = AnalyzeFormalContract(JudgedPlan, MaxSearchStates)
  BY PlanReports
<1>2. Right(JudgedContract, deps, formal, MaxSearchStates)
  BY <1>1, AnalysisIsRight, BoundsAssumption DEF JudgedContract
<1>3. IsFiniteSet(Ids(JudgedPlan.steps))
  <2>1. ContractValid(JudgedPlan, JudgedContract)
    BY DEF HasOneContract, JudgedContract
  <2> QED BY <1>1, <2>1, ValidIsSolving DEF Solving
<1>4. formal.verdict = "PASS" =>
        Executes(JudgedProblem, formal.order) /\ ToSet(formal.order) = Ids(JudgedPlan.steps)
  BY <1>2, SolvesIsExecutes DEF Right, JudgedProblem
<1>5. formal.verdict = "REJECT" => ~ Solvable(JudgedProblem)
  BY <1>2, <1>3, SolvableIsSolved DEF Right, JudgedProblem
<1>6. formal.verdict = "UNKNOWN" => formal.explored > MaxSearchStates
  BY <1>2 DEF Right
<1> QED BY <1>4, <1>5, <1>6

\* The plans stay plans, those the compiler left are as it makes them, and the report is
\* about the plans as they are now.
THEOREM InvCorrect == Spec => []PlanInv
<1>1. Init => PlanInv
  BY InitPlanInv
<1>2. PlanInv /\ [Next]_vars => PlanInv'
  BY NextPlanInv
<1> QED BY <1>1, <1>2, PTL DEF Spec

\* Both internal planners agree with the problem that is exported for the external one:
\* _monotonic_solve and _search_solve of formal_planning.py find an order when there is
\* one, say REJECT only when there is none, and UNKNOWN only beyond the bound on the states.
THEOREM SolverCorrect == Spec => []SolverIsRight
<1>1. PlanInv => SolverIsRight
  BY InvSolver
<1> QED BY <1>1, InvCorrect, PTL

-----------------------------------------------------------------------------
(* Exit 0 of plan-auditor-formal *)

\* The contract of a plan is the one of its only anchor
LEMMA AnchorOfPlan ==
  ASSUME NEW plan, IsPlan(plan), Anchors(plan) # {}
  PROVE  \E at \in Anchors(plan) : FormalCheck(plan) = CheckAt(plan, at) /\ at.step \in Nat /\ at.check \in Nat
<1> DEFINE at == CHOOSE a \in Anchors(plan) : TRUE
<1>1. at \in Anchors(plan)
  OBVIOUS
<1>2. FormalCheck(plan) = CheckAt(plan, at)
  BY DEF FormalCheck
<1> HIDE DEF at
<1>3. PICK i \in DOMAIN plan.steps : \E j \in DOMAIN plan.steps[i].verify : at = [step |-> i, check |-> j]
  BY <1>1 DEF Anchors
<1>4. PICK j \in DOMAIN plan.steps[i].verify : at = [step |-> i, check |-> j]
  BY <1>3
<1>5. i \in Nat
  BY DEF IsPlan
<1>6. j \in Nat
  BY DEF IsPlan, IsStep
<1> QED BY <1>1, <1>2, <1>4, <1>5, <1>6

\* A PASS of the analysis is one of a well-formed contract
LEMMA PassHasOneContract ==
  ASSUME NEW plan, NEW max, Anchors(plan) # {}, AnalyzeFormalContract(plan, max).verdict # "REJECT"
  PROVE  HasOneContract(plan)
  BY DEF AnalyzeFormalContract, Rejected, HasOneContract

\* Exit 0 means that no contract counts for less than a PASS
LEMMA ExitZeroPasses ==
  ASSUME NEW workspace, NEW planner, NEW required, NEW max, NEW answers,
         FormalExitCode(VerifyContracts(workspace, None, planner, required, max, answers)) = 0
  PROVE  /\ Matches(workspace, None) # {}
         /\ \A m \in Matches(workspace, None) :
              MatchOutcome(workspace, Matches(workspace, None), m, planner, required, max, answers) = "PASS"
<1> DEFINE matches  == Matches(workspace, None)
           outcome(m) == MatchOutcome(workspace, matches, m, planner, required, max, answers)
           outcomes == {outcome(m) : m \in matches}
<1>1. \A m \in matches : outcome(m) \in {"PASS", "UNKNOWN", "FAIL"}
  BY DEF MatchOutcome
<1> HIDE DEF outcome, matches
<1>2. VerifyContracts(workspace, None, planner, required, max, answers) =
        IF matches = {} \/ "FAIL" \in outcomes THEN "FAIL"
        ELSE IF "UNKNOWN" \in outcomes THEN "UNKNOWN" ELSE "PASS"
  BY DEF VerifyContracts, matches, outcome
<1>3. matches # {} /\ "FAIL" \notin outcomes /\ "UNKNOWN" \notin outcomes
  BY <1>2 DEF FormalExitCode
<1>4. \A m \in matches : outcome(m) = "PASS"
  BY <1>1, <1>3
<1> QED BY <1>3, <1>4 DEF matches, outcome

LEMMA InvExitZero == PlanInv => ExitZeroIsProof
<1> SUFFICES ASSUME PlanInv, report.kind = "formal", report.exit = 0
             PROVE  /\ \E p \in DOMAIN plans : Anchors(plans[p]) # {}
                    /\ \A p \in DOMAIN plans : Anchors(plans[p]) # {} =>
                         /\ HasOneContract(plans[p])
                         /\ Solvable(ExportPddl(plans[p], FormalCheck(plans[p]).contract))
                         /\ \/ report.required
                            \/ report.planner = "none" /\ FormalCheck(plans[p]).required
                            => /\ report.answers[p].kind = "plan"
                               /\ ToSet(report.answers[p].order) = Ids(plans[p].steps)
  BY DEF ExitZeroIsProof
<1> DEFINE matches == Matches(plans, None)
<1>1. PICK planner \in {"none", "auto"}, required \in BOOLEAN, max \in StateBounds,
           answers \in [DOMAIN plans -> Answers] : report = FormalReport(planner, required, max, answers)
  BY DEF PlanInv, ReportIsCurrent, None, PlanReport, FormalizeReport
<1>2. /\ report.planner = planner /\ report.required = required /\ report.answers = answers
      /\ report.exit = FormalExitCode(VerifyContracts(plans, None, planner, required, max, answers))
  BY <1>1 DEF FormalReport
<1>3. /\ matches # {}
      /\ \A m \in matches : MatchOutcome(plans, matches, m, planner, required, max, answers) = "PASS"
  BY <1>2, ExitZeroPasses
<1>4. ASSUME NEW m \in matches PROVE \E p \in DOMAIN plans : Anchors(plans[p]) # {}
  BY <1>4 DEF Matches
<1>5. ASSUME NEW p \in DOMAIN plans, Anchors(plans[p]) # {}
      PROVE  /\ HasOneContract(plans[p])
             /\ Solvable(ExportPddl(plans[p], FormalCheck(plans[p]).contract))
             /\ required \/ (planner = "none" /\ FormalCheck(plans[p]).required)
                => answers[p].kind = "plan" /\ ToSet(answers[p].order) = Ids(plans[p].steps)
  <2> DEFINE plan == plans[p]
             contract == FormalCheck(plan).contract
             verdict == AnalyzeFormalContract(plan, max).verdict
             deps == EffectiveDependencies(plan.steps)
  <2>1. IsPlan(plan)
    BY DEF PlanInv, PlansArePlans
  <2>2. PICK at \in Anchors(plan) : FormalCheck(plan) = CheckAt(plan, at) /\ at.step \in Nat /\ at.check \in Nat
    BY <1>5, <2>1, AnchorOfPlan
  <2> DEFINE m == [plan |-> p, at |-> at]
             must == RequiredAt(plans, matches, m, planner, required)
             check == FormalCheck(plan)
  <2>3. m \in matches
    BY <2>2 DEF Matches
  <2>4. m.plan = p /\ m.at = at /\ MatchedCheck(plans, m) = check
    BY <2>2 DEF MatchedCheck
  <2>5. MatchOutcome(plans, matches, m, planner, required, max, answers) =
          IF CrossCheckFails(plan, check, verdict, planner, must, answers[p])
          THEN "FAIL" ELSE IF verdict \in {"PASS", "UNKNOWN"} THEN verdict ELSE "FAIL"
    BY <2>4 DEF MatchOutcome
  <2>6. verdict = "PASS" /\ ~ CrossCheckFails(plan, check, verdict, planner, must, answers[p])
    <3> HIDE DEF verdict, must, matches, m, check
    <3> QED BY <1>3, <2>3, <2>5
  <2>7. HasOneContract(plan)
    BY <1>5, <2>6, PassHasOneContract
  <2>8. Solvable(ExportPddl(plan, contract))
    <3>1. max \in Nat
      BY BoundsAssumption
    <3>2. Right(contract, deps, AnalyzeFormalContract(plan, max), max)
      BY <2>1, <2>7, <3>1, AnalysisIsRight
    <3>3. Solves(contract, deps, AnalyzeFormalContract(plan, max).order)
      BY <2>6, <3>2 DEF Right
    <3>4. IsFiniteSet(Ids(plan.steps))
      BY <2>1, <2>7, ValidIsSolving DEF HasOneContract, Solving
    <3> HIDE DEF plan, contract, verdict
    <3> QED BY <3>3, <3>4, SolvableIsSolved
  <2>9. ASSUME required \/ (planner = "none" /\ check.required)
        PROVE  answers[p].kind = "plan" /\ ToSet(answers[p].order) = Ids(plan.steps)
    <3>1. NotAfter(m, m)
      BY <2>2, <2>4 DEF NotAfter
    <3>2. must
      BY <2>3, <2>4, <2>9, <3>1 DEF RequiredAt
    <3>3. RunFastDownward(plan, contract, answers[p]) = "SOLVED"
      BY <2>6, <3>2 DEF CrossCheckFails
    <3> QED BY <3>3 DEF RunFastDownward
  <2> QED BY <2>7, <2>8, <2>9
<1>6. \E p \in DOMAIN plans : Anchors(plans[p]) # {}
  <2> HIDE DEF matches
  <2> QED BY <1>3, <1>4
<1> HIDE DEF matches
<1> QED BY <1>2, <1>5, <1>6

\* Exit 0 of plan-auditor-formal, verify_workspace of formal_planning.py: every contract of
\* every plan is well-formed and its problem has a solution, and where the external planner
\* is demanded it gave a plan of all the steps, whatever was edited before.
THEOREM ExitZeroCorrect == Spec => []ExitZeroIsProof
<1>1. PlanInv => ExitZeroIsProof
  BY InvExitZero
<1> QED BY <1>1, InvCorrect, PTL

-----------------------------------------------------------------------------
(* Generated contracts hold in the order that the audit runs *)

\* A list with as many elements as places has no duplicates
LEMMA DistinctIsInjective ==
  ASSUME NEW S, NEW seq \in Seq(S), Distinct(seq)
  PROVE  IsInjective(seq)
<1>1. Len(seq) \in Nat /\ DOMAIN seq = 1..Len(seq)
  OBVIOUS
<1>2. seq \in Surjection(1..Len(seq), ToSet(seq))
  BY <1>1 DEF Surjection, ToSet
<1>3. IsFiniteSet(1..Len(seq)) /\ Cardinality(1..Len(seq)) = Len(seq)
  BY <1>1, FS_Interval
<1>4. seq \in Injection(1..Len(seq), ToSet(seq))
  BY <1>2, <1>3, FS_Surjection DEF Distinct
<1> QED BY <1>1, <1>4 DEF IsInjective, Injection

\* Each step of a compiled contract has the action that was compiled from it
LEMMA CompiledActions ==
  ASSUME NEW plan, IsPlan(plan), ContractValid(plan, CompileContract(plan)), NEW i \in DOMAIN plan.steps
  PROVE  /\ ActionOf(CompileContract(plan), plan.steps[i].id) = CompileAction(plan, plan.steps[i])
         /\ \A j \in DOMAIN plan.steps : plan.steps[j].id = plan.steps[i].id => j = i
<1> DEFINE contract == CompileContract(plan)
           actions == contract.actions
           names == [j \in DOMAIN actions |-> actions[j].step]
           ids == Ids(plan.steps)
<1>1. /\ DOMAIN actions = DOMAIN plan.steps
      /\ \A j \in DOMAIN plan.steps : actions[j] = CompileAction(plan, plan.steps[j])
      /\ \A j \in DOMAIN plan.steps : actions[j].step = plan.steps[j].id
  BY DEF CompileContract, CompileAction
<1>2. Distinct(names)
  BY DEF ContractValid
<1>3. names \in Seq(ids)
  <2>1. Len(plan.steps) \in Nat /\ DOMAIN plan.steps = 1..Len(plan.steps)
    BY DEF IsPlan
  <2> HIDE DEF contract
  <2>2. names \in [1..Len(plan.steps) -> ids]
    BY <1>1, <2>1 DEF Ids
  <2> HIDE DEF names, ids
  <2> QED BY <2>1, <2>2
<1>4. IsInjective(names)
  <2> HIDE DEF names
  <2> QED BY <1>2, <1>3, DistinctIsInjective
<1> HIDE DEF contract
<1>5. \A j \in DOMAIN plan.steps : actions[j].step = plan.steps[i].id => j = i
  BY <1>1, <1>4 DEF IsInjective
<1>6. ActionOf(contract, plan.steps[i].id) = actions[i]
  BY <1>1, <1>5 DEF ActionOf
<1> QED BY <1>1, <1>5, <1>6 DEF contract

\* Facts of different kinds are different
LEMMA FactsAreDistinct ==
  ASSUME NEW plan, NEW id, NEW name
  PROVE  /\ \A x : OutputFact(id, name) # RequirementFact(x) /\ OutputFact(id, name) # StepFact(x)
         /\ OutputFact(id, name) # SourceFact(plan)
         /\ \A x, y : OutputFact(id, name) = OutputFact(x, y) => x = id /\ y = name
<1>1. OutputFact(id, name)[1] = "output" /\ OutputFact(id, name)[2] = id /\ OutputFact(id, name)[3] = name
  BY DEF OutputFact
<1>2. SourceFact(plan)[1] = "source"
  BY DEF SourceFact
<1>3. \A x : RequirementFact(x)[1] = "requirement" /\ StepFact(x)[1] = "step"
  BY DEF RequirementFact, StepFact
<1>4. \A x, y : OutputFact(x, y)[2] = x /\ OutputFact(x, y)[3] = y
  BY DEF OutputFact
<1> QED BY <1>1, <1>2, <1>3, <1>4

\* Only the step that an output belongs to adds its fact
LEMMA OutputComesFrom ==
  ASSUME NEW plan, NEW id, NEW name, OutputFact(id, name) \in KnownSources(CompileContract(plan))
  PROVE  \E i \in DOMAIN plan.steps : /\ plan.steps[i].id = id
                                      /\ OutputFact(id, name) \in OutputFacts(plan.steps[i])
<1> DEFINE contract == CompileContract(plan)
           fact == OutputFact(id, name)
<1>1. contract.initial = {SourceFact(plan)}
  BY DEF CompileContract
<1>2. PICK i \in DOMAIN plan.steps : fact \in CompileAction(plan, plan.steps[i]).add
  <2>1. /\ DOMAIN contract.actions = DOMAIN plan.steps
        /\ \A i \in DOMAIN plan.steps : contract.actions[i] = CompileAction(plan, plan.steps[i])
    BY DEF CompileContract
  <2> HIDE DEF contract
  <2>2. fact \in contract.initial \cup UNION {contract.actions[i].add : i \in DOMAIN contract.actions}
    BY DEF KnownSources, contract
  <2> QED BY <1>1, <2>1, <2>2, FactsAreDistinct
<1> DEFINE step == plan.steps[i]
<1>3. fact \in {StepFact(step.id)} \cup OutputFacts(step)
                 \cup {RequirementFact(x) : x \in ToSet(Covers(step)) \cap RequiredIds(plan)}
  BY <1>2 DEF CompileAction
<1>4. fact \in OutputFacts(step)
  <2> HIDE DEF step
  <2> QED BY <1>3, FactsAreDistinct
<1>5. step.id = id
  BY <1>4, FactsAreDistinct DEF OutputFacts
<1> QED BY <1>4, <1>5

\* A contract that is compiled from the plan and has no unknown fact is solved by the
\* topological order: every output a step requires is of a step that comes before it
LEMMA GeneratedSolves ==
  ASSUME NEW plan, IsPlan(plan), OutputLinksValid(plan.steps), ContractValid(plan, CompileContract(plan))
  PROVE  Solves(CompileContract(plan), EffectiveDependencies(plan.steps), TopologicalOrder(plan.steps))
<1> DEFINE contract == CompileContract(plan)
           steps == plan.steps
           ids == Ids(steps)
           deps == EffectiveDependencies(steps)
           order == TopologicalOrder(steps)
           N == Len(order)
<1>1. steps \in Seq(ToSet(steps))
  BY DEF IsPlan
<1>2. GraphValid(steps) /\ N = Len(steps) /\ Cardinality(ids) = Len(steps)
  BY DEF OutputLinksValid, Acyclic, GraphValid, StepIndexed
<1>3. /\ order \in Seq(ids) /\ IsInjective(order)
      /\ \A n \in DOMAIN order : deps[order[n]] \subseteq Before(order, n)
  BY <1>1, OrderIsOrdered DEF Ordered
<1>4. Solving(contract, deps) /\ DOMAIN deps = ids
  BY ValidIsSolving
<1>5. ToSet(order) = ids
  <2> HIDE DEF order, ids, deps, steps
  <2> QED BY <1>2, <1>3, <1>4, FullIsAll DEF Solving
<1>6. Monotonic(contract)
  BY DEF Monotonic, CompileContract, CompileAction
<1>7. PICK f : Trace(contract, order, f)
  <2> HIDE DEF order, contract
  <2> QED BY <1>3, TraceExists
<1>8. \A n \in 0..N : f[n] = contract.initial \cup AddedBy(contract, Before(order, n + 1))
  <2> HIDE DEF order, contract, ids, deps
  <2> QED BY <1>3, <1>4, <1>6, <1>7, FactsStay DEF Solving
<1>9. N \in Nat /\ DOMAIN order = 1..N
  <2> HIDE DEF order
  <2> QED BY <1>3
<1>10. \A n \in DOMAIN order : TransitiveDependencies(steps)[order[n]] \subseteq Before(order, n)
  BY <1>1, <1>2, DependenciesComeBefore
<1>11. \A i \in DOMAIN steps : \A ref \in RequiredOutputs(steps[i]) :
         ref.step \in TransitiveDependencies(steps)[steps[i].id]
  BY DEF OutputLinksValid
<1>12. \A i \in DOMAIN steps : ActionOf(contract, steps[i].id) = CompileAction(plan, steps[i])
  BY CompiledActions
<1>13. /\ contract.goals \subseteq KnownSources(contract)
       /\ \A i \in DOMAIN steps : CompileAction(plan, steps[i]).pre \subseteq KnownSources(contract)
  <2>1. /\ DOMAIN contract.actions = DOMAIN steps
        /\ \A i \in DOMAIN steps : contract.actions[i] = CompileAction(plan, steps[i])
    BY DEF CompileContract
  <2> HIDE DEF contract
  <2> QED BY <2>1 DEF ContractValid, contract
<1>14. contract.initial = {SourceFact(plan)}
  BY DEF CompileContract
<1>15. KnownSources(contract) \subseteq contract.initial \cup AddedBy(contract, ids)
  <2>1. /\ DOMAIN contract.actions = DOMAIN steps
        /\ \A i \in DOMAIN steps : contract.actions[i] = CompileAction(plan, steps[i])
    BY DEF CompileContract
  <2> HIDE DEF contract
  <2> QED BY <1>12, <2>1 DEF KnownSources, AddedBy, Ids
<1>16. ASSUME NEW n \in 1..N PROVE ActionOf(contract, order[n]).pre \subseteq f[n - 1]
  <2>1. order[n] \in ids /\ n - 1 \in 0..N /\ n - 1 + 1 = n
    <3> HIDE DEF order
    <3> QED BY <1>3, <1>9
  <2>2. PICK i \in DOMAIN steps : steps[i].id = order[n]
    BY <2>1 DEF Ids
  <2>3. ActionOf(contract, order[n]) = CompileAction(plan, steps[i])
    BY <1>12, <2>2
  <2> DEFINE pre == CompileAction(plan, steps[i]).pre
  <2>4. pre = {SourceFact(plan)} \cup {OutputFact(ref.step, ref.name) : ref \in RequiredOutputs(steps[i])}
    BY DEF CompileAction
  <2>5. ASSUME NEW ref \in RequiredOutputs(steps[i])
        PROVE  OutputFact(ref.step, ref.name) \in AddedBy(contract, Before(order, n))
    <3>1. ref.step \in Before(order, n)
      BY <1>9, <1>10, <1>11, <2>2
    <3>2. OutputFact(ref.step, ref.name) \in KnownSources(contract)
      BY <1>13, <2>4
    <3>3. PICK j \in DOMAIN steps : /\ steps[j].id = ref.step
                                    /\ OutputFact(ref.step, ref.name) \in OutputFacts(steps[j])
      <4> HIDE DEF steps
      <4>1. OutputFact(ref.step, ref.name) \in KnownSources(CompileContract(plan))
        BY <3>2
      <4> QED BY <4>1, OutputComesFrom, Zenon DEF steps
    <3>4. OutputFact(ref.step, ref.name) \in ActionOf(contract, ref.step).add
      <4>1. OutputFacts(steps[j]) \subseteq CompileAction(plan, steps[j]).add
        BY DEF CompileAction
      <4> HIDE DEF contract, steps
      <4> QED BY <1>12, <3>3, <4>1
    <3> HIDE DEF contract, order
    <3> QED BY <3>1, <3>4 DEF AddedBy
  <2>6. f[n - 1] = contract.initial \cup AddedBy(contract, Before(order, n))
    BY <1>8, <2>1
  <2> HIDE DEF contract, order
  <2> QED BY <1>14, <2>3, <2>4, <2>5, <2>6
<1>17. contract.goals \subseteq f[N]
  <2>1. Before(order, N + 1) = ids
    <3> HIDE DEF order, ids
    <3> QED BY <1>5, <1>9 DEF Before, ToSet
  <2>2. f[N] = contract.initial \cup AddedBy(contract, ids)
    BY <1>8, <1>9, <2>1
  <2> QED BY <1>13, <1>15, <2>2
<1>18. Executable(contract, deps, order, f)
  <2> HIDE DEF contract, deps, order, ids
  <2> QED BY <1>3, <1>4, <1>7, <1>9, <1>16 DEF Executable
<1>19. Solves(contract, deps, order)
  <2> HIDE DEF contract, deps, order
  <2> QED BY <1>4, <1>5, <1>17, <1>18 DEF Solves, Runs
<1> QED BY <1>19

\* What a plan that is not rejected has passed
LEMMA AcceptedParts ==
  ASSUME NEW plan, NEW requireCoverage, VerifyPlan(plan, requireCoverage).verdict # "REJECT", Anchors(plan) # {}
  PROVE  OutputLinksValid(plan.steps) /\ HasOneContract(plan) /\ SemanticsValid(plan)
<1>1. /\ OutputLinksValid(plan.steps) /\ SemanticsValid(plan)
      /\ AnalyzeFormalContract(plan, MaxSearchStates).verdict # "REJECT"
  BY DEF VerifyPlan
<1> QED BY <1>1, PassHasOneContract

\* A requirement that is earned is not there before a step that covers it
LEMMA EarnedIsExclusive ==
  ASSUME NEW plan, NEW contract, ContractValid(plan, contract), NEW req, Earned(plan, contract, req)
  PROVE  RequirementFact(req) \notin
           contract.initial \cup UNION {ActionOf(contract, id).add : id \in Ids(plan.steps) \ CoveringSteps(plan, req)}
<1> DEFINE fact == RequirementFact(req)
<1>1. fact \in contract.goals \ contract.initial /\ Producers(contract, fact) \subseteq CoveringSteps(plan, req)
  BY DEF Earned
<1> HIDE DEF fact
<1>2. ASSUME NEW id \in Ids(plan.steps), fact \in ActionOf(contract, id).add PROVE id \in CoveringSteps(plan, req)
  <2>1. HasActions(contract, Ids(plan.steps))
    BY ActionsAreThere DEF ContractValid
  <2>2. PICK i \in DOMAIN contract.actions : ActionOf(contract, id) = contract.actions[i]
    BY <2>1 DEF HasActions
  <2>3. ActionOf(contract, id).step = id
    BY <2>1 DEF HasActions
  <2>4. id \in Producers(contract, fact)
    BY <1>2, <2>2, <2>3 DEF Producers
  <2> QED BY <1>1, <2>4
<1> QED BY <1>1, <1>2 DEF fact

LEMMA InvPassIsEarned == PlanInv => PassIsEarned
<1> SUFFICES ASSUME PlanInv, report.kind = "plan", Anchors(JudgedPlan) # {},
                    report.result.verdict \in {"PASS", "REVISE"}
             PROVE  /\ \A req \in RequiredIds(JudgedPlan) :
                         LET others == Ids(JudgedPlan.steps) \ CoveringSteps(JudgedPlan, req)
                         IN  RequirementFact(req) \notin
                               JudgedContract.initial \cup UNION {ActionOf(JudgedContract, id).add : id \in others}
                    /\ report.result.formal.verdict = "PASS" =>
                         \A req \in RequiredIds(JudgedPlan) : <<"fact", RequirementFact(req)>> \in JudgedProblem.goal
                    /\ IsGenerated(JudgedContract) => Executes(JudgedProblem, TopologicalOrder(JudgedPlan.steps))
  BY DEF PassIsEarned
<1> DEFINE plan == JudgedPlan
           contract == JudgedContract
           ids == Ids(plan.steps)
           order == TopologicalOrder(plan.steps)
<1>1. IsPlan(plan) /\ \E requireCoverage \in BOOLEAN : report.result = VerifyPlan(plan, requireCoverage)
  BY PlanReports
<1>2. OutputLinksValid(plan.steps) /\ HasOneContract(plan) /\ SemanticsValid(plan)
  <2>1. PICK requireCoverage \in BOOLEAN : report.result = VerifyPlan(plan, requireCoverage)
    BY <1>1
  <2>2. VerifyPlan(plan, requireCoverage).verdict # "REJECT"
    BY <2>1
  <2> QED BY <2>2, AcceptedParts
<1>3. ContractValid(plan, contract)
  BY <1>2 DEF HasOneContract, JudgedContract
<1>4. GeneratedValid(plan, contract) /\ \A req \in RequiredIds(plan) : Earned(plan, contract, req)
  BY <1>2 DEF SemanticsValid, JudgedContract
<1> HIDE DEF plan, contract
<1>5. \A req \in RequiredIds(plan) :
        RequirementFact(req) \notin
          contract.initial \cup UNION {ActionOf(contract, id).add : id \in ids \ CoveringSteps(plan, req)}
  BY <1>3, <1>4, EarnedIsExclusive
<1>6. \A req \in RequiredIds(plan) : <<"fact", RequirementFact(req)>> \in ExportPddl(plan, contract).goal
  <2>1. Named(contract.goals) \subseteq ExportPddl(plan, contract).goal
    BY DEF ExportPddl
  <2>2. \A req \in RequiredIds(plan) : RequirementFact(req) \in contract.goals
    BY <1>4 DEF Earned
  <2> QED BY <2>1, <2>2 DEF Named
<1>7. ASSUME IsGenerated(contract) PROVE Executes(ExportPddl(plan, contract), order)
  <2>1. contract = CompileContract(plan)
    BY <1>4, <1>7 DEF GeneratedValid
  <2>2. Solves(CompileContract(plan), EffectiveDependencies(plan.steps), order)
    BY <1>1, <1>2, <1>3, <2>1, GeneratedSolves
  <2>3. Solves(contract, EffectiveDependencies(plan.steps), order)
    BY <2>1, <2>2, Zenon
  <2> HIDE DEF order
  <2> QED BY <2>3, SolvesIsExecutes
<1> QED BY <1>5, <1>6, <1>7 DEF plan, contract, JudgedProblem

\* Whatever was edited, in the plan or in the contract: verify_plan lets a plan with a contract
\* through only if each must or should requirement is a goal that nothing but the steps that
\* cover it makes true, and a generated contract holds in topological_order, which the audit runs.
THEOREM PassCorrect == Spec => []PassIsEarned
<1>1. PlanInv => PassIsEarned
  BY InvPassIsEarned
<1> QED BY <1>1, InvCorrect, PTL

-----------------------------------------------------------------------------
(* What the compiler leaves is what it would make of it again *)

\* Ordinary checks alone are ordinary checks, behind the two that the compiler installs too
LEMMA GeneratedChecksAreLeftOut ==
  ASSUME NEW S, NEW checks \in Seq(S), \A i \in DOMAIN checks : checks[i].kind = "check",
         NEW first, first.kind # "check", NEW second, second.kind # "check"
  PROVE  /\ OrdinaryChecks(checks) = checks
         /\ OrdinaryChecks(<<first, second>> \o checks) = checks
<1> DEFINE N == Len(checks)
           all == <<first, second>> \o checks
           T == S \cup {first, second}
<1>1. N \in Nat /\ DOMAIN checks = 1..N
  OBVIOUS
<1>2. OrdinaryChecks(checks) = checks
  <2>1. \A i \in 1..N : checks[i].kind = "check" <=> i > 0
    BY <1>1
  <2>2. 0 \in 0..N
    BY <1>1
  <2>3. OrdinaryChecks(checks) = SubSeq(checks, 0 + 1, N)
    BY <2>1, <2>2, OrdinaryChecksAre
  <2> QED BY <2>3
<1>3. /\ all \in Seq(T) /\ Len(all) = N + 2 /\ all[1] = first /\ all[2] = second
      /\ \A i \in 1..N : all[i + 2] = checks[i]
  BY <1>1
<1>4. OrdinaryChecks(all) = SubSeq(all, 2 + 1, N + 2)
  <2>1. ASSUME NEW i \in 1..Len(all) PROVE all[i].kind = "check" <=> i > 2
    <3> i \in 1..(N + 2)
      BY <1>3
    <3>1. CASE i > 2
      <4>1. i - 2 \in 1..N /\ i - 2 + 2 = i
        BY <1>1, <3>1
      <4>2. all[i] = checks[i - 2]
        <5> HIDE DEF all
        <5> QED BY <1>3, <4>1
      <4> QED BY <1>1, <3>1, <4>1, <4>2
    <3>2. CASE i = 1 \/ i = 2
      BY <1>3, <3>2
    <3> QED BY <1>1, <3>1, <3>2
  <2>2. 2 \in 0..Len(all)
    BY <1>1, <1>3
  <2>3. Len(all) = N + 2
    BY <1>3
  <2> HIDE DEF all, T, N
  <2>4. OrdinaryChecks(all) = SubSeq(all, 2 + 1, Len(all))
    BY <1>3, <2>1, <2>2, OrdinaryChecksAre
  <2> QED BY <2>3, <2>4
<1>5. SubSeq(all, 2 + 1, N + 2) = checks
  BY <1>1, <1>3
<1> QED BY <1>2, <1>4, <1>5

\* What agrees but for the checks has the same graph, outputs and coverage
LEMMA AgreeKeeps ==
  ASSUME NEW steps, steps \in Seq(ToSet(steps)), NEW others, others \in Seq(ToSet(others)), Agree(steps, others)
  PROVE  /\ DOMAIN others = DOMAIN steps /\ Len(others) = Len(steps) /\ Ids(others) = Ids(steps)
         /\ \A i \in DOMAIN steps :
              /\ others[i].id = steps[i].id
              /\ Parents(others[i]) = Parents(steps[i])
              /\ Covers(others[i]) = Covers(steps[i])
              /\ StepOutputNames(others[i]) = StepOutputNames(steps[i])
              /\ RequiredOutputs(others[i]) = RequiredOutputs(steps[i])
              /\ LinkedSources(others[i]) = LinkedSources(steps[i])
              /\ RequiredDeclared(others[i]) <=> RequiredDeclared(steps[i])
              /\ others[i].deps = Undeclared <=> steps[i].deps = Undeclared
<1>1. DOMAIN others = DOMAIN steps
  BY DEF Agree
<1>2. Len(others) = Len(steps)
  BY <1>1
<1>3. Ids(others) = Ids(steps)
  BY <1>1 DEF Agree, Ids
<1>4. ASSUME NEW i \in DOMAIN steps
      PROVE  /\ others[i].id = steps[i].id
             /\ Parents(others[i]) = Parents(steps[i])
             /\ Covers(others[i]) = Covers(steps[i])
             /\ StepOutputNames(others[i]) = StepOutputNames(steps[i])
             /\ RequiredOutputs(others[i]) = RequiredOutputs(steps[i])
             /\ LinkedSources(others[i]) = LinkedSources(steps[i])
             /\ RequiredDeclared(others[i]) <=> RequiredDeclared(steps[i])
             /\ others[i].deps = Undeclared <=> steps[i].deps = Undeclared
  <2> DEFINE step == steps[i]
             other == others[i]
  <2>1. /\ other.id = step.id /\ other.deps = step.deps /\ other.outputs = step.outputs
        /\ other.requires = step.requires /\ other.covers = step.covers
    BY DEF Agree
  <2> HIDE DEF step, other
  <2>2. Parents(other) = Parents(step) /\ Covers(other) = Covers(step)
    BY <2>1 DEF Parents, Covers
  <2>3. StepOutputNames(other) = StepOutputNames(step)
    BY <2>1 DEF StepOutputNames
  <2>4. RequiredOutputs(other) = RequiredOutputs(step)
    BY <2>1 DEF RequiredOutputs
  <2>5. LinkedSources(other) = LinkedSources(step)
    BY <2>4 DEF LinkedSources
  <2>6. RequiredDeclared(other) <=> RequiredDeclared(step)
    BY <2>1 DEF RequiredDeclared
  <2> QED BY <2>1, <2>2, <2>3, <2>4, <2>5, <2>6 DEF step, other
<1> QED BY <1>1, <1>2, <1>3, <1>4

LEMMA AgreeCompiles ==
  ASSUME NEW plan, IsPlan(plan), NEW other, IsPlan(other), other.reqs = plan.reqs, Agree(plan.steps, other.steps),
         Compilable(plan)
  PROVE  Compilable(other)
<1> DEFINE steps == plan.steps
           others == other.steps
<1>1. steps \in Seq(ToSet(steps)) /\ others \in Seq(ToSet(others))
  BY DEF IsPlan
<1>2. RequiredIds(other) = RequiredIds(plan) /\ KnownIds(other) = KnownIds(plan)
  BY DEF RequiredIds, KnownIds, Requirements
<1> HIDE DEF steps, others
<1>3. /\ DOMAIN others = DOMAIN steps /\ Len(others) = Len(steps) /\ Ids(others) = Ids(steps)
      /\ \A i \in DOMAIN steps :
           /\ others[i].id = steps[i].id
           /\ Parents(others[i]) = Parents(steps[i])
           /\ Covers(others[i]) = Covers(steps[i])
           /\ StepOutputNames(others[i]) = StepOutputNames(steps[i])
           /\ RequiredOutputs(others[i]) = RequiredOutputs(steps[i])
           /\ LinkedSources(others[i]) = LinkedSources(steps[i])
           /\ RequiredDeclared(others[i]) <=> RequiredDeclared(steps[i])
           /\ others[i].deps = Undeclared <=> steps[i].deps = Undeclared
  BY <1>1, AgreeKeeps DEF steps, others
<1>4. others # <<>>
  BY <1>1, <1>3 DEF Compilable, steps
<1>5. GraphValid(others)
  <2>1. GraphValid(steps)
    BY DEF Compilable, steps
  <2>2. StepIndexed(others)
    BY <1>3, <2>1 DEF GraphValid, StepIndexed
  <2> QED BY <1>3, <2>1, <2>2 DEF GraphValid
<1>6. EdgesBound(others)
  <2>1. EdgesBound(steps)
    BY DEF Compilable, steps
  <2> QED BY <1>3, <2>1 DEF EdgesBound
<1>7. \A i \in DOMAIN others : /\ Distinct(StepOutputNames(others[i]))
                               /\ RequiredDeclared(others[i])
                               /\ CoversKnown(other, others[i])
  <2>1. \A i \in DOMAIN steps : /\ Distinct(StepOutputNames(steps[i]))
                                /\ RequiredDeclared(steps[i])
                                /\ CoversKnown(plan, steps[i])
    BY DEF Compilable, steps
  <2> QED BY <1>2, <1>3, <2>1 DEF CoversKnown
<1>8. RequiredIds(other) \subseteq CoveredIds(other)
  <2>1. CoveredIds(other) = CoveredIds(plan)
    BY <1>3 DEF CoveredIds, steps, others
  <2> QED BY <1>2, <2>1 DEF Compilable
<1> QED BY <1>2, <1>4, <1>5, <1>6, <1>7, <1>8 DEF Compilable, others

LEMMA AgreeSameContract ==
  ASSUME NEW plan, IsPlan(plan), NEW other, IsPlan(other), other.reqs = plan.reqs, Agree(plan.steps, other.steps),
         \A i \in DOMAIN plan.steps : OrdinaryChecks(other.steps[i].verify) = OrdinaryChecks(plan.steps[i].verify)
  PROVE  SourceFact(other) = SourceFact(plan) /\ CompileContract(other) = CompileContract(plan)
<1> DEFINE steps == plan.steps
           others == other.steps
<1>1. steps \in Seq(ToSet(steps)) /\ others \in Seq(ToSet(others))
  BY DEF IsPlan
<1>2. RequiredIds(other) = RequiredIds(plan)
  BY DEF RequiredIds, Requirements
<1>3. DOMAIN others = DOMAIN steps
  BY DEF Agree
<1>4. ASSUME NEW i \in DOMAIN steps
      PROVE  /\ others[i].id = steps[i].id /\ others[i].outputs = steps[i].outputs
             /\ others[i].requires = steps[i].requires
             /\ Parents(others[i]) = Parents(steps[i])
             /\ Covers(others[i]) = Covers(steps[i])
             /\ StepOutputNames(others[i]) = StepOutputNames(steps[i])
             /\ RequiredOutputs(others[i]) = RequiredOutputs(steps[i])
  <2>1. others[i].id = steps[i].id /\ others[i].outputs = steps[i].outputs /\ others[i].requires = steps[i].requires
    BY DEF Agree
  <2> HIDE DEF steps, others
  <2> QED BY <1>1, <2>1, AgreeKeeps DEF steps, others
<1>5. SourceFact(other) = SourceFact(plan)
  <2>1. \A i \in DOMAIN steps : Projected(others[i]) = Projected(steps[i])
    BY <1>4 DEF Projected
  <2>2. [i \in DOMAIN others |-> Projected(others[i])] = [i \in DOMAIN steps |-> Projected(steps[i])]
    <3> HIDE DEF steps, others
    <3> QED BY <1>3, <2>1
  <2>3. SourceProjection(other) = SourceProjection(plan)
    BY <2>2 DEF SourceProjection
  <2> QED BY <2>3 DEF SourceFact
<1>6. \A i \in DOMAIN steps : OutputFacts(others[i]) = OutputFacts(steps[i])
  BY <1>4 DEF OutputFacts
<1>7. \A i \in DOMAIN steps : CompileAction(other, others[i]) = CompileAction(plan, steps[i])
  <2> HIDE DEF steps, others
  <2> QED BY <1>2, <1>4, <1>5, <1>6 DEF CompileAction
<1>8. CompileContract(other) = CompileContract(plan)
  <2> DEFINE goals(p, s) ==
        {RequirementFact(id) : id \in RequiredIds(p)}
          \cup UNION {{StepFact(s[i].id)} \cup OutputFacts(s[i]) : i \in DOMAIN s}
  <2> HIDE DEF steps, others
  <2>1. goals(other, others) = goals(plan, steps)
    BY <1>2, <1>3, <1>4, <1>6
  <2>2. [i \in DOMAIN others |-> CompileAction(other, others[i])] = [i \in DOMAIN steps |-> CompileAction(plan, steps[i])]
    BY <1>3, <1>7
  <2>3. /\ CompileContract(other) = [initial |-> {SourceFact(other)}, goals |-> goals(other, others),
                                     actions |-> [i \in DOMAIN others |-> CompileAction(other, others[i])]]
        /\ CompileContract(plan) = [initial |-> {SourceFact(plan)}, goals |-> goals(plan, steps),
                                    actions |-> [i \in DOMAIN steps |-> CompileAction(plan, steps[i])]]
    BY DEF CompileContract, steps, others
  <2> HIDE DEF goals
  <2> QED BY <1>5, <2>1, <2>2, <2>3
<1> QED BY <1>5, <1>8

\* What the compiler left has one contract: the one it makes of what it left
AsCompiled(plan) ==
  /\ OneAnchor(plan)
  /\ Compilable(plan)
  /\ FormalCheck(plan).contract = CompileContract(plan)
  /\ FormalCheck(plan).digest = CompileContract(plan)

LEMMA AsLeftIsCompiled ==
  ASSUME NEW plan, AsLeft(plan)
  PROVE  AsCompiled(plan)
<1>1. PICK source, asked, planner, required :
        IsPlan(source) /\ CompileSucceeds(source, asked) /\ plan = CompilePlan(source, asked, planner, required)
  BY DEF AsLeft
<1> DEFINE base == StripGeneratedChecks(source)
           at == AnchorAt(source, asked)
           contract == CompileContract(base)
           first == MakeFormalCheck(contract, planner, required)
           second == MakeSemanticCheck(contract)
<1>2. /\ IsPlan(plan) /\ plan.reqs = base.reqs /\ Agree(base.steps, plan.steps)
      /\ at \in DOMAIN base.steps
      /\ plan.steps[at].verify = <<first, second>> \o base.steps[at].verify
      /\ \A i \in DOMAIN base.steps : i # at => plan.steps[i].verify = base.steps[i].verify
  BY <1>1, CompiledParts
<1>3. /\ IsPlan(base) /\ DOMAIN base.steps = DOMAIN source.steps
      /\ \A i \in DOMAIN source.steps : base.steps[i].verify = OrdinaryChecks(source.steps[i].verify)
  BY <1>1, StripKeepsPlan DEF Agree
<1>4. ASSUME NEW i \in DOMAIN base.steps
      PROVE  /\ base.steps[i].verify \in Seq(ToSet(source.steps[i].verify))
             /\ \A j \in DOMAIN base.steps[i].verify : base.steps[i].verify[j].kind = "check"
  <2>1. source.steps[i].verify \in Seq(ToSet(source.steps[i].verify))
    BY <1>1, <1>3 DEF IsPlan, IsStep
  <2> DEFINE checks == source.steps[i].verify
             S == ToSet(checks)
  <2>2. base.steps[i].verify = OrdinaryChecks(checks)
    BY <1>3
  <2> HIDE DEF checks, S
  <2>3. checks \in Seq(S)
    BY <2>1 DEF checks, S
  <2>4. /\ OrdinaryChecks(checks) \in Seq(S)
        /\ \A j \in DOMAIN OrdinaryChecks(checks) : OrdinaryChecks(checks)[j].kind = "check"
    BY <2>3, OrdinaryChecksAre
  <2> QED BY <2>2, <2>4 DEF S, checks
<1>5. first.kind = "formal" /\ first.contract = contract /\ first.digest = contract /\ second.kind = "semantic"
  BY DEF MakeFormalCheck, MakeSemanticCheck
<1>6. Compilable(base)
  BY <1>1 DEF CompileSucceeds
<1> HIDE DEF base, at, contract, first, second
<1>7. \A i \in DOMAIN base.steps : OrdinaryChecks(plan.steps[i].verify) = OrdinaryChecks(base.steps[i].verify)
  <2> SUFFICES ASSUME NEW i \in DOMAIN base.steps
               PROVE  OrdinaryChecks(plan.steps[i].verify) = OrdinaryChecks(base.steps[i].verify)
    OBVIOUS
  <2>1. CASE i # at
    BY <1>2, <2>1
  <2>2. CASE i = at
    <3> DEFINE checks == base.steps[i].verify
               S == ToSet(source.steps[i].verify)
    <3>1. checks \in Seq(S) /\ \A j \in DOMAIN checks : checks[j].kind = "check"
      BY <1>4
    <3>2. plan.steps[i].verify = <<first, second>> \o checks
      BY <1>2, <2>2
    <3> HIDE DEF checks, S
    <3>3. OrdinaryChecks(checks) = checks /\ OrdinaryChecks(<<first, second>> \o checks) = checks
      BY <1>5, <3>1, GeneratedChecksAreLeftOut
    <3> QED BY <3>2, <3>3 DEF checks
  <2> QED BY <2>1, <2>2
<1>8. CompileContract(plan) = contract /\ Compilable(plan)
  BY <1>2, <1>3, <1>6, <1>7, AgreeSameContract, AgreeCompiles DEF contract
<1>9. DOMAIN plan.steps = DOMAIN base.steps
  BY <1>2 DEF Agree
<1>10. \A i \in DOMAIN plan.steps : \A j \in DOMAIN plan.steps[i].verify :
         plan.steps[i].verify[j].kind = "formal" <=> i = at /\ j = 1
  <2> SUFFICES ASSUME NEW i \in DOMAIN plan.steps, NEW j \in DOMAIN plan.steps[i].verify
               PROVE  plan.steps[i].verify[j].kind = "formal" <=> i = at /\ j = 1
    OBVIOUS
  <2>1. CASE i # at
    BY <1>2, <1>4, <1>9, <2>1
  <2>2. CASE i = at
    <3> DEFINE checks == base.steps[i].verify
               all == <<first, second>> \o checks
    <3>1. checks \in Seq(ToSet(source.steps[i].verify)) /\ \A k \in DOMAIN checks : checks[k].kind = "check"
      BY <1>4, <1>9
    <3>2. plan.steps[i].verify = all
      BY <1>2, <2>2
    <3> HIDE DEF checks
    <3>3. /\ DOMAIN all = 1..(Len(checks) + 2) /\ Len(checks) \in Nat /\ DOMAIN checks = 1..Len(checks)
          /\ all[1] = first /\ all[2] = second /\ \A k \in 1..Len(checks) : all[k + 2] = checks[k]
      BY <3>1
    <3> HIDE DEF all
    <3>4. CASE j = 1 \/ j = 2
      BY <1>5, <2>2, <3>2, <3>3, <3>4
    <3>5. CASE ~ (j = 1 \/ j = 2)
      <4>1. j - 2 \in 1..Len(checks) /\ j - 2 + 2 = j /\ j # 1
        BY <3>2, <3>3, <3>5
      <4>2. all[j] = checks[j - 2]
        BY <3>3, <4>1
      <4> QED BY <3>1, <3>2, <3>3, <4>1, <4>2
    <3> QED BY <3>4, <3>5
  <2> QED BY <2>1, <2>2
<1> DEFINE anchor == [step |-> at, check |-> 1]
<1>11. at \in DOMAIN plan.steps /\ 1 \in DOMAIN plan.steps[at].verify /\ plan.steps[at].verify[1] = first
  <2> DEFINE checks == base.steps[at].verify
             S == ToSet(source.steps[at].verify)
  <2>1. checks \in Seq(S)
    BY <1>2, <1>4
  <2>2. plan.steps[at].verify = <<first, second>> \o checks
    BY <1>2
  <2> HIDE DEF checks, S
  <2>3. 1 \in DOMAIN (<<first, second>> \o checks) /\ (<<first, second>> \o checks)[1] = first
    BY <2>1
  <2> QED BY <1>2, <1>9, <2>2, <2>3
<1>12. Anchors(plan) = {anchor}
  <2>1. anchor \in Anchors(plan)
    BY <1>10, <1>11 DEF Anchors
  <2>2. ASSUME NEW a \in Anchors(plan) PROVE a = anchor
    <3>1. PICK i \in DOMAIN plan.steps : \E j \in DOMAIN plan.steps[i].verify :
            plan.steps[i].verify[j].kind = "formal" /\ a = [step |-> i, check |-> j]
      BY DEF Anchors
    <3> QED BY <1>10, <3>1
  <2> QED BY <2>1, <2>2
<1>13. OneAnchor(plan) /\ FormalCheck(plan) = first
  <2>1. anchor.step = at /\ anchor.check = 1
    OBVIOUS
  <2> HIDE DEF anchor
  <2>2. FormalCheck(plan) = CheckAt(plan, anchor)
    BY <1>12 DEF FormalCheck
  <2>3. CheckAt(plan, anchor) = first
    BY <1>11, <2>1 DEF CheckAt
  <2> QED BY <1>12, <2>2, <2>3 DEF OneAnchor
<1> QED BY <1>5, <1>8, <1>13 DEF AsCompiled

\* The names under which the compiler knows an output have no blanks around them
LEMMA OutputNamesAreStripped ==
  ASSUME NEW step, NEW name, OutputFact(step.id, name) \in OutputFacts(step)
  PROVE  name \notin DOMAIN Padded
<1>1. PICK other \in ToSet(StepOutputNames(step)) : OutputFact(step.id, name) = OutputFact(step.id, other)
  BY DEF OutputFacts
<1>2. name = other
  BY <1>1, FactsAreDistinct
<1>3. \E i \in DOMAIN step.outputs : name = StripName(step.outputs[i].name)
  BY <1>1, <1>2 DEF ToSet, StepOutputNames
<1> QED BY <1>3, PaddedAssumption DEF StripName

\* A required output that the compiled contract knows has no blanks around its name
LEMMA KnownIsNotPadded ==
  ASSUME NEW plan, ContractValid(plan, CompileContract(plan))
  PROVE  NoPaddedNames(plan)
<1> SUFFICES ASSUME NEW i \in DOMAIN plan.steps, NEW ref \in RequiredOutputs(plan.steps[i])
             PROVE  ref.name \notin DOMAIN Padded
  BY DEF NoPaddedNames
<1> DEFINE contract == CompileContract(plan)
<1>1. /\ DOMAIN contract.actions = DOMAIN plan.steps
      /\ \A j \in DOMAIN plan.steps : contract.actions[j] = CompileAction(plan, plan.steps[j])
  BY DEF CompileContract
<1> HIDE DEF contract
<1>2. OutputFact(ref.step, ref.name) \in CompileAction(plan, plan.steps[i]).pre
  BY DEF CompileAction
<1>3. OutputFact(ref.step, ref.name) \in KnownSources(contract)
  BY <1>1, <1>2 DEF ContractValid, contract
<1>4. PICK j \in DOMAIN plan.steps : /\ plan.steps[j].id = ref.step
                                     /\ OutputFact(ref.step, ref.name) \in OutputFacts(plan.steps[j])
  BY <1>3, OutputComesFrom, Zenon DEF contract
<1>5. OutputFact(plan.steps[j].id, ref.name) \in OutputFacts(plan.steps[j])
  BY <1>4
<1> QED BY <1>5, OutputNamesAreStripped, Zenon

\* Every step of a plan without a cycle is in the topological order
LEMMA OrderHasAll ==
  ASSUME NEW plan, IsPlan(plan), Acyclic(plan.steps)
  PROVE  ToSet(TopologicalOrder(plan.steps)) = Ids(plan.steps)
<1> DEFINE steps == plan.steps
           order == TopologicalOrder(steps)
           ids == Ids(steps)
<1>1. steps \in Seq(ToSet(steps))
  BY DEF IsPlan
<1>2. Len(order) = Cardinality(ids)
  BY DEF Acyclic, GraphValid, StepIndexed
<1>3. order \in Seq(ids) /\ IsInjective(order)
  BY <1>1, OrderIsOrdered DEF Ordered
<1>4. IsFiniteSet(ids)
  <2> DEFINE F == [i \in DOMAIN steps |-> steps[i].id]
  <2>1. F \in Surjection(DOMAIN steps, ids)
    BY DEF Surjection, Ids
  <2>2. IsFiniteSet(DOMAIN steps)
    <3>1. Len(steps) \in Nat /\ DOMAIN steps = 1..Len(steps)
      BY <1>1
    <3> QED BY <3>1, FS_Interval
  <2> HIDE DEF F, ids, steps
  <2> QED BY <2>1, <2>2, FS_Surjection
<1> HIDE DEF order, ids
<1>5. ToSet(order) = ids
  BY <1>2, <1>3, <1>4, FullIsAll
<1> QED BY <1>5 DEF order, ids

\* The steps that make a step wait are steps, with valid output links
LEMMA DependenciesAreSteps ==
  ASSUME NEW plan, IsPlan(plan), Acyclic(plan.steps), NEW id \in Ids(plan.steps)
  PROVE  TransitiveDependencies(plan.steps)[id] \subseteq Ids(plan.steps)
<1> DEFINE steps == plan.steps
           order == TopologicalOrder(steps)
<1>1. steps \in Seq(ToSet(steps)) /\ GraphValid(steps)
  BY DEF IsPlan, Acyclic
<1>2. ToSet(order) = Ids(steps)
  BY OrderHasAll
<1>3. order \in Seq(Ids(steps))
  BY <1>1, OrderIsOrdered DEF Ordered
<1>4. \A n \in DOMAIN order : TransitiveDependencies(steps)[order[n]] \subseteq Before(order, n)
  BY <1>1, DependenciesComeBefore
<1> HIDE DEF order
<1>5. PICK n \in DOMAIN order : order[n] = id
  BY <1>2 DEF ToSet
<1>6. Before(order, n) \subseteq Ids(steps)
  BY <1>3 DEF Before
<1> QED BY <1>4, <1>5, <1>6

\* What compiles, with valid output links and no blanks around names, compiles to a
\* contract without a structural error
LEMMA CompiledIsValid ==
  ASSUME NEW plan, IsPlan(plan), Compilable(plan), OutputLinksValid(plan.steps), NoPaddedNames(plan)
  PROVE  ContractValid(plan, CompileContract(plan))
<1> DEFINE contract == CompileContract(plan)
           steps == plan.steps
           known == KnownSources(contract)
           actions == contract.actions
<1>1. /\ actions = [i \in DOMAIN steps |-> CompileAction(plan, steps[i])]
      /\ contract.initial = {SourceFact(plan)}
      /\ contract.goals = {RequirementFact(id) : id \in RequiredIds(plan)}
                            \cup UNION {{StepFact(steps[i].id)} \cup OutputFacts(steps[i]) : i \in DOMAIN steps}
  BY DEF CompileContract
<1>2. \A i \in DOMAIN steps :
        /\ CompileAction(plan, steps[i]).step = steps[i].id
        /\ CompileAction(plan, steps[i]).del = {}
        /\ CompileAction(plan, steps[i]).pre =
             {SourceFact(plan)} \cup {OutputFact(ref.step, ref.name) : ref \in RequiredOutputs(steps[i])}
        /\ CompileAction(plan, steps[i]).add =
             {StepFact(steps[i].id)} \cup OutputFacts(steps[i])
               \cup {RequirementFact(id) : id \in ToSet(Covers(steps[i])) \cap RequiredIds(plan)}
  BY DEF CompileAction
<1>3. steps \in Seq(ToSet(steps)) /\ Len(steps) \in Nat /\ DOMAIN steps = 1..Len(steps)
  BY DEF IsPlan
<1>4. GraphValid(steps) /\ Cardinality(Ids(steps)) = Len(steps) /\ Acyclic(steps)
  BY DEF OutputLinksValid, Acyclic, GraphValid, StepIndexed
<1> HIDE DEF contract
<1>5. known = contract.initial \cup UNION {actions[i].add : i \in DOMAIN actions}
  BY DEF KnownSources
<1> HIDE DEF steps, known, actions
<1>6. \A i \in DOMAIN steps : CompileAction(plan, steps[i]).add \subseteq known
  BY <1>1, <1>5
<1>7. contract.goals # {}
  <2>1. RequiredIds(plan) # {}
    BY DEF Compilable
  <2> QED BY <1>1, <2>1
<1>8. {actions[i].step : i \in DOMAIN actions} = Ids(steps) /\ DOMAIN actions = DOMAIN steps
  BY <1>1, <1>2 DEF Ids
<1>9. Len(actions) = Len(steps)
  BY <1>1, <1>3
<1>10. Distinct([i \in DOMAIN actions |-> actions[i].step])
  <2> DEFINE names == [i \in DOMAIN actions |-> actions[i].step]
  <2>1. Len(names) = Len(steps)
    BY <1>3, <1>8
  <2>2. ToSet(names) = Ids(steps)
    BY <1>8 DEF ToSet
  <2> HIDE DEF names
  <2>3. Distinct(names)
    BY <1>4, <2>1, <2>2 DEF Distinct
  <2> QED BY <2>3 DEF names
<1>11. ASSUME NEW i \in DOMAIN steps, NEW ref \in RequiredOutputs(steps[i])
       PROVE  OutputFact(ref.step, ref.name) \in known
  <2>1. /\ ref.step \in TransitiveDependencies(steps)[steps[i].id]
        /\ ref.name \in OutputIndex(StepOf(steps, ref.step))
    BY DEF OutputLinksValid, steps
  <2>2. steps[i].id \in Ids(steps)
    BY DEF Ids
  <2>3. ref.step \in Ids(steps)
    BY <1>4, <2>1, <2>2, DependenciesAreSteps DEF steps
  <2>4. PICK j \in DOMAIN steps : StepOf(steps, ref.step) = steps[j] /\ steps[j].id = ref.step
    BY <2>3, StepOfIs
  <2>5. PICK k \in DOMAIN steps[j].outputs : ref.name = steps[j].outputs[k].name
    BY <2>1, <2>4 DEF OutputIndex
  <2>6. ref.name \notin DOMAIN Padded
    BY DEF NoPaddedNames, steps
  <2>7. ref.name \in ToSet(StepOutputNames(steps[j]))
    BY <2>5, <2>6 DEF ToSet, StepOutputNames, StripName
  <2>8. OutputFact(ref.step, ref.name) \in OutputFacts(steps[j])
    BY <2>4, <2>7 DEF OutputFacts
  <2> QED BY <1>2, <1>6, <2>8
<1>12. \A i \in DOMAIN actions : /\ actions[i].add \cap actions[i].del = {}
                                 /\ actions[i].pre \cup actions[i].del \subseteq known
  <2>1. ASSUME NEW i \in DOMAIN steps PROVE CompileAction(plan, steps[i]).pre \subseteq known
    BY <1>1, <1>2, <1>5, <1>11
  <2> QED BY <1>1, <1>2, <2>1
<1>13. contract.goals \subseteq known
  <2>1. ASSUME NEW id \in RequiredIds(plan) PROVE RequirementFact(id) \in known
    <3>1. PICK i \in DOMAIN steps : id \in ToSet(Covers(steps[i]))
      BY DEF Compilable, CoveredIds, steps
    <3>2. RequirementFact(id) \in CompileAction(plan, steps[i]).add
      BY <1>2, <3>1
    <3> QED BY <1>6, <3>2
  <2>2. \A i \in DOMAIN steps : {StepFact(steps[i].id)} \cup OutputFacts(steps[i]) \subseteq known
    BY <1>2, <1>6
  <2> QED BY <1>1, <2>1, <2>2
<1> QED BY <1>4, <1>7, <1>8, <1>9, <1>10, <1>12, <1>13 DEF ContractValid, contract, known, actions, steps

\* What the compiler left passes if no output is required by a name with blanks around it
LEMMA CompiledPasses ==
  ASSUME NEW plan, IsPlan(plan), AsCompiled(plan), OutputLinksValid(plan.steps), NEW max \in Nat
  PROVE  AnalyzeFormalContract(plan, max).verdict = "PASS" <=> NoPaddedNames(plan)
<1> DEFINE formal == AnalyzeFormalContract(plan, max)
           contract == CompileContract(plan)
           deps == EffectiveDependencies(plan.steps)
<1>1. /\ OneAnchor(plan) /\ Anchors(plan) # {} /\ Compilable(plan)
      /\ FormalCheck(plan).contract = contract /\ AnchorArgvValid(FormalCheck(plan))
  BY DEF AsCompiled, OneAnchor, AnchorArgvValid
<1>2. ASSUME formal.verdict = "PASS" PROVE NoPaddedNames(plan)
  <2>1. HasOneContract(plan)
    BY <1>1, <1>2, PassHasOneContract
  <2>2. ContractValid(plan, contract)
    BY <1>1, <2>1 DEF HasOneContract
  <2> QED BY <2>2, KnownIsNotPadded
<1>3. ASSUME NoPaddedNames(plan) PROVE formal.verdict = "PASS"
  <2>1. ContractValid(plan, contract)
    BY <1>1, <1>3, CompiledIsValid
  <2>2. HasOneContract(plan)
    BY <1>1, <2>1 DEF HasOneContract
  <2>3. Monotonic(contract)
    BY DEF Monotonic, CompileContract, CompileAction
  <2>4. Solves(contract, deps, TopologicalOrder(plan.steps))
    BY <2>1, GeneratedSolves
  <2> HIDE DEF formal, contract, deps
  <2>5. Right(contract, deps, formal, max) /\ formal.verdict \in {"PASS", "REJECT"}
    BY <1>1, <2>2, <2>3, AnalysisIsRight DEF formal, deps
  <2>6. formal.verdict # "REJECT"
    BY <2>4, <2>5 DEF Right
  <2> QED BY <2>5, <2>6
<1> QED BY <1>2, <1>3

\* ... and whatever its names, the contract is the one the plan compiles to, earns its goals
\* and has no action without an effect
LEMMA CompiledIsBound ==
  ASSUME NEW plan, AsCompiled(plan)
  PROVE  /\ IsGenerated(CompileContract(plan))
         /\ GeneratedValid(plan, CompileContract(plan))
         /\ SemanticsValid(plan)
<1> DEFINE contract == CompileContract(plan)
           steps == plan.steps
<1>1. /\ contract.initial = {SourceFact(plan)}
      /\ DOMAIN contract.actions = DOMAIN steps
      /\ \A i \in DOMAIN steps : contract.actions[i] = CompileAction(plan, steps[i])
      /\ \A id \in RequiredIds(plan) : RequirementFact(id) \in contract.goals
  BY DEF CompileContract
<1>2. SourceMarkers(contract) = {SourceFact(plan)}
  BY <1>1 DEF SourceMarkers, SourceFact
<1>3. IsGenerated(contract)
  BY <1>2 DEF IsGenerated
<1>4. GeneratedValid(plan, contract)
  BY <1>2 DEF GeneratedValid, AsCompiled
<1> HIDE DEF contract
<1>5. \A i \in DOMAIN steps :
        /\ CompileAction(plan, steps[i]).step = steps[i].id
        /\ CompileAction(plan, steps[i]).add =
             {StepFact(steps[i].id)} \cup OutputFacts(steps[i])
               \cup {RequirementFact(id) : id \in ToSet(Covers(steps[i])) \cap RequiredIds(plan)}
  BY DEF CompileAction
<1>6. \A i \in DOMAIN contract.actions : contract.actions[i].add \cup contract.actions[i].del # {}
  BY <1>1, <1>5
<1>7. \A x, y : /\ RequirementFact(x) # StepFact(y) /\ RequirementFact(x) # SourceFact(plan)
                /\ RequirementFact(x) = RequirementFact(y) => x = y
  BY DEF RequirementFact, StepFact, SourceFact
<1>8. ASSUME NEW req \in RequiredIds(plan) PROVE Earned(plan, contract, req)
  <2> DEFINE fact == RequirementFact(req)
  <2>1. fact \in contract.goals \ contract.initial
    BY <1>1, <1>7
  <2>2. \A i \in DOMAIN steps : fact \in CompileAction(plan, steps[i]).add <=> req \in ToSet(Covers(steps[i]))
    <3> SUFFICES ASSUME NEW i \in DOMAIN steps
                 PROVE  fact \in CompileAction(plan, steps[i]).add <=> req \in ToSet(Covers(steps[i]))
      OBVIOUS
    <3>1. fact # StepFact(steps[i].id)
      BY <1>7
    <3>2. fact \notin OutputFacts(steps[i])
      BY FactsAreDistinct DEF OutputFacts
    <3>3. fact \in {RequirementFact(id) : id \in ToSet(Covers(steps[i])) \cap RequiredIds(plan)}
            <=> req \in ToSet(Covers(steps[i]))
      BY <1>7
    <3> HIDE DEF fact
    <3> QED BY <1>5, <3>1, <3>2, <3>3
  <2> HIDE DEF fact
  <2>3. PICK i \in DOMAIN steps : req \in ToSet(Covers(steps[i]))
    BY DEF AsCompiled, Compilable, CoveredIds
  <2>4. Producers(contract, fact) # {}
    BY <1>1, <2>2, <2>3 DEF Producers
  <2>5. Producers(contract, fact) \subseteq CoveringSteps(plan, req)
    BY <1>1, <1>5, <2>2 DEF Producers, CoveringSteps
  <2> QED BY <2>1, <2>4, <2>5 DEF Earned, fact
<1>9. SemanticsValid(plan)
  BY <1>4, <1>6, <1>8 DEF SemanticsValid, AsCompiled, contract
<1> QED BY <1>3, <1>4, <1>9 DEF contract

LEMMA InvCompiledIsAccepted == PlanInv => CompiledIsAccepted
<1> SUFFICES ASSUME PlanInv PROVE CompiledIsAccepted
  OBVIOUS
<1>1. \A p \in compiled : p \in DOMAIN plans /\ AsCompiled(plans[p])
  BY AsLeftIsCompiled DEF PlanInv, CompiledAreAsLeft
<1>2. ASSUME report.kind = "plan", report.plan \in compiled, OutputLinksValid(JudgedPlan.steps)
      PROVE  report.result.formal.verdict = "PASS" <=> NoPaddedNames(JudgedPlan)
  <2>1. /\ JudgedPlan = plans[report.plan] /\ IsPlan(JudgedPlan)
        /\ report.result.formal = AnalyzeFormalContract(JudgedPlan, MaxSearchStates)
    BY <1>2, PlanReports
  <2>2. AsCompiled(JudgedPlan)
    BY <1>1, <1>2, <2>1
  <2> QED BY <1>2, <2>1, <2>2, CompiledPasses, BoundsAssumption
<1>3. ASSUME report.kind = "formalize", compiled = DOMAIN plans, compiled # {} PROVE report.ok
  <2> DEFINE matches == {m \in Matches(plans, None) : IsGenerated(MatchedCheck(plans, m).contract)}
  <2>1. report = FormalizeReport
    BY <1>3 DEF PlanInv, ReportIsCurrent, None, PlanReport, FormalReport
  <2>2. ASSUME NEW p \in DOMAIN plans, NEW at \in Anchors(plans[p])
        PROVE  CheckAt(plans[p], at).contract = CompileContract(plans[p])
    <3>1. AsCompiled(plans[p])
      BY <1>1, <1>3
    <3>2. FormalCheck(plans[p]) = CheckAt(plans[p], at)
      BY <3>1 DEF AsCompiled, OneAnchor, FormalCheck
    <3> QED BY <3>1, <3>2 DEF AsCompiled
  <2>3. matches # {}
    <3>1. PICK p \in DOMAIN plans : AsCompiled(plans[p])
      BY <1>1, <1>3
    <3>2. PICK at \in Anchors(plans[p]) : TRUE
      BY <3>1 DEF AsCompiled, OneAnchor
    <3> DEFINE m == [plan |-> p, at |-> at]
    <3>3. m \in Matches(plans, None)
      BY DEF Matches
    <3>4. MatchedCheck(plans, m).contract = CompileContract(plans[p])
      BY <2>2 DEF MatchedCheck
    <3> HIDE DEF m
    <3> QED BY <3>1, <3>3, <3>4, CompiledIsBound
  <2>4. ASSUME NEW m \in matches
        PROVE  /\ GeneratedValid(plans[m.plan], MatchedCheck(plans, m).contract)
               /\ SemanticsValid(plans[m.plan])
    <3>1. PICK p \in DOMAIN plans : \E at \in Anchors(plans[p]) : m = [plan |-> p, at |-> at]
      BY DEF Matches
    <3>2. PICK at \in Anchors(plans[p]) : m = [plan |-> p, at |-> at]
      BY <3>1
    <3>3. m.plan = p /\ m.at = at
      BY <3>2
    <3>4. MatchedCheck(plans, m).contract = CompileContract(plans[p])
      BY <2>2, <3>3 DEF MatchedCheck
    <3>5. AsCompiled(plans[p])
      BY <1>1, <1>3
    <3> QED BY <3>3, <3>4, <3>5, CompiledIsBound
  <2>5. VerifyFormalizations(plans, None)
    <3> HIDE DEF matches
    <3> QED BY <2>3, <2>4 DEF VerifyFormalizations, matches
  <2> QED BY <2>1, <2>5 DEF FormalizeReport
<1> QED BY <1>2, <1>3 DEF CompiledIsAccepted

\* What compile_plan leaves in a plan is what the verifiers accept: the recompilation of
\* formal_compiler.py finds the same contract although the plan now has it, and the internal
\* planner passes it, unless an output is required by a name with blanks around it.
THEOREM CompiledCorrect == Spec => []CompiledIsAccepted
<1>1. PlanInv => CompiledIsAccepted
  BY InvCompiledIsAccepted
<1> QED BY <1>1, InvCorrect, PTL
=============================================================================
