------------------------------ MODULE SolveProofs ------------------------------
(***************************************************************************)
(* Proofs about the search of one world, for any horizon, any number of    *)
(* candidates, sweeps and decisions, any payoffs and any branch the policy *)
(* samples or UCB1 prefers: every candidate of the root is tried and       *)
(* valued, and none is starved; visits and depths agree along the tree,    *)
(* by induction over the finite sets the sums are made of. And about the   *)
(* worlds a solve samples, for any decisions: they can be dealt.           *)
(***************************************************************************)
EXTENDS Solve, SequenceTheorems, FiniteSetTheorems, TLAPS

(***************************************************************************)
(* The inductive invariant.                                                *)
(***************************************************************************)
\* A record of the arena.
IsNode(x) ==
  /\ x = [kind |-> x.kind, hero_depth |-> x.hero_depth, stack |-> x.stack,
          candidates |-> x.candidates, children |-> x.children, visits |-> x.visits,
          value_sum |-> x.value_sum, head |-> x.head, final |-> x.final]
  /\ x.children \in Seq(Nat)
  /\ x.visits \in Nat
  /\ x.head \in Nat

\* The arena is a tree: a child comes after its parent and has no other.
ArenaInv ==
  /\ nodes \in Seq(Range(nodes))
  /\ \A n \in DOMAIN nodes : IsNode(nodes[n]) /\ Children(n) \subseteq n + 1 .. Len(nodes)
  /\ \A m, n \in DOMAIN nodes : m # n => Children(m) \cap Children(n) = {}
  /\ root \in DOMAIN nodes
  /\ nodes[root].kind = "Decision"

\* The children of a node of an arena.
Branches(arena, n) == {arena[n].children[i] : i \in DOMAIN arena[n].children}

\* A way down from the root, through one of its branches.
WayDown(p, arena, top) ==
  /\ p \in Seq(DOMAIN arena)
  /\ p # <<>> => p[1] = top
  /\ \A i \in 2 .. Len(p) : p[i] > top
  /\ Len(p) >= 2 => p[2] \in Branches(arena, top)
  /\ \A i \in 3 .. Len(p) : p[i] \notin Branches(arena, top)

PathInv ==
  /\ WayDown(path, nodes, root)
  /\ grown \in BOOLEAN
  /\ grown => Len(path) >= 2

\* The iteration has opened a branch of the root.
NewBranch == grown /\ Len(path) = 2

\* What is still to be expanded is new, and no branch of the root but the one
\* that is opened.
FreshInv ==
  \A n \in fresh :
    /\ n \in DOMAIN nodes
    /\ nodes[n].kind = "Chance"
    /\ nodes[n].children = <<>>
    /\ grown
    /\ n \in Children(root) => NewBranch /\ n = path[2]

\* Every node was played out, but for the one the iteration ends with.
PlayedInv ==
  /\ \A n \in DOMAIN nodes \ {1} : nodes[n].visits > 0 \/ (grown /\ n = path[Len(path)])
  /\ phase = "Rest" => ~Untried(root)

\* The branches of the root that were opened before.
Settled == Children(root) \ {n \in DOMAIN nodes : NewBranch /\ n = path[2]}

\* While branches are opened, none has had more than its head; afterwards an
\* iteration takes one that had least.
ShareInv ==
  /\ NewBranch \/ Untried(root) => \A c \in Settled : nodes[c].visits <= nodes[c].head
  /\ ~NewBranch => \A c, d \in Children(root) :
       nodes[c].visits <= nodes[c].head \/ nodes[c].visits <= nodes[d].visits + 1
  /\ Len(path) >= 2 /\ ~NewBranch =>
       /\ ~Untried(root)
       /\ \A d \in Children(root) : nodes[path[2]].visits <= nodes[d].visits

TreeInv == ArenaInv /\ PathInv /\ FreshInv /\ PlayedInv /\ ShareInv

(***************************************************************************)
(* What the steps of the search do to a record.                            *)
(***************************************************************************)
\* x with other values in the fields a step may change.
With(x, depth, children, visits, sum, head, final) ==
  [kind |-> x.kind, hero_depth |-> depth, stack |-> x.stack,
   candidates |-> x.candidates, children |-> children, visits |-> visits,
   value_sum |-> sum, head |-> head, final |-> final]

\* A playout counts one visit.
LEMMA VisitedIs ==
  ASSUME NEW x, IsNode(x), NEW f
  PROVE  Visited(x, f) = With(x, x.hero_depth, x.children, x.visits + 1,
                              x.value_sum + f - baseline, x.head, x.final + f)
<1> DEFINE a == x.visits + 1
           b == x.value_sum + f - baseline
           c == x.final + f
<1>1. Visited(x, f) = [[[x EXCEPT !.visits = a] EXCEPT !.value_sum = b] EXCEPT !.final = c]
  BY DEF Visited
<1>2. x = With(x, x.hero_depth, x.children, x.visits, x.value_sum, x.head, x.final)
  BY DEF IsNode, With
<1>3. \A v : [x EXCEPT !.visits = v] = With(x, x.hero_depth, x.children, v, x.value_sum, x.head, x.final)
  BY <1>2 DEF With
<1>. HIDE DEF a, b, c
<1>4. ASSUME NEW t, t = With(x, x.hero_depth, x.children, a, x.value_sum, x.head, x.final)
      PROVE  [t EXCEPT !.value_sum = b] = With(x, x.hero_depth, x.children, a, b, x.head, x.final)
  BY <1>4 DEF With
<1>5. ASSUME NEW t, t = With(x, x.hero_depth, x.children, a, b, x.head, x.final)
      PROVE  [t EXCEPT !.final = c] = With(x, x.hero_depth, x.children, a, b, x.head, c)
  BY <1>5 DEF With
<1>6. Visited(x, f) = With(x, x.hero_depth, x.children, a, b, x.head, c)
  BY <1>1, <1>3, <1>4, <1>5, Zenon
<1>. QED
  BY <1>6 DEF a, b, c

\* A warm start counts one for every child.
LEMMA WarmedIs ==
  ASSUME NEW x, IsNode(x), NEW children, NEW finals
  PROVE  \E sum, final :
           Warmed(x, children, finals)
             = With(x, x.hero_depth, children, x.visits + Len(children), sum, x.head, final)
<1> DEFINE a == x.visits + Len(children)
           b == x.value_sum + Summed_finals(finals) - Len(children) * baseline
           c == x.final + Summed_finals(finals)
<1>1. Warmed(x, children, finals)
        = [[[[x EXCEPT !.children = children] EXCEPT !.visits = a] EXCEPT !.value_sum = b] EXCEPT !.final = c]
  BY DEF Warmed
<1>2. x = With(x, x.hero_depth, x.children, x.visits, x.value_sum, x.head, x.final)
  BY DEF IsNode, With
<1>. HIDE DEF a, b, c
<1>3. [x EXCEPT !.children = children]
        = With(x, x.hero_depth, children, x.visits, x.value_sum, x.head, x.final)
  BY <1>2 DEF With
<1>4. ASSUME NEW t, t = With(x, x.hero_depth, children, x.visits, x.value_sum, x.head, x.final)
      PROVE  [t EXCEPT !.visits = a] = With(x, x.hero_depth, children, a, x.value_sum, x.head, x.final)
  BY <1>4 DEF With
<1>5. ASSUME NEW t, t = With(x, x.hero_depth, children, a, x.value_sum, x.head, x.final)
      PROVE  [t EXCEPT !.value_sum = b] = With(x, x.hero_depth, children, a, b, x.head, x.final)
  BY <1>5 DEF With
<1>6. ASSUME NEW t, t = With(x, x.hero_depth, children, a, b, x.head, x.final)
      PROVE  [t EXCEPT !.final = c] = With(x, x.hero_depth, children, a, b, x.head, c)
  BY <1>6 DEF With
<1>7. Warmed(x, children, finals) = With(x, x.hero_depth, children, a, b, x.head, c)
  BY <1>1, <1>3, <1>4, <1>5, <1>6, Zenon
<1>. QED
  BY <1>7 DEF a

\* One field at a time.
LEMMA FieldIs ==
  ASSUME NEW x, IsNode(x), NEW v
  PROVE  /\ [x EXCEPT !.children = v] = With(x, x.hero_depth, v, x.visits, x.value_sum, x.head, x.final)
         /\ [x EXCEPT !.head = v] = With(x, x.hero_depth, x.children, x.visits, x.value_sum, v, x.final)
         /\ [x EXCEPT !.hero_depth = v] = With(x, v, x.children, x.visits, x.value_sum, x.head, x.final)
<1>1. x = With(x, x.hero_depth, x.children, x.visits, x.value_sum, x.head, x.final)
  BY DEF IsNode, With
<1>2. [x EXCEPT !.children = v] = With(x, x.hero_depth, v, x.visits, x.value_sum, x.head, x.final)
  BY <1>1 DEF With
<1>3. [x EXCEPT !.head = v] = With(x, x.hero_depth, x.children, x.visits, x.value_sum, v, x.final)
  BY <1>1 DEF With
<1>4. [x EXCEPT !.hero_depth = v] = With(x, v, x.children, x.visits, x.value_sum, x.head, x.final)
  BY <1>1 DEF With
<1>. QED
  BY <1>2, <1>3, <1>4

\* The fields of what is made.
LEMMA WithIs ==
  ASSUME NEW x, NEW depth, NEW children \in Seq(Nat), NEW visits \in Nat, NEW sum,
         NEW head \in Nat, NEW final,
         NEW y, y = With(x, depth, children, visits, sum, head, final)
  PROVE  /\ IsNode(y)
         /\ y.kind = x.kind
         /\ y.candidates = x.candidates
         /\ y.children = children
         /\ y.visits = visits
         /\ y.head = head
         /\ y.hero_depth = depth
         /\ y.value_sum = sum
         /\ y.final = final
<1>1. /\ y.kind = x.kind /\ y.hero_depth = depth /\ y.stack = x.stack
      /\ y.candidates = x.candidates /\ y.children = children /\ y.visits = visits
      /\ y.value_sum = sum /\ y.head = head /\ y.final = final
  BY DEF With
<1>. QED
  BY <1>1 DEF IsNode, With

\* A new node.
LEMMA NewNodeIs ==
  ASSUME NEW kind, NEW depth, NEW stack, NEW width, NEW y, y = NewNode(kind, depth, stack, width)
  PROVE  /\ IsNode(y)
         /\ y.kind = kind
         /\ y.hero_depth = depth
         /\ y.candidates = width
         /\ y.children = <<>>
         /\ y.visits = 0
         /\ y.head = 0
<1>1. /\ y.kind = kind /\ y.hero_depth = depth /\ y.stack = stack
      /\ y.candidates = width /\ y.children = <<>> /\ y.visits = 0
      /\ y.value_sum = 0 /\ y.head = 0 /\ y.final = 0
  BY DEF NewNode
<1>. QED
  BY <1>1 DEF IsNode, NewNode

\* What an action leads to is new, one deeper, and nothing but a leaf at the
\* horizon.
LEMMA SuccessorsAreNew ==
  ASSUME NEW n, NEW y \in Successors(n)
  PROVE  /\ IsNode(y) /\ y.children = <<>> /\ y.visits = 0 /\ y.head = 0
         /\ y.hero_depth = nodes[n].hero_depth + 1
         /\ y.kind # "Leaf" => ~(nodes[n].hero_depth + 1 >= max_depth)
<1> DEFINE depth == nodes[n].hero_depth + 1
<1>1. PICK kind \in Kinds(depth) : \E s, k : y = NewNode(kind, depth, s, k)
  BY DEF Successors
<1>2. kind # "Leaf" => ~(depth >= max_depth)
  BY DEF Kinds
<1>. HIDE DEF depth
<1>3. IsNode(y) /\ y.children = <<>> /\ y.visits = 0 /\ y.head = 0 /\ y.kind = kind /\ y.hero_depth = depth
  BY <1>1, NewNodeIs
<1>. QED
  BY <1>2, <1>3 DEF depth

(***************************************************************************)
(* Induction: sets of naturals have a least element, and finite sets are   *)
(* built up from their subsets.                                            *)
(***************************************************************************)
LEMMA FiniteInduction ==
  ASSUME NEW S, IsFiniteSet(S), NEW D,
         ASSUME NEW T \in SUBSET S, \A U \in SUBSET T : U # T => U \in D
         PROVE  T \in D
  PROVE  SUBSET S \subseteq D
<1> DEFINE R == StrictSubsetOrdering(S)
           F == SUBSET S
           Out == (SUBSET S) \ D
<1>1. IsWellFoundedOn(R, F)
  BY FS_StrictSubsetOrderingWellFounded, FS_FiniteSubsetsOfFinite, Zenon
<1> SUFFICES ASSUME Out # {} PROVE FALSE
  OBVIOUS
<1>2. PICK T \in Out : \A U \in Out : ~ (<<U, T>> \in R)
  <2>1. Out \subseteq F
    OBVIOUS
  <2>. HIDE DEF R, F, Out
  <2>. QED
    BY <1>1, <2>1, WFMin
<1>3. ASSUME NEW U \in SUBSET T, U # T PROVE U \in D
  <2>1. <<U, T>> \in R
    BY <1>3 DEF StrictSubsetOrdering
  <2>. QED
    BY <1>2, <1>3, <2>1
<1>. QED
  BY <1>2, <1>3

LEMMA Least ==
  ASSUME NEW T, T \subseteq Nat, T # {}
  PROVE  \E x \in T : \A y \in T : x <= y
<1> SUFFICES ASSUME \A x \in T : \E y \in T : y < x PROVE FALSE
  OBVIOUS
<1>1. PICK n : n \in T
  OBVIOUS
<1> DEFINE D == {U \in SUBSET (0 .. n) : \A x \in T : U # 0 .. x}
<1>2. IsFiniteSet(0 .. n)
  BY <1>1, FS_Interval
<1>3. ASSUME NEW V \in SUBSET (0 .. n), \A U \in SUBSET V : U # V => U \in D
      PROVE  V \in D
  <2> SUFFICES ASSUME NEW x \in T, V = 0 .. x PROVE FALSE
    OBVIOUS
  <2>1. PICK y \in T : y < x
    OBVIOUS
  <2>2. 0 .. y \in SUBSET V /\ 0 .. y # V
    <3>1. x \in V /\ x \notin 0 .. y
      BY <2>1
    <3>. QED
      BY <2>1, <3>1
  <2>3. 0 .. y \in D
    BY <2>2, <1>3
  <2>. QED
    BY <2>3
<1>4. SUBSET (0 .. n) \subseteq D
  <2> DEFINE S == 0 .. n
  <2>1. IsFiniteSet(S)
    BY <1>2
  <2>2. ASSUME NEW V \in SUBSET S, \A U \in SUBSET V : U # V => U \in D
        PROVE  V \in D
    BY <1>3, <2>2
  <2>. HIDE DEF D, S
  <2>3. SUBSET S \subseteq D
    BY <2>1, <2>2, FiniteInduction
  <2>. QED
    BY <2>3 DEF S
<1>. QED
  BY <1>1, <1>4

(***************************************************************************)
(* Sums.                                                                   *)
(***************************************************************************)
IsSum(f, S, g) ==
  g = [s \in SUBSET S |-> IF s = {} THEN 0
                          ELSE f[CHOOSE x \in s : TRUE] + g[s \ {CHOOSE x \in s : TRUE}]]

LEMMA SumIs == \A f, S : SumFunctionOnSet(f, S) = (CHOOSE g : IsSum(f, S, g))[S]
  BY DEF SumFunctionOnSet, FoldFunctionOnSet, MapThenFoldSet, IsSum

LEMMA SumStep ==
  ASSUME NEW f, NEW S, NEW g, IsSum(f, S, g), NEW s \in SUBSET S
  PROVE  g[s] = IF s = {} THEN 0
                ELSE f[CHOOSE x \in s : TRUE] + g[s \ {CHOOSE x \in s : TRUE}]
<1> DEFINE e(h, t) == IF t = {} THEN 0
                      ELSE f[CHOOSE x \in t : TRUE] + h[t \ {CHOOSE x \in t : TRUE}]
<1>1. g = [t \in SUBSET S |-> e(g, t)]
  BY DEF IsSum
<1>. HIDE DEF e
<1>2. g[s] = e(g, s)
  BY <1>1, Zenon
<1>. QED
  BY <1>2 DEF e

LEMMA SumsAgree ==
  ASSUME NEW f, NEW S, NEW g, IsSum(f, S, g), NEW R, NEW h, IsSum(f, R, h),
         IsFiniteSet(S), S \subseteq R
  PROVE  \A s \in SUBSET S : g[s] = h[s]
<1> DEFINE D == {s \in SUBSET S : g[s] = h[s]}
<1>1. ASSUME NEW T \in SUBSET S, \A U \in SUBSET T : U # T => U \in D
      PROVE  T \in D
  <2>1. CASE T = {}
    BY <2>1, SumStep
  <2>2. CASE T # {}
    <3> DEFINE p == CHOOSE x \in T : TRUE
    <3>1. p \in T
      BY <2>2
    <3>. HIDE DEF p
    <3>2. g[T \ {p}] = h[T \ {p}]
      BY <1>1, <3>1
    <3>3. g[T] = f[p] + g[T \ {p}]
      BY <2>2, SumStep DEF p
    <3>4. h[T] = f[p] + h[T \ {p}]
      <4>1. T \in SUBSET R
        OBVIOUS
      <4>. QED BY <2>2, <4>1, SumStep DEF p
    <3>. QED BY <3>2, <3>3, <3>4
  <2>. QED BY <2>1, <2>2
<1>2. SUBSET S \subseteq D
  <2>. HIDE DEF D
  <2>. QED BY <1>1, FiniteInduction
<1>. QED BY <1>2

LEMMA SumExists ==
  ASSUME NEW f, NEW S, IsFiniteSet(S)
  PROVE  \E g : IsSum(f, S, g)
<1> DEFINE D == {T \in SUBSET S : \E g : IsSum(f, T, g)}
           G(u) == CHOOSE g : IsSum(f, u, g)
<1>1. ASSUME NEW T \in SUBSET S, \A U \in SUBSET T : U # T => U \in D
      PROVE  T \in D
  <2> DEFINE h == [u \in SUBSET T |-> G(u)[u]]
             pick(s) == CHOOSE x \in s : TRUE
             e(s) == IF s = {} THEN 0 ELSE f[pick(s)] + h[s \ {pick(s)}]
             w == [s \in SUBSET T |-> e(s)]
  <2>1. ASSUME NEW s \in SUBSET T, s # T PROVE w[s] = h[s]
    <3>1. IsSum(f, s, G(s))
      BY <1>1, <2>1
    <3>2. CASE s = {}
      <4>1. G(s)[s] = 0
        BY <3>1, <3>2, SumStep
      <4>. QED BY <4>1, <3>2
    <3>3. CASE s # {}
      <4>1. pick(s) \in s
        BY <3>3
      <4> DEFINE r == s \ {pick(s)}
      <4>2. r \in SUBSET s /\ r \in SUBSET T /\ r # T /\ r \subseteq s
        BY <4>1
      <4>. HIDE DEF G, pick
      <4>3. G(s)[s] = f[pick(s)] + G(s)[r]
        BY <3>1, <3>3, SumStep DEF pick
      <4>4. IsSum(f, r, G(r))
        BY <1>1, <4>2 DEF G
      <4>5. IsFiniteSet(r)
        BY <4>2, FS_Subset
      <4>6. G(r)[r] = G(s)[r]
        <5>. HIDE DEF r
        <5>. QED BY <3>1, <4>4, <4>5, <4>2, SumsAgree
      <4>7. h[r] = G(s)[r]
        BY <4>2, <4>6
      <4>. QED BY <3>3, <4>3, <4>7
    <3>. QED BY <3>2, <3>3
  <2>2. ASSUME NEW s \in SUBSET T
        PROVE  w[s] = IF s = {} THEN 0 ELSE f[pick(s)] + w[s \ {pick(s)}]
    <3>1. CASE s = {}
      BY <3>1
    <3>2. CASE s # {}
      <4>1. pick(s) \in s
        BY <3>2
      <4>. HIDE DEF pick, h
      <4>2. s \ {pick(s)} \in SUBSET T /\ s \ {pick(s)} # T
        BY <4>1
      <4>3. w[s \ {pick(s)}] = h[s \ {pick(s)}]
        BY <2>1, <4>2
      <4>. QED BY <3>2, <4>3
    <3>. QED BY <3>1, <3>2
  <2>3. IsSum(f, T, w)
    <3>. HIDE DEF h
    <3>1. w = [s \in SUBSET T |-> IF s = {} THEN 0 ELSE f[pick(s)] + w[s \ {pick(s)}]]
      <4> DEFINE k(s) == IF s = {} THEN 0 ELSE f[pick(s)] + w[s \ {pick(s)}]
      <4>1. \A s \in SUBSET T : w[s] = k(s)
        BY <2>2
      <4>2. w = [s \in SUBSET T |-> w[s]]
        OBVIOUS
      <4>. HIDE DEF k, w
      <4>3. w = [s \in SUBSET T |-> k(s)]
        BY <4>1, <4>2
      <4>. QED BY <4>3 DEF k
    <3>. QED BY <3>1 DEF IsSum
  <2>. QED BY <2>3
<1>2. SUBSET S \subseteq D
  <2>. HIDE DEF D
  <2>. QED BY <1>1, FiniteInduction
<1>. QED BY <1>2

\* A sum is the sum of the rest and the number chosen first.
LEMMA SumPick ==
  ASSUME NEW f, NEW S, IsFiniteSet(S)
  PROVE  SumFunctionOnSet(f, S)
           = IF S = {} THEN 0
             ELSE f[CHOOSE x \in S : TRUE] + SumFunctionOnSet(f, S \ {CHOOSE x \in S : TRUE})
<1> DEFINE G(u) == CHOOSE g : IsSum(f, u, g)
           p == CHOOSE x \in S : TRUE
           r == S \ {p}
<1>1. IsSum(f, S, G(S))
  BY SumExists
<1>2. IsFiniteSet(r) /\ r \in SUBSET S /\ S \in SUBSET S
  BY FS_Subset
<1>3. IsSum(f, r, G(r))
  <2>. HIDE DEF r
  <2>. QED BY <1>2, SumExists
<1>4. SumFunctionOnSet(f, S) = G(S)[S] /\ SumFunctionOnSet(f, r) = G(r)[r]
  BY SumIs, Zenon
<1>5. G(r)[r] = G(S)[r]
  <2>. HIDE DEF r, G
  <2>. QED BY <1>1, <1>2, <1>3, SumsAgree
<1>6. G(S)[S] = IF S = {} THEN 0 ELSE f[p] + G(S)[r]
  <2> DEFINE g == G(S)
  <2>1. IsSum(f, S, g) /\ S \in SUBSET S
    BY <1>1
  <2>. HIDE DEF g
  <2>2. g[S] = IF S = {} THEN 0 ELSE f[p] + g[r]
    <3>. HIDE DEF p
    <3>1. S = {} => g[S] = 0
      BY <2>1, SumStep
    <3>2. S # {} => g[S] = f[p] + g[S \ {p}]
      BY <2>1, SumStep DEF p
    <3>. QED BY <3>1, <3>2
  <2>. QED BY <2>2 DEF g
<1>. QED
  BY <1>4, <1>5, <1>6

LEMMA SumIsInt ==
  ASSUME NEW f, NEW S, IsFiniteSet(S), \A x \in S : f[x] \in Int
  PROVE  SumFunctionOnSet(f, S) \in Int
<1> DEFINE D == {T \in SUBSET S : SumFunctionOnSet(f, T) \in Int}
<1>1. ASSUME NEW T \in SUBSET S, \A U \in SUBSET T : U # T => U \in D
      PROVE  T \in D
  <2> DEFINE p == CHOOSE x \in T : TRUE
  <2>1. IsFiniteSet(T)
    BY FS_Subset
  <2>2. SumFunctionOnSet(f, T) = IF T = {} THEN 0 ELSE f[p] + SumFunctionOnSet(f, T \ {p})
    BY <2>1, SumPick
  <2>3. CASE T = {}
    BY <2>2, <2>3
  <2>4. CASE T # {}
    <3>1. p \in T
      BY <2>4
    <3>. HIDE DEF p
    <3>2. SumFunctionOnSet(f, T \ {p}) \in Int
      BY <3>1, <1>1
    <3>. QED BY <2>2, <2>4, <3>1, <3>2
  <2>. QED BY <2>3, <2>4
<1>2. SUBSET S \subseteq D
  <2>. HIDE DEF D
  <2>. QED BY <1>1, FiniteInduction
<1>. QED BY <1>2

\* Any of the numbers may be taken out of a sum.
LEMMA SumRemove ==
  ASSUME NEW f, NEW S, IsFiniteSet(S), \A x \in S : f[x] \in Int
  PROVE  \A x \in S : SumFunctionOnSet(f, S) = f[x] + SumFunctionOnSet(f, S \ {x})
<1> DEFINE sum(T) == SumFunctionOnSet(f, T)
           D == {T \in SUBSET S : \A x \in T : sum(T) = f[x] + sum(T \ {x})}
<1>1. \A T \in SUBSET S : IsFiniteSet(T) /\ sum(T) \in Int
  <2> SUFFICES ASSUME NEW T \in SUBSET S PROVE IsFiniteSet(T) /\ sum(T) \in Int
    OBVIOUS
  <2>1. IsFiniteSet(T)
    BY FS_Subset
  <2>. QED BY <2>1, SumIsInt
<1>2. ASSUME NEW T \in SUBSET S, \A U \in SUBSET T : U # T => U \in D
      PROVE  T \in D
  <2> SUFFICES ASSUME NEW x \in T PROVE sum(T) = f[x] + sum(T \ {x})
    OBVIOUS
  <2> DEFINE p == CHOOSE y \in T : TRUE
  <2>1. p \in T
    OBVIOUS
  <2>2. sum(T) = f[p] + sum(T \ {p})
    BY <1>1, SumPick
  <2>3. CASE x = p
    BY <2>2, <2>3
  <2>4. CASE x # p
    <3>. HIDE DEF p, sum
    <3>1. T \ {p} \in D /\ x \in T \ {p}
      BY <1>2, <2>1, <2>4
    <3>2. sum(T \ {p}) = f[x] + sum((T \ {p}) \ {x})
      BY <3>1
    <3>3. T \ {x} \in D /\ p \in T \ {x}
      BY <1>2, <2>1, <2>4
    <3>4. sum(T \ {x}) = f[p] + sum((T \ {x}) \ {p})
      BY <3>3
    <3>5. (T \ {p}) \ {x} = (T \ {x}) \ {p}
      OBVIOUS
    <3>6. sum((T \ {p}) \ {x}) \in Int /\ f[p] \in Int /\ f[x] \in Int
      BY <1>1, <2>1
    <3> DEFINE rest == sum((T \ {p}) \ {x})
    <3>7. sum(T) = f[p] + (f[x] + rest) /\ sum(T \ {x}) = f[p] + rest
      BY <2>2, <3>2, <3>4, <3>5
    <3>8. rest \in Int
      BY <3>6
    <3>. HIDE DEF rest
    <3>. QED BY <3>6, <3>7, <3>8
  <2>. QED BY <2>3, <2>4
<1>3. SUBSET S \subseteq D
  <2>. HIDE DEF D
  <2>. QED BY <1>2, FiniteInduction
<1>. QED BY <1>3

LEMMA SumEqual ==
  ASSUME NEW f, NEW h, NEW S, IsFiniteSet(S), \A x \in S : f[x] = h[x]
  PROVE  SumFunctionOnSet(f, S) = SumFunctionOnSet(h, S)
<1> DEFINE D == {T \in SUBSET S : SumFunctionOnSet(f, T) = SumFunctionOnSet(h, T)}
<1>1. ASSUME NEW T \in SUBSET S, \A U \in SUBSET T : U # T => U \in D
      PROVE  T \in D
  <2> DEFINE p == CHOOSE x \in T : TRUE
  <2>1. IsFiniteSet(T)
    BY FS_Subset
  <2>2. /\ SumFunctionOnSet(f, T) = IF T = {} THEN 0 ELSE f[p] + SumFunctionOnSet(f, T \ {p})
        /\ SumFunctionOnSet(h, T) = IF T = {} THEN 0 ELSE h[p] + SumFunctionOnSet(h, T \ {p})
    BY <2>1, SumPick
  <2>3. CASE T = {}
    BY <2>2, <2>3
  <2>4. CASE T # {}
    <3>1. p \in T
      BY <2>4
    <3>. HIDE DEF p
    <3>2. SumFunctionOnSet(f, T \ {p}) = SumFunctionOnSet(h, T \ {p})
      BY <3>1, <1>1
    <3>. QED BY <2>2, <2>4, <3>1, <3>2
  <2>. QED BY <2>3, <2>4
<1>2. SUBSET S \subseteq D
  <2>. HIDE DEF D
  <2>. QED BY <1>1, FiniteInduction
<1>. QED BY <1>2

\* A number that grows makes the sum grow as much.
LEMMA SumGrows ==
  ASSUME NEW f, NEW h, NEW S, IsFiniteSet(S), \A x \in S : f[x] \in Int,
         NEW k \in S, NEW d \in Int, h[k] = f[k] + d,
         \A x \in S : x # k => h[x] = f[x]
  PROVE  SumFunctionOnSet(h, S) = SumFunctionOnSet(f, S) + d
<1> DEFINE r == S \ {k}
<1>1. IsFiniteSet(r) /\ \A x \in r : h[x] = f[x] /\ f[x] \in Int
  BY FS_Subset
<1>2. SumFunctionOnSet(f, r) = SumFunctionOnSet(h, r) /\ SumFunctionOnSet(f, r) \in Int
  <2>. HIDE DEF r
  <2>. QED BY <1>1, SumEqual, SumIsInt
<1>3. \A x \in S : h[x] \in Int
  OBVIOUS
<1>4. SumFunctionOnSet(f, S) = f[k] + SumFunctionOnSet(f, r)
  BY SumRemove
<1>5. SumFunctionOnSet(h, S) = h[k] + SumFunctionOnSet(h, r)
  BY <1>3, SumRemove
<1>. QED BY <1>2, <1>4, <1>5

\* Ones add up to their number.
LEMMA SumOfOnes ==
  ASSUME NEW f, NEW S, IsFiniteSet(S), \A x \in S : f[x] = 1
  PROVE  SumFunctionOnSet(f, S) = Cardinality(S)
<1> DEFINE D == {T \in SUBSET S : SumFunctionOnSet(f, T) = Cardinality(T)}
<1>1. ASSUME NEW T \in SUBSET S, \A U \in SUBSET T : U # T => U \in D
      PROVE  T \in D
  <2> DEFINE p == CHOOSE x \in T : TRUE
  <2>1. IsFiniteSet(T)
    BY FS_Subset
  <2>2. SumFunctionOnSet(f, T) = IF T = {} THEN 0 ELSE f[p] + SumFunctionOnSet(f, T \ {p})
    BY <2>1, SumPick
  <2>3. CASE T = {}
    BY <2>2, <2>3, FS_EmptySet
  <2>4. CASE T # {}
    <3>1. p \in T
      BY <2>4
    <3>. HIDE DEF p
    <3>2. SumFunctionOnSet(f, T \ {p}) = Cardinality(T \ {p})
      BY <3>1, <1>1
    <3>3. Cardinality(T \ {p}) = Cardinality(T) - 1
      BY <2>1, <3>1, FS_RemoveElement
    <3>. QED BY <2>1, <2>2, <2>4, <3>1, <3>2, <3>3, FS_CardinalityType
  <2>. QED BY <2>3, <2>4
<1>2. SUBSET S \subseteq D
  <2>. HIDE DEF D
  <2>. QED BY <1>1, FiniteInduction
<1>. QED BY <1>2

(***************************************************************************)
(* Sequences of anything.                                                  *)
(***************************************************************************)
IsSeq(s) == s \in Seq(Range(s))

LEMMA AnySeq ==
  ASSUME NEW S, NEW s \in Seq(S)
  PROVE  IsSeq(s) /\ Len(s) \in Nat /\ DOMAIN s = 1 .. Len(s)
<1>1. Len(s) \in Nat /\ s \in [1 .. Len(s) -> S] /\ DOMAIN s = 1 .. Len(s)
  BY LenProperties
<1>2. s \in [1 .. Len(s) -> Range(s)]
  BY <1>1 DEF Range
<1>3. s \in Seq(Range(s))
  BY <1>1, <1>2, SeqDef
<1>. QED
  BY <1>1, <1>3 DEF IsSeq

LEMMA SeqFacts ==
  ASSUME NEW s, IsSeq(s)
  PROVE  Len(s) \in Nat /\ DOMAIN s = 1 .. Len(s) /\ s \in [1 .. Len(s) -> Range(s)]
BY LenProperties DEF IsSeq

\* A function on the positions of a sequence.
LEMMA MappedSeq ==
  ASSUME NEW n \in Nat, NEW s, s = [i \in 1 .. n |-> s[i]]
  PROVE  IsSeq(s) /\ Len(s) = n /\ DOMAIN s = 1 .. n
<1>1. DOMAIN s = 1 .. n
  OBVIOUS
<1>2. s \in [1 .. n -> Range(s)]
  BY <1>1 DEF Range
<1>3. s \in Seq(Range(s))
  BY <1>2, SeqDef
<1>4. Len(s) = n
  BY <1>1, <1>3, LenProperties
<1>. QED
  BY <1>1, <1>3, <1>4 DEF IsSeq

LEMMA JoinedSeq ==
  ASSUME NEW s, IsSeq(s), NEW t, IsSeq(t)
  PROVE  /\ IsSeq(s \o t)
         /\ Len(s \o t) = Len(s) + Len(t)
         /\ \A i \in 1 .. Len(s) : (s \o t)[i] = s[i]
         /\ \A i \in 1 .. Len(t) : (s \o t)[Len(s) + i] = t[i]
<1> DEFINE S == Range(s) \cup Range(t)
<1>1. s \in Seq(S) /\ t \in Seq(S)
  BY SeqMonotonic DEF IsSeq
<1>2. Len(s) \in Nat /\ Len(t) \in Nat
  BY SeqFacts
<1>. HIDE DEF S
<1>3. /\ s \o t \in Seq(S)
      /\ Len(s \o t) = Len(s) + Len(t)
      /\ \A i \in 1 .. Len(s) + Len(t) : (s \o t)[i] = IF i <= Len(s) THEN s[i] ELSE t[i - Len(s)]
  BY <1>1, ConcatProperties
<1>4. IsSeq(s \o t)
  BY <1>3, AnySeq
<1>5. ASSUME NEW i \in 1 .. Len(s) PROVE (s \o t)[i] = s[i]
  <2>1. i \in 1 .. Len(s) + Len(t) /\ i <= Len(s)
    BY <1>2
  <2>. QED
    BY <1>3, <2>1
<1>6. ASSUME NEW i \in 1 .. Len(t) PROVE (s \o t)[Len(s) + i] = t[i]
  <2>1. /\ Len(s) + i \in 1 .. Len(s) + Len(t)
        /\ ~(Len(s) + i <= Len(s))
        /\ Len(s) + i - Len(s) = i
    BY <1>2
  <2>. QED
    BY <1>3, <2>1
<1>. QED
  BY <1>3, <1>4, <1>5, <1>6

LEMMA ExtendedSeq ==
  ASSUME NEW s, IsSeq(s), NEW e
  PROVE  /\ IsSeq(Append(s, e))
         /\ Len(Append(s, e)) = Len(s) + 1
         /\ \A i \in 1 .. Len(s) : Append(s, e)[i] = s[i]
         /\ Append(s, e)[Len(s) + 1] = e
<1> DEFINE S == Range(s) \cup {e}
<1>1. s \in Seq(S) /\ e \in S
  BY SeqMonotonic DEF IsSeq
<1>. HIDE DEF S
<1>2. /\ Append(s, e) \in Seq(S)
      /\ Len(Append(s, e)) = Len(s) + 1
      /\ \A i \in 1 .. Len(s) : Append(s, e)[i] = s[i]
      /\ Append(s, e)[Len(s) + 1] = e
  BY <1>1, AppendProperties
<1>. QED
  BY <1>2, AnySeq

(***************************************************************************)
(* What the steps of the search do to the arena.                           *)
(***************************************************************************)
\* The children of n, and k more at the end of the arena.
Lengthened(n, k) ==
  /\ DOMAIN nodes'[n].children = 1 .. Len(nodes[n].children) + k
  /\ \A i \in 1 .. Len(nodes[n].children) : nodes'[n].children[i] = nodes[n].children[i]
  /\ \A i \in 1 .. k : nodes'[n].children[Len(nodes[n].children) + i] = Len(nodes) + i

\* The visits of a node that the one above it has counted.
NetIn(arena, n) ==
  arena[n].visits - (IF arena[n].kind = "Chance" THEN Len(arena[n].children) ELSE 0)

\* k nodes without children are added, as children of n; nothing else is moved.
Grow(n, k) ==
  /\ n \in DOMAIN nodes
  /\ k \in Nat
  /\ IsSeq(nodes')
  /\ Len(nodes') = Len(nodes) + k
  /\ \A m \in DOMAIN nodes' : IsNode(nodes'[m])
  /\ \A m \in DOMAIN nodes :
       /\ nodes'[m].kind = nodes[m].kind
       /\ nodes'[m].candidates = nodes[m].candidates
       /\ nodes'[m].hero_depth = nodes[m].hero_depth
       /\ nodes'[m].head = nodes[m].head
  /\ \A m \in DOMAIN nodes \ {n} : nodes'[m] = nodes[m]
  /\ \A m \in Len(nodes) + 1 .. Len(nodes) + k :
       /\ nodes'[m].children = <<>>
       /\ nodes'[m].hero_depth = nodes[n].hero_depth + 1
       /\ nodes'[m].kind # "Leaf" => ~(nodes[n].hero_depth + 1 >= max_depth)
  /\ Lengthened(n, k)
  /\ NetIn(nodes', n) = NetIn(nodes, n)
  /\ \A c : c \in Children(n)' <=> c \in Children(n) \/ c \in Len(nodes) + 1 .. Len(nodes) + k

LEMMA ExpandGrows ==
  ASSUME ArenaInv, NEW n \in DOMAIN nodes, NEW below, expand_one_child(n, below)
  PROVE  /\ Untried(n)
         /\ Grow(n, 1)
         /\ nodes'[n].visits = nodes[n].visits
         /\ nodes'[Len(nodes) + 1].visits = 0
         /\ nodes'[Len(nodes) + 1].head = 0
         /\ path' = Append(below, Len(nodes) + 1)
         /\ grown' = TRUE
         /\ \A m \in fresh' : m = Len(nodes) + 1 /\ nodes'[m].kind = "Chance"
<1> DEFINE child == Len(nodes) + 1
           parent == [nodes[n] EXCEPT !.children = Append(@, child)]
           arena == [nodes EXCEPT ![n].children = Append(@, child)]
<1>1. /\ IsSeq(nodes) /\ Len(nodes) \in Nat /\ DOMAIN nodes = 1 .. Len(nodes)
      /\ nodes = [i \in 1 .. Len(nodes) |-> nodes[i]]
  BY SeqFacts DEF ArenaInv, IsSeq
<1>2. PICK node \in Successors(n) :
        /\ nodes' = Append(arena, node)
        /\ path' = Append(below, child)
        /\ grown' = TRUE
        /\ fresh' = IF node.kind = "Chance" THEN {child} ELSE {}
  BY DEF expand_one_child
<1>3. /\ IsNode(node) /\ node.children = <<>> /\ node.visits = 0 /\ node.head = 0
      /\ node.hero_depth = nodes[n].hero_depth + 1
      /\ node.kind # "Leaf" => ~(nodes[n].hero_depth + 1 >= max_depth)
  BY SuccessorsAreNew
<1>4. Untried(n)
  BY DEF expand_one_child
<1>5. IsNode(nodes[n]) /\ nodes[n].children \in Seq(Nat)
  BY DEF ArenaInv, IsNode
<1>6. child \in Nat
  BY <1>1
<1>7. /\ Append(nodes[n].children, child) \in Seq(Nat)
      /\ Len(Append(nodes[n].children, child)) = Len(nodes[n].children) + 1
      /\ \A i \in 1 .. Len(nodes[n].children) : Append(nodes[n].children, child)[i] = nodes[n].children[i]
      /\ Append(nodes[n].children, child)[Len(nodes[n].children) + 1] = child
  BY <1>5, <1>6, AppendProperties
<1>8. /\ IsNode(parent)
      /\ parent.kind = nodes[n].kind
      /\ parent.candidates = nodes[n].candidates
      /\ parent.hero_depth = nodes[n].hero_depth
      /\ parent.children = Append(nodes[n].children, child)
      /\ parent.visits = nodes[n].visits
      /\ parent.head = nodes[n].head
  <2>1. nodes[n].visits \in Nat /\ nodes[n].head \in Nat
    BY <1>5 DEF IsNode
  <2>. DEFINE x == nodes[n]
              more == Append(nodes[n].children, child)
  <2>2. parent = With(x, x.hero_depth, more, x.visits, x.value_sum, x.head, x.final)
    BY <1>5, FieldIs
  <2>3. more \in Seq(Nat) /\ x.visits \in Nat /\ x.head \in Nat
    BY <1>7, <2>1
  <2>. HIDE DEF parent, child, x, more
  <2>4. /\ IsNode(parent)
        /\ parent.kind = x.kind
        /\ parent.candidates = x.candidates
        /\ parent.hero_depth = x.hero_depth
        /\ parent.children = more
        /\ parent.visits = x.visits
        /\ parent.head = x.head
    BY <2>2, <2>3, WithIs
  <2>. QED
    BY <2>4 DEF x, more
<1>9. /\ arena = [i \in 1 .. Len(nodes) |-> IF i = n THEN parent ELSE nodes[i]]
  BY <1>1
<1>. HIDE DEF parent, arena
<1>10. IsSeq(arena) /\ Len(arena) = Len(nodes)
  <2>1. arena = [i \in 1 .. Len(nodes) |-> arena[i]]
    BY <1>9
  <2>. QED
    BY <1>1, <2>1, MappedSeq
<1>11. /\ IsSeq(nodes')
       /\ Len(nodes') = Len(nodes) + 1
       /\ \A i \in 1 .. Len(nodes) : nodes'[i] = IF i = n THEN parent ELSE nodes[i]
       /\ nodes'[child] = node
  <2>1. /\ IsSeq(nodes')
        /\ Len(nodes') = Len(arena) + 1
        /\ \A i \in 1 .. Len(arena) : nodes'[i] = arena[i]
        /\ nodes'[Len(arena) + 1] = node
    BY <1>2, <1>10, ExtendedSeq
  <2>. QED
    BY <1>9, <1>10, <2>1
<1>12. DOMAIN nodes' = 1 .. Len(nodes) + 1
  BY <1>11, SeqFacts
<1>13. n \in 1 .. Len(nodes) /\ nodes'[n] = parent
  BY <1>1, <1>11
<1>14. \A m \in DOMAIN nodes \ {n} : nodes'[m] = nodes[m]
  BY <1>1, <1>11
<1>15. \A m \in DOMAIN nodes' : IsNode(nodes'[m])
  <2> SUFFICES ASSUME NEW m \in DOMAIN nodes' PROVE IsNode(nodes'[m])
    OBVIOUS
  <2>1. m = child \/ m = n \/ m \in DOMAIN nodes \ {n}
    BY <1>1, <1>12
  <2>2. \A i \in DOMAIN nodes : IsNode(nodes[i])
    BY DEF ArenaInv
  <2>. QED
    BY <1>3, <1>8, <1>11, <1>13, <1>14, <2>1, <2>2
<1>16. \A m \in DOMAIN nodes :
         /\ nodes'[m].kind = nodes[m].kind
         /\ nodes'[m].candidates = nodes[m].candidates
         /\ nodes'[m].hero_depth = nodes[m].hero_depth
         /\ nodes'[m].head = nodes[m].head
  BY <1>8, <1>13, <1>14
<1>17. \A m \in Len(nodes) + 1 .. Len(nodes) + 1 :
         /\ nodes'[m].children = <<>>
         /\ nodes'[m].hero_depth = nodes[n].hero_depth + 1
         /\ nodes'[m].kind # "Leaf" => ~(nodes[n].hero_depth + 1 >= max_depth)
  <2>1. \A m \in Len(nodes) + 1 .. Len(nodes) + 1 : m = child
    BY <1>1
  <2>. QED
    BY <1>3, <1>11, <2>1
<1>18. \A c : c \in Children(n)' <=> c \in Children(n) \/ c \in Len(nodes) + 1 .. Len(nodes) + 1
  <2>1. DOMAIN nodes[n].children = 1 .. Len(nodes[n].children) /\ Len(nodes[n].children) \in Nat
    BY <1>5, AnySeq
  <2>2. DOMAIN nodes'[n].children = 1 .. Len(nodes[n].children) + 1
    BY <1>7, <1>8, <1>13, AnySeq
  <2>3. \A i \in 1 .. Len(nodes[n].children) : nodes'[n].children[i] = nodes[n].children[i]
    BY <1>7, <1>8, <1>13
  <2>4. nodes'[n].children[Len(nodes[n].children) + 1] = child
    BY <1>7, <1>8, <1>13
  <2>5. \A c : c \in Len(nodes) + 1 .. Len(nodes) + 1 <=> c = child
    BY <1>1
  <2>6. \A i : i \in 1 .. Len(nodes[n].children) + 1
                 <=> i \in 1 .. Len(nodes[n].children) \/ i = Len(nodes[n].children) + 1
    BY <2>1
  <2>7. \A c : c \in Children(n) <=> \E i \in 1 .. Len(nodes[n].children) : c = nodes[n].children[i]
    BY <2>1 DEF Children
  <2>8. \A c : c \in Children(n)' <=> \E i \in 1 .. Len(nodes[n].children) + 1 : c = nodes'[n].children[i]
    BY <2>2 DEF Children
  <2>. HIDE DEF child
  <2>9. ASSUME NEW c, c \in Children(n)'
        PROVE  c \in Children(n) \/ c = child
    <3>1. PICK i \in 1 .. Len(nodes[n].children) + 1 : c = nodes'[n].children[i]
      BY <2>8, <2>9
    <3>2. CASE i \in 1 .. Len(nodes[n].children)
      BY <2>3, <2>7, <3>1, <3>2
    <3>3. CASE i = Len(nodes[n].children) + 1
      BY <2>4, <3>1, <3>3
    <3>. QED
      BY <2>6, <3>2, <3>3
  <2>10. ASSUME NEW c, c \in Children(n) PROVE c \in Children(n)'
    <3>1. PICK i \in 1 .. Len(nodes[n].children) : c = nodes[n].children[i]
      BY <2>7, <2>10
    <3>2. i \in 1 .. Len(nodes[n].children) + 1 /\ c = nodes'[n].children[i]
      BY <2>3, <2>6, <3>1
    <3>. QED
      BY <2>8, <3>2
  <2>11. child \in Children(n)'
    BY <2>4, <2>6, <2>8
  <2>. QED
    BY <2>5, <2>9, <2>10, <2>11, Zenon
<1>19. \A m \in fresh' : m = child /\ nodes'[m].kind = "Chance"
  BY <1>2, <1>11
<1>20. Lengthened(n, 1)
  <2> DEFINE l == Len(nodes[n].children)
  <2>1. DOMAIN nodes'[n].children = 1 .. l + 1
    BY <1>7, <1>8, <1>13, AnySeq
  <2>2. \A i \in 1 .. l : nodes'[n].children[i] = nodes[n].children[i]
    BY <1>7, <1>8, <1>13
  <2>3. \A i \in 1 .. 1 : nodes'[n].children[l + i] = Len(nodes) + i
    BY <1>7, <1>8, <1>13
  <2>. QED
    BY <2>1, <2>2, <2>3 DEF Lengthened
<1>21. NetIn(nodes', n) = NetIn(nodes, n)
  <2>1. nodes[n].kind = "Decision" /\ nodes'[n].kind = "Decision"
    BY <1>4, <1>8, <1>13 DEF Untried
  <2>2. nodes'[n].visits = nodes[n].visits
    BY <1>8, <1>13
  <2>. QED
    BY <2>1, <2>2 DEF NetIn
<1>22. Grow(n, 1)
  BY <1>1, <1>11, <1>14, <1>15, <1>16, <1>17, <1>18, <1>20, <1>21 DEF Grow
<1>. QED
  BY <1>2, <1>3, <1>4, <1>8, <1>11, <1>13, <1>19, <1>22

\* What the expansion of a chance node does.
LEMMA ChanceGrows ==
  ASSUME ArenaInv, FreshInv, ExpandChance
  PROVE  \E n \in fresh, k \in Nat :
           /\ Grow(n, k)
           /\ nodes'[n].visits = nodes[n].visits + k
           /\ \A m \in Len(nodes) + 1 .. Len(nodes) + k : nodes'[m].visits = 1 /\ nodes'[m].head = 0
           /\ \A m \in fresh' :
                \/ m \in fresh \ {n}
                \/ m \in Len(nodes) + 1 .. Len(nodes) + k /\ nodes'[m].kind = "Chance"
<1>1. PICK n \in fresh, k \in Candidates : \E made \in [1 .. k -> Successors(n)], finals \in [1 .. k -> Finals] :
        LET children == [i \in 1 .. k |-> Len(nodes) + i] IN
        /\ nodes' = [nodes EXCEPT ![n] = Warmed(@, children, finals)]
                      \o [i \in 1 .. k |-> Visited(made[i], finals[i])]
        /\ fresh' = (fresh \ {n})
                      \cup {children[i] : i \in {j \in 1 .. k : made[j].kind = "Chance"}}
  BY DEF ExpandChance
<1>2. PICK made \in [1 .. k -> Successors(n)], finals \in [1 .. k -> Finals] :
        LET children == [i \in 1 .. k |-> Len(nodes) + i] IN
        /\ nodes' = [nodes EXCEPT ![n] = Warmed(@, children, finals)]
                      \o [i \in 1 .. k |-> Visited(made[i], finals[i])]
        /\ fresh' = (fresh \ {n})
                      \cup {children[i] : i \in {j \in 1 .. k : made[j].kind = "Chance"}}
  BY <1>1
<1> DEFINE children == [i \in 1 .. k |-> Len(nodes) + i]
           parent == Warmed(nodes[n], children, finals)
           arena == [nodes EXCEPT ![n] = parent]
           added == [i \in 1 .. k |-> Visited(made[i], finals[i])]
<1>3. /\ nodes' = arena \o added
      /\ fresh' = (fresh \ {n}) \cup {children[i] : i \in {j \in 1 .. k : made[j].kind = "Chance"}}
  BY <1>2
<1>4. /\ IsSeq(nodes) /\ Len(nodes) \in Nat /\ DOMAIN nodes = 1 .. Len(nodes)
      /\ nodes = [i \in 1 .. Len(nodes) |-> nodes[i]]
  BY SeqFacts DEF ArenaInv, IsSeq
<1>5. k \in Nat
  BY SearchConstants
<1>6. n \in DOMAIN nodes /\ nodes[n].children = <<>> /\ nodes[n].kind = "Chance"
  BY DEF FreshInv
<1>7. IsNode(nodes[n]) /\ nodes[n].visits \in Nat /\ nodes[n].head \in Nat
  BY <1>6 DEF ArenaInv, IsNode
<1>8. children \in Seq(Nat) /\ Len(children) = k /\ DOMAIN children = 1 .. k
  <2>1. children \in [1 .. k -> Nat]
    BY <1>4, <1>5
  <2>2. children \in Seq(Nat)
    BY <1>5, <2>1, SeqDef
  <2>3. DOMAIN children = 1 .. k
    OBVIOUS
  <2>. HIDE DEF children
  <2>. QED
    BY <1>5, <2>2, <2>3, LenProperties
<1>9. \A i \in 1 .. k : children[i] = Len(nodes) + i
  OBVIOUS
<1>. HIDE DEF children
<1>10. /\ IsNode(parent)
       /\ parent.kind = nodes[n].kind
       /\ parent.candidates = nodes[n].candidates
       /\ parent.hero_depth = nodes[n].hero_depth
       /\ parent.children = children
       /\ parent.visits = nodes[n].visits + k
       /\ parent.head = nodes[n].head
  <2>1. PICK sum, final :
          parent = With(nodes[n], nodes[n].hero_depth, children, nodes[n].visits + Len(children),
                        sum, nodes[n].head, final)
    BY <1>7, WarmedIs
  <2>2. nodes[n].visits + Len(children) \in Nat
    BY <1>5, <1>7, <1>8
  <2>. HIDE DEF parent
  <2>3. /\ IsNode(parent)
        /\ parent.kind = nodes[n].kind
        /\ parent.candidates = nodes[n].candidates
        /\ parent.hero_depth = nodes[n].hero_depth
        /\ parent.children = children
        /\ parent.visits = nodes[n].visits + Len(children)
        /\ parent.head = nodes[n].head
    BY <1>7, <1>8, <2>1, <2>2, WithIs
  <2>. QED
    BY <1>8, <2>3
<1>11. arena = [i \in 1 .. Len(nodes) |-> IF i = n THEN parent ELSE nodes[i]]
  BY <1>4
<1>. HIDE DEF parent, arena
<1>12. IsSeq(arena) /\ Len(arena) = Len(nodes)
  <2>1. arena = [i \in 1 .. Len(nodes) |-> arena[i]]
    BY <1>11
  <2>. QED
    BY <1>4, <2>1, MappedSeq
<1>13. IsSeq(added) /\ Len(added) = k
  <2>1. added = [i \in 1 .. k |-> added[i]]
    OBVIOUS
  <2>. QED
    BY <1>5, <2>1, MappedSeq
<1>14. ASSUME NEW i \in 1 .. k
       PROVE  /\ IsNode(added[i]) /\ added[i].kind = made[i].kind
              /\ added[i].children = <<>> /\ added[i].visits = 1 /\ added[i].head = 0
              /\ added[i].hero_depth = nodes[n].hero_depth + 1
              /\ added[i].kind # "Leaf" => ~(nodes[n].hero_depth + 1 >= max_depth)
  <2>1. added[i] = Visited(made[i], finals[i])
    OBVIOUS
  <2>2. /\ IsNode(made[i]) /\ made[i].children = <<>> /\ made[i].visits = 0 /\ made[i].head = 0
        /\ made[i].hero_depth = nodes[n].hero_depth + 1
        /\ made[i].kind # "Leaf" => ~(nodes[n].hero_depth + 1 >= max_depth)
    BY SuccessorsAreNew
  <2>. DEFINE x == made[i]
              y == added[i]
  <2>3. y = With(x, x.hero_depth, x.children, x.visits + 1,
                 x.value_sum + finals[i] - baseline, x.head, x.final + finals[i])
    BY <2>1, <2>2, VisitedIs
  <2>4. x.children \in Seq(Nat) /\ x.visits + 1 \in Nat /\ x.head \in Nat /\ x.visits + 1 = 1
    BY <2>2 DEF IsNode
  <2>. HIDE DEF x, y
  <2>5. /\ IsNode(y) /\ y.kind = x.kind /\ y.children = x.children
        /\ y.hero_depth = x.hero_depth
        /\ y.visits = x.visits + 1 /\ y.head = x.head
    BY <2>3, <2>4, WithIs
  <2>. QED
    BY <2>2, <2>4, <2>5 DEF x, y
<1>. HIDE DEF added
<1>15. /\ IsSeq(nodes')
       /\ Len(nodes') = Len(nodes) + k
       /\ \A i \in 1 .. Len(nodes) : nodes'[i] = IF i = n THEN parent ELSE nodes[i]
       /\ \A i \in 1 .. k : nodes'[Len(nodes) + i] = added[i]
  <2>1. /\ IsSeq(nodes')
        /\ Len(nodes') = Len(arena) + Len(added)
        /\ \A i \in 1 .. Len(arena) : nodes'[i] = arena[i]
        /\ \A i \in 1 .. Len(added) : nodes'[Len(arena) + i] = added[i]
    <3>0. IsSeq(arena) /\ IsSeq(added)
      BY <1>12, <1>13
    <3>1. /\ IsSeq(arena \o added)
          /\ Len(arena \o added) = Len(arena) + Len(added)
          /\ \A i \in 1 .. Len(arena) : (arena \o added)[i] = arena[i]
          /\ \A i \in 1 .. Len(added) : (arena \o added)[Len(arena) + i] = added[i]
      BY <3>0, JoinedSeq
    <3>2. nodes' = arena \o added
      BY <1>3
    <3>. QED
      BY <3>1, <3>2, Zenon
  <2>. QED
    BY <1>11, <1>12, <1>13, <2>1
<1>16. DOMAIN nodes' = 1 .. Len(nodes) + k
  BY <1>15, SeqFacts
<1>17. nodes'[n] = parent
  BY <1>4, <1>6, <1>15
<1>18. \A m \in DOMAIN nodes \ {n} : nodes'[m] = nodes[m]
  BY <1>4, <1>15
<1>19. ASSUME NEW m \in Len(nodes) + 1 .. Len(nodes) + k
       PROVE  \E i \in 1 .. k : m = Len(nodes) + i /\ nodes'[m] = added[i]
  <2>1. m - Len(nodes) \in 1 .. k /\ m = Len(nodes) + (m - Len(nodes))
    BY <1>4, <1>5
  <2>. QED
    BY <1>15, <2>1
<1>20. \A m \in Len(nodes) + 1 .. Len(nodes) + k :
         /\ IsNode(nodes'[m]) /\ nodes'[m].children = <<>> /\ nodes'[m].visits = 1 /\ nodes'[m].head = 0
         /\ nodes'[m].hero_depth = nodes[n].hero_depth + 1
         /\ nodes'[m].kind # "Leaf" => ~(nodes[n].hero_depth + 1 >= max_depth)
  BY <1>14, <1>19
<1>21. \A m \in DOMAIN nodes' : IsNode(nodes'[m])
  <2> SUFFICES ASSUME NEW m \in DOMAIN nodes' PROVE IsNode(nodes'[m])
    OBVIOUS
  <2>1. m \in Len(nodes) + 1 .. Len(nodes) + k \/ m = n \/ m \in DOMAIN nodes \ {n}
    BY <1>4, <1>5, <1>16
  <2>2. \A i \in DOMAIN nodes : IsNode(nodes[i])
    BY DEF ArenaInv
  <2>. QED
    BY <1>10, <1>17, <1>18, <1>20, <2>1, <2>2
<1>22. \A m \in DOMAIN nodes :
         /\ nodes'[m].kind = nodes[m].kind
         /\ nodes'[m].candidates = nodes[m].candidates
         /\ nodes'[m].hero_depth = nodes[m].hero_depth
         /\ nodes'[m].head = nodes[m].head
  BY <1>10, <1>17, <1>18
<1>23. \A c : c \in Children(n)' <=> c \in Children(n) \/ c \in Len(nodes) + 1 .. Len(nodes) + k
  <2>1. \A c : c \notin Children(n)
    BY <1>6 DEF Children
  <2>2. \A c : c \in Children(n)' <=> \E i \in 1 .. k : c = Len(nodes) + i
    BY <1>8, <1>9, <1>10, <1>17 DEF Children
  <2>3. \A c : c \in Len(nodes) + 1 .. Len(nodes) + k <=> \E i \in 1 .. k : c = Len(nodes) + i
    <3>1. \A i \in 1 .. k : Len(nodes) + i \in Len(nodes) + 1 .. Len(nodes) + k
      BY <1>4, <1>5
    <3>. QED
      BY <1>19, <3>1
  <2>. QED
    BY <2>1, <2>2, <2>3
<1>24. Lengthened(n, k)
  <2>1. Len(nodes[n].children) = 0
    BY <1>6, EmptySeq
  <2>2. nodes'[n].children = children
    BY <1>10, <1>17
  <2>. QED
    BY <1>5, <1>8, <1>9, <2>1, <2>2 DEF Lengthened
<1>25. NetIn(nodes', n) = NetIn(nodes, n)
  <2>1. Len(nodes[n].children) = 0
    BY <1>6, EmptySeq
  <2>2. /\ nodes'[n].kind = "Chance" /\ nodes[n].kind = "Chance"
        /\ nodes'[n].visits = nodes[n].visits + k /\ Len(nodes'[n].children) = k
    BY <1>6, <1>8, <1>10, <1>17
  <2>. QED
    BY <1>5, <1>7, <2>1, <2>2 DEF NetIn
<1>26. Grow(n, k)
  BY <1>5, <1>6, <1>15, <1>18, <1>20, <1>21, <1>22, <1>23, <1>24, <1>25 DEF Grow
<1>27. ASSUME NEW m \in fresh'
       PROVE  \/ m \in fresh \ {n}
              \/ m \in Len(nodes) + 1 .. Len(nodes) + k /\ nodes'[m].kind = "Chance"
  <2> SUFFICES ASSUME m \notin fresh \ {n}
               PROVE  m \in Len(nodes) + 1 .. Len(nodes) + k /\ nodes'[m].kind = "Chance"
    OBVIOUS
  <2>1. PICK i \in {j \in 1 .. k : made[j].kind = "Chance"} : m = children[i]
    BY <1>3
  <2>2. i \in 1 .. k /\ made[i].kind = "Chance" /\ m = Len(nodes) + i
    BY <1>9, <2>1
  <2>3. nodes'[m].kind = made[i].kind
    BY <1>14, <1>15, <2>2
  <2>4. m \in Len(nodes) + 1 .. Len(nodes) + k
    BY <1>4, <1>5, <2>2
  <2>. QED
    BY <2>2, <2>3, <2>4
<1>. QED
  BY <1>5, <1>10, <1>17, <1>20, <1>26, <1>27

(***************************************************************************)
(* Ways down an arena.                                                     *)
(***************************************************************************)
LEMMA OneOrMore ==
  ASSUME NEW k \in Nat
  PROVE  /\ k # 0 => k = 1 \/ k >= 2
         /\ k + 1 = 2 <=> k = 1
         /\ k = 1 => k + 1 = 2
         /\ \A i : i \in 3 .. k + 1 /\ i = k + 1 => k # 1
OBVIOUS

LEMMA WayDownFacts ==
  ASSUME NEW p, NEW arena, NEW top, WayDown(p, arena, top)
  PROVE  /\ Len(p) \in Nat
         /\ p = <<>> <=> Len(p) = 0
         /\ \A i \in 1 .. Len(p) : p[i] \in DOMAIN arena
         /\ Len(p) = 1 => p[Len(p)] = top
         /\ Len(p) >= 2 => p[Len(p)] > top
<1>1. /\ p \in Seq(DOMAIN arena) /\ (p # <<>> => p[1] = top)
      /\ \A i \in 2 .. Len(p) : p[i] > top
  BY DEF WayDown
<1>2. Len(p) \in Nat /\ (p = <<>> <=> Len(p) = 0)
  BY <1>1, EmptySeq, LenProperties
<1>3. \A i \in 1 .. Len(p) : p[i] \in DOMAIN arena
  BY <1>1, ElementOfSeq
<1>4. Len(p) = 1 => p[Len(p)] = top
  BY <1>1, <1>2
<1>5. Len(p) >= 2 => p[Len(p)] > top
  BY <1>1, <1>2
<1>. QED
  BY <1>2, <1>3, <1>4, <1>5

\* A way down stays one while the arena grows elsewhere.
LEMMA WayDownStays ==
  ASSUME NEW p, NEW arena, NEW top, WayDown(p, arena, top),
         NEW grownArena, DOMAIN arena \subseteq DOMAIN grownArena,
         \A c \in DOMAIN arena : c \in Branches(grownArena, top) <=> c \in Branches(arena, top)
  PROVE  WayDown(p, grownArena, top)
<1>1. /\ p \in Seq(DOMAIN arena) /\ (p # <<>> => p[1] = top)
      /\ \A i \in 2 .. Len(p) : p[i] > top
      /\ Len(p) >= 2 => p[2] \in Branches(arena, top)
      /\ \A i \in 3 .. Len(p) : p[i] \notin Branches(arena, top)
  BY DEF WayDown
<1>2. Len(p) \in Nat /\ \A i \in 1 .. Len(p) : p[i] \in DOMAIN arena
  BY WayDownFacts
<1>3. p \in Seq(DOMAIN grownArena)
  BY <1>1, SeqMonotonic
<1>4. Len(p) >= 2 => 2 \in 1 .. Len(p)
  BY <1>2
<1>5. \A i \in 3 .. Len(p) : i \in 1 .. Len(p)
  BY <1>2
<1>6. Len(p) >= 2 => p[2] \in Branches(grownArena, top)
  BY <1>1, <1>2, <1>4
<1>7. \A i \in 3 .. Len(p) : p[i] \notin Branches(grownArena, top)
  BY <1>1, <1>2, <1>5
<1>. QED
  BY <1>1, <1>3, <1>6, <1>7 DEF WayDown

\* One step further down, to c: a branch at the root, and none below it.
GoesDown(p, arena, top, c, q) ==
  /\ q = Append(p, c)
  /\ WayDown(p, arena, top) /\ p # <<>>
  /\ c \in DOMAIN arena /\ c > top
  /\ Len(p) = 1 => c \in Branches(arena, top)
  /\ Len(p) # 1 => c \notin Branches(arena, top)

LEMMA WayDownGoesOn ==
  ASSUME NEW p, NEW arena, NEW top, NEW c, NEW q, GoesDown(p, arena, top, c, q)
  PROVE  /\ WayDown(q, arena, top)
         /\ Len(q) = Len(p) + 1
         /\ q[Len(q)] = c
         /\ Len(p) >= 2 => q[2] = p[2]
<1>0. /\ WayDown(p, arena, top) /\ p # <<>> /\ c \in DOMAIN arena /\ c > top
      /\ Len(p) = 1 => c \in Branches(arena, top)
      /\ Len(p) # 1 => c \notin Branches(arena, top)
  BY DEF GoesDown
<1>1. /\ p \in Seq(DOMAIN arena) /\ p[1] = top
      /\ \A i \in 2 .. Len(p) : p[i] > top
      /\ Len(p) >= 2 => p[2] \in Branches(arena, top)
      /\ \A i \in 3 .. Len(p) : p[i] \notin Branches(arena, top)
  BY <1>0 DEF WayDown
<1>2. Len(p) \in Nat /\ Len(p) # 0
  BY <1>0, WayDownFacts
<1>3. /\ q \in Seq(DOMAIN arena)
      /\ Len(q) = Len(p) + 1
      /\ \A i \in 1 .. Len(p) : q[i] = p[i]
      /\ q[Len(p) + 1] = c
  BY <1>0, <1>1, AppendProperties DEF GoesDown
<1>4. q # <<>>
  BY <1>2, <1>3, EmptySeq
<1>5. q[1] = top
  BY <1>1, <1>2, <1>3
<1>6. ASSUME NEW i \in 2 .. Len(q) PROVE q[i] > top
  <2>1. i = Len(p) + 1 \/ (i \in 2 .. Len(p) /\ i \in 1 .. Len(p))
    BY <1>2, <1>3
  <2>2. CASE i = Len(p) + 1
    BY <1>0, <1>3, <2>2
  <2>3. CASE i \in 2 .. Len(p) /\ i \in 1 .. Len(p)
    BY <1>1, <1>3, <2>3
  <2>. QED
    BY <2>1, <2>2, <2>3
<1>7. Len(p) >= 2 => q[2] = p[2]
  BY <1>2, <1>3
<1>8. q[2] \in Branches(arena, top)
  <2>1. CASE Len(p) = 1
    BY <1>0, <1>3, <2>1
  <2>2. CASE Len(p) >= 2
    BY <1>1, <1>7, <2>2
  <2>3. Len(p) = 1 \/ Len(p) >= 2
    BY <1>2, OneOrMore, Zenon
  <2>. QED
    BY <2>1, <2>2, <2>3, Zenon
<1>9. ASSUME NEW i \in 3 .. Len(q) PROVE q[i] \notin Branches(arena, top)
  <2>1. i = Len(p) + 1 \/ (i \in 3 .. Len(p) /\ i \in 1 .. Len(p))
    BY <1>2, <1>3
  <2>2. CASE i = Len(p) + 1
    <3>1. i \in 3 .. Len(p) + 1
      BY <1>3
    <3>2. Len(p) # 1
      BY <1>2, <2>2, <3>1, OneOrMore, Zenon
    <3>. QED
      BY <1>0, <1>3, <2>2, <3>2
  <2>3. CASE i \in 3 .. Len(p) /\ i \in 1 .. Len(p)
    BY <1>1, <1>3, <2>3
  <2>. QED
    BY <2>1, <2>2, <2>3
<1>10. WayDown(q, arena, top)
  BY <1>3, <1>5, <1>6, <1>8, <1>9 DEF WayDown
<1>11. q[Len(q)] = c
  BY <1>3
<1>. QED
  BY <1>3, <1>7, <1>10, <1>11

(***************************************************************************)
(* The steps keep the invariant.                                           *)
(***************************************************************************)
LEMMA ArenaFacts ==
  ASSUME ArenaInv
  PROVE  /\ Len(nodes) \in Nat
         /\ DOMAIN nodes = 1 .. Len(nodes)
         /\ root \in DOMAIN nodes /\ root \in Nat
         /\ \A n \in DOMAIN nodes : nodes[n].visits \in Nat /\ nodes[n].head \in Nat
         /\ \A n \in DOMAIN nodes : \A c \in Children(n) : c \in DOMAIN nodes /\ c > n
<1>1. Len(nodes) \in Nat /\ DOMAIN nodes = 1 .. Len(nodes)
  BY SeqFacts DEF ArenaInv, IsSeq
<1>2. root \in DOMAIN nodes /\ root \in Nat
  BY <1>1 DEF ArenaInv
<1>3. \A n \in DOMAIN nodes : nodes[n].visits \in Nat /\ nodes[n].head \in Nat
  BY DEF ArenaInv, IsNode
<1>4. ASSUME NEW n \in DOMAIN nodes, NEW c \in Children(n)
      PROVE  c \in DOMAIN nodes /\ c > n
  <2>1. c \in n + 1 .. Len(nodes)
    BY DEF ArenaInv
  <2>. QED
    BY <1>1, <2>1
<1>. QED
  BY <1>1, <1>2, <1>3, <1>4

\* Without a path nothing is open.
LEMMA AtRestNothingIsOpen ==
  ASSUME PathInv, FreshInv
  PROVE  /\ Len(path) \in Nat
         /\ Between <=> Len(path) = 0
         /\ Between => ~grown
         /\ ~grown => fresh = {} /\ ~NewBranch
<1>1. Len(path) \in Nat /\ (path = <<>> <=> Len(path) = 0)
  BY WayDownFacts DEF PathInv
<1>2. Between => ~grown
  BY <1>1 DEF Between, PathInv
<1>3. ~grown => fresh = {}
  BY DEF FreshInv
<1>. QED
  BY <1>1, <1>2, <1>3 DEF Between, NewBranch

LEMMA ArenaStaysATree ==
  ASSUME ArenaInv, root' = root, NEW n, NEW k, Grow(n, k)
  PROVE  /\ ArenaInv'
         /\ DOMAIN nodes' = 1 .. Len(nodes) + k
         /\ DOMAIN nodes \subseteq DOMAIN nodes'
         /\ n # root => \A c : c \in Children(root)' <=> c \in Children(root)
         /\ \A c \in DOMAIN nodes : c \in Children(root)' <=> c \in Children(root)
<1>1. Len(nodes) \in Nat /\ DOMAIN nodes = 1 .. Len(nodes)
  BY ArenaFacts
<1>2. k \in Nat /\ Len(nodes') = Len(nodes) + k /\ n \in DOMAIN nodes
  BY DEF Grow
<1>3. DOMAIN nodes' = 1 .. Len(nodes) + k
  BY <1>2, SeqFacts DEF Grow
<1>4. DOMAIN nodes \subseteq DOMAIN nodes'
  BY <1>1, <1>2, <1>3
<1>5. ASSUME NEW m \in DOMAIN nodes, m # n
      PROVE  \A c : c \in Children(m)' <=> c \in Children(m)
  BY <1>5 DEF Grow, Children
<1>6. \A c : c \in Children(n)' <=> c \in Children(n) \/ c \in Len(nodes) + 1 .. Len(nodes) + k
  BY DEF Grow
<1>7. ASSUME NEW m \in Len(nodes) + 1 .. Len(nodes) + k
      PROVE  \A c : c \notin Children(m)'
  <2>1. nodes'[m].children = <<>>
    BY DEF Grow
  <2>. QED
    BY <2>1 DEF Children
<1>8. \A m \in DOMAIN nodes' : m = n \/ (m \in DOMAIN nodes /\ m # n) \/ m \in Len(nodes) + 1 .. Len(nodes) + k
  BY <1>1, <1>2, <1>3
<1>9. \A m \in DOMAIN nodes : \A c \in Children(m) : c \in m + 1 .. Len(nodes) /\ c \in DOMAIN nodes
  BY ArenaFacts DEF ArenaInv
<1>10. ASSUME NEW m \in DOMAIN nodes', NEW c \in Children(m)'
       PROVE  c \in m + 1 .. Len(nodes')
  <2>1. CASE m = n
    <3>1. CASE c \in Children(n)
      <4>1. c \in n + 1 .. Len(nodes)
        BY <1>2, <1>9, <3>1
      <4>. QED
        BY <1>1, <1>2, <2>1, <4>1
    <3>2. CASE c \in Len(nodes) + 1 .. Len(nodes) + k
      BY <1>1, <1>2, <2>1, <3>2
    <3>. QED
      BY <1>6, <2>1, <3>1, <3>2
  <2>2. CASE m \in DOMAIN nodes /\ m # n
    <3>1. c \in Children(m)
      BY <1>5, <2>2
    <3>2. c \in m + 1 .. Len(nodes)
      BY <1>9, <2>2, <3>1
    <3>. QED
      BY <1>1, <1>2, <2>2, <3>2
  <2>3. CASE m \in Len(nodes) + 1 .. Len(nodes) + k
    BY <1>7, <2>3
  <2>. QED
    BY <1>8, <2>1, <2>2, <2>3
<1>11. ASSUME NEW l \in DOMAIN nodes', NEW m \in DOMAIN nodes', l # m,
              NEW c, c \in Children(l)', c \in Children(m)'
       PROVE  FALSE
  <2>1. (l = n \/ (l \in DOMAIN nodes /\ l # n)) /\ (m = n \/ (m \in DOMAIN nodes /\ m # n))
    BY <1>7, <1>8, <1>11
  <2>2. l \in DOMAIN nodes /\ m \in DOMAIN nodes
    BY <1>2, <2>1
  <2>3. CASE l # n /\ m # n
    <3>1. c \in Children(l) /\ c \in Children(m)
      BY <1>5, <1>11, <2>2, <2>3
    <3>. QED
      BY <1>11, <2>2, <3>1 DEF ArenaInv
  <2>4. ASSUME NEW j \in DOMAIN nodes, j # n, c \in Children(j)', c \in Children(n)' PROVE FALSE
    <3>1. c \in Children(j)
      BY <1>5, <2>4
    <3>2. c \in DOMAIN nodes
      BY <1>9, <3>1
    <3>3. c \in Children(n)
      BY <1>1, <1>2, <1>6, <2>4, <3>2
    <3>. QED
      BY <1>2, <2>4, <3>1, <3>3 DEF ArenaInv
  <2>. QED
    BY <1>11, <2>1, <2>2, <2>3, <2>4
<1>12. root \in DOMAIN nodes' /\ nodes'[root].kind = "Decision"
  BY <1>4 DEF ArenaInv, Grow
<1>13. ArenaInv'
  <2>1. nodes' \in Seq(Range(nodes'))
    BY DEF Grow, IsSeq
  <2>2. \A m \in DOMAIN nodes' : IsNode(nodes'[m])
    BY DEF Grow
  <2>. QED
    BY <1>10, <1>11, <1>12, <2>1, <2>2 DEF ArenaInv
<1>14. n # root => \A c : c \in Children(root)' <=> c \in Children(root)
  <2> SUFFICES ASSUME n # root PROVE \A c : c \in Children(root)' <=> c \in Children(root)
    OBVIOUS
  <2>1. nodes'[root] = nodes[root]
    BY DEF ArenaInv, Grow
  <2>. QED
    BY <2>1 DEF Children
<1>15. \A c \in DOMAIN nodes : c \in Children(root)' <=> c \in Children(root)
  <2>1. CASE n # root
    BY <1>14, <2>1
  <2>2. CASE n = root
    <3>1. \A c : c \in Children(root)' <=> c \in Children(root) \/ c \in Len(nodes) + 1 .. Len(nodes) + k
      BY <1>6, <2>2 DEF Children
    <3>. QED
      BY <1>1, <1>2, <3>1
  <2>. QED
    BY <2>1, <2>2
<1>. QED
  BY <1>3, <1>4, <1>13, <1>14, <1>15

\* The path starts at the root.
LEMMA FirstOfThePath ==
  ASSUME ArenaInv
  PROVE  WayDown(<<root>>, nodes, root) /\ <<root>> # <<>> /\ Len(<<root>>) = 1 /\ <<root>>[1] = root
BY ArenaFacts DEF WayDown

\* The path, or the beginning of one.
GoesOnFrom(p, n) ==
  /\ n = p[Len(p)]
  /\ \/ p = path /\ path # <<>>
     \/ p = <<root>> /\ path = <<>>

\* Opening a child of the last node of the path, or of the root.
LEMMA ExpandKeeps ==
  ASSUME TreeInv, ~grown, root' = root, phase' = phase,
         NEW p, NEW n, GoesOnFrom(p, n),
         expand_one_child(n, p)
  PROVE  TreeInv'
<1>1. ArenaInv /\ PathInv /\ FreshInv /\ PlayedInv /\ ShareInv
  BY DEF TreeInv
<1>2. /\ Len(nodes) \in Nat /\ DOMAIN nodes = 1 .. Len(nodes)
      /\ root \in DOMAIN nodes /\ root \in Nat
      /\ \A m \in DOMAIN nodes : \A c \in Children(m) : c \in DOMAIN nodes /\ c > m
  BY <1>1, ArenaFacts
<1>3. WayDown(p, nodes, root) /\ p # <<>>
  BY <1>1, FirstOfThePath DEF PathInv, GoesOnFrom
<1>4. /\ Len(p) \in Nat /\ Len(p) # 0 /\ n \in DOMAIN nodes
      /\ Len(p) = 1 => n = root
      /\ Len(p) >= 2 => n > root /\ n # root
      /\ Len(p) = 1 \/ Len(p) >= 2
  <2>1. /\ Len(p) \in Nat /\ Len(p) # 0
        /\ \A i \in 1 .. Len(p) : p[i] \in DOMAIN nodes
        /\ Len(p) = 1 => p[Len(p)] = root
        /\ Len(p) >= 2 => p[Len(p)] > root
    BY <1>3, WayDownFacts
  <2>2. Len(p) \in 1 .. Len(p)
    BY <2>1
  <2>3. Len(p) = 1 \/ Len(p) >= 2
    BY <2>1, OneOrMore, Zenon
  <2>4. n \in DOMAIN nodes /\ n = p[Len(p)]
    BY <2>1, <2>2 DEF GoesOnFrom
  <2>5. n > root => n # root
    BY <1>2, <2>4
  <2>. QED
    BY <2>1, <2>3, <2>4, <2>5
<1>. DEFINE child == Len(nodes) + 1
<1>5. /\ Untried(n)
      /\ Grow(n, 1)
      /\ nodes'[n].visits = nodes[n].visits
      /\ nodes'[child].visits = 0
      /\ path' = Append(p, child)
      /\ grown' = TRUE
      /\ \A m \in fresh' : m = child /\ nodes'[m].kind = "Chance"
  BY <1>1, <1>4, ExpandGrows
<1>6. /\ ArenaInv'
      /\ DOMAIN nodes' = 1 .. Len(nodes) + 1
      /\ DOMAIN nodes \subseteq DOMAIN nodes'
      /\ n # root => \A c : c \in Children(root)' <=> c \in Children(root)
      /\ \A c \in DOMAIN nodes : c \in Children(root)' <=> c \in Children(root)
  BY <1>1, <1>5, ArenaStaysATree
<1>7. child \in DOMAIN nodes' /\ child > root /\ child \notin DOMAIN nodes /\ child # 1
  BY <1>2, <1>6
<1>8. child \in Children(n)'
  <2>1. \A c : c \in Children(n)' <=> c \in Children(n) \/ c \in Len(nodes) + 1 .. Len(nodes) + 1
    BY <1>5 DEF Grow
  <2>2. child \in Len(nodes) + 1 .. Len(nodes) + 1
    BY <1>2
  <2>. QED
    BY <2>1, <2>2
<1>9. /\ Len(p) = 1 => child \in Children(root)'
      /\ Len(p) # 1 => child \notin Children(root)' /\ n # root
  <2>1. CASE Len(p) = 1
    <3>1. Children(root)' = Children(n)'
      BY <1>4, <2>1 DEF Children
    <3>. QED
      BY <1>8, <2>1, <3>1
  <2>2. CASE Len(p) # 1
    <3>1. n # root
      BY <1>4, <2>2, Zenon
    <3>2. child \notin Children(root)
      BY <1>2, <1>7
    <3>. QED
      BY <1>6, <2>2, <3>1, <3>2
  <2>. QED
    BY <2>1, <2>2
<1>10. /\ \A c : c \in Branches(nodes, root) <=> c \in Children(root)
       /\ \A c : c \in Branches(nodes', root) <=> c \in Children(root)'
  BY DEF Branches, Children
<1>11. WayDown(p, nodes', root)
  <2>1. \A c \in DOMAIN nodes : c \in Branches(nodes', root) <=> c \in Branches(nodes, root)
    BY <1>6, <1>10
  <2>. QED
    BY <1>3, <1>6, <2>1, WayDownStays
<1>. HIDE DEF child
<1>12. /\ WayDown(path', nodes', root)
       /\ Len(path') = Len(p) + 1
       /\ path'[Len(path')] = child
       /\ Len(p) >= 2 => path'[2] = p[2]
  <2>1. GoesDown(p, nodes', root, child, path')
    BY <1>3, <1>5, <1>7, <1>9, <1>10, <1>11 DEF child, GoesDown
  <2>. QED
    BY <2>1, WayDownGoesOn
<1>13. PathInv'
  <2>1. Len(path') >= 2
    BY <1>4, <1>12
  <2>2. WayDown(path', nodes', root')
    BY <1>12
  <2>. QED
    BY <1>5, <2>1, <2>2 DEF PathInv
<1>14. NewBranch' <=> Len(p) = 1
  <2>1. Len(path') = 2 <=> Len(p) = 1
    BY <1>4, <1>12, OneOrMore, Zenon
  <2>. QED
    BY <1>5, <2>1, Zenon DEF NewBranch
<1>15. FreshInv'
  <2> SUFFICES ASSUME NEW m \in fresh'
               PROVE  /\ m \in DOMAIN nodes'
                      /\ nodes'[m].kind = "Chance"
                      /\ nodes'[m].children = <<>>
                      /\ grown'
                      /\ m \in Children(root)' => NewBranch' /\ m = path'[2]
    BY DEF FreshInv
  <2>1. m = child /\ nodes'[m].kind = "Chance"
    BY <1>5
  <2>2. nodes'[m].children = <<>>
    <3>1. child \in Len(nodes) + 1 .. Len(nodes) + 1
      BY <1>2 DEF child
    <3>. QED
      BY <1>5, <2>1, <3>1 DEF Grow
  <2>3. m \in Children(root)' => NewBranch' /\ m = path'[2]
    <3> SUFFICES ASSUME m \in Children(root)' PROVE NewBranch' /\ m = path'[2]
      OBVIOUS
    <3>1. Len(p) = 1
      BY <1>9, <2>1
    <3>2. path'[2] = child
      BY <1>12, <3>1
    <3>. QED
      BY <1>14, <2>1, <3>1, <3>2
  <2>. QED
    BY <1>5, <1>7, <2>1, <2>2, <2>3
<1>16. \A m \in DOMAIN nodes : nodes'[m].visits = nodes[m].visits /\ nodes'[m].head = nodes[m].head
  BY <1>5 DEF Grow
<1>17. \A m \in DOMAIN nodes' : m = child \/ m \in DOMAIN nodes
  BY <1>2, <1>6 DEF child
<1>18. Len(p) = 1 => Untried(root)
  BY <1>4, <1>5
<1>19. Len(p) # 1 => (Untried(root)' <=> Untried(root))
  <2> SUFFICES ASSUME Len(p) # 1 PROVE Untried(root)' <=> Untried(root)
    OBVIOUS
  <2>1. nodes'[root] = nodes[root]
    BY <1>2, <1>5, <1>9 DEF Grow
  <2>. QED
    BY <2>1 DEF Untried
<1>20. PlayedInv'
  <2>1. ASSUME NEW m \in DOMAIN nodes' \ {1}
        PROVE  nodes'[m].visits > 0 \/ (grown' /\ m = path'[Len(path')])
    <3>1. CASE m = child
      BY <1>5, <1>12, <3>1
    <3>2. CASE m \in DOMAIN nodes
      BY <1>1, <1>16, <3>2 DEF PlayedInv
    <3>. QED
      BY <1>17, <3>1, <3>2
  <2>2. phase' = "Rest" => ~Untried(root)'
    BY <1>1, <1>18, <1>19 DEF PlayedInv
  <2>. QED
    BY <2>1, <2>2 DEF PlayedInv
<1>21. ~NewBranch
  BY DEF NewBranch
<1>22. Settled = Children(root)
  BY <1>21 DEF Settled
<1>23. ShareInv'
  <2>1. CASE Len(p) = 1
    <3>1. path'[2] = child /\ NewBranch'
      BY <1>12, <1>14, <2>1
    <3>2. ASSUME NEW c \in Settled' PROVE nodes'[c].visits <= nodes'[c].head
      <4>1. c \in Children(root)' /\ c \in DOMAIN nodes'
        BY <1>6, ArenaFacts DEF Settled, ArenaInv
      <4>2. c # child
        BY <3>1, <4>1 DEF Settled
      <4>3. c \in DOMAIN nodes /\ c \in Children(root)
        BY <1>6, <1>17, <4>1, <4>2
      <4>4. nodes[c].visits <= nodes[c].head
        BY <1>1, <1>18, <1>22, <2>1, <4>3 DEF ShareInv
      <4>. QED
        BY <1>16, <4>3, <4>4
    <3>. QED
      BY <3>1, <3>2 DEF ShareInv
  <2>2. CASE Len(p) # 1
    <3>1. ~NewBranch' /\ Len(p) >= 2 /\ p = path
      <4>1. Len(p) >= 2
        BY <1>4, <2>2, Zenon
      <4>2. p = path
        BY <2>2, FirstOfThePath, <1>1 DEF GoesOnFrom
      <4>. QED
        BY <1>14, <2>2, <4>1, <4>2
    <3>2. \A c : c \in Children(root)' <=> c \in Children(root)
      BY <1>6, <1>9, <2>2
    <3>3. \A c \in Children(root) : c \in DOMAIN nodes
      BY <1>2
    <3>4. ~Untried(root) /\ \A d \in Children(root) : nodes[path[2]].visits <= nodes[d].visits
      BY <1>1, <1>21, <3>1 DEF ShareInv
    <3>5. ~Untried(root)'
      BY <1>19, <2>2, <3>4
    <3>6. \A c, d \in Children(root) :
            nodes[c].visits <= nodes[c].head \/ nodes[c].visits <= nodes[d].visits + 1
      BY <1>1, <1>21 DEF ShareInv
    <3>7. path'[2] = path[2] /\ path[2] \in DOMAIN nodes
      <4>1. path[2] \in Children(root)
        BY <1>3, <1>10, <3>1 DEF WayDown
      <4>. QED
        BY <1>12, <3>1, <3>3, <4>1
    <3>8. ASSUME NEW c \in Children(root)', NEW d \in Children(root)'
          PROVE  /\ nodes'[c].visits <= nodes'[c].head \/ nodes'[c].visits <= nodes'[d].visits + 1
                 /\ nodes'[path'[2]].visits <= nodes'[d].visits
      <4>1. c \in Children(root) /\ d \in Children(root) /\ c \in DOMAIN nodes /\ d \in DOMAIN nodes
        BY <3>2, <3>3
      <4>. QED
        BY <1>16, <3>4, <3>6, <3>7, <4>1
    <3>. QED
      BY <3>1, <3>5, <3>8 DEF ShareInv
  <2>. QED
    BY <2>1, <2>2
<1>. QED
  BY <1>6, <1>13, <1>15, <1>20, <1>23 DEF TreeInv

\* Expanding a chance node: it is not the root, and a branch of the root only if
\* it is the one just opened.
LEMMA ChanceKeeps ==
  ASSUME TreeInv, ExpandChance
  PROVE  TreeInv'
<1>1. ArenaInv /\ PathInv /\ FreshInv /\ PlayedInv /\ ShareInv
  BY DEF TreeInv
<1>2. UNCHANGED <<root, path, grown, phase>>
  BY DEF ExpandChance
<1>3. /\ Len(nodes) \in Nat /\ DOMAIN nodes = 1 .. Len(nodes)
      /\ root \in DOMAIN nodes
      /\ \A m \in DOMAIN nodes : nodes[m].visits \in Nat
      /\ \A m \in DOMAIN nodes : \A c \in Children(m) : c \in DOMAIN nodes /\ c > m
  BY <1>1, ArenaFacts
<1>4. PICK n \in fresh, k \in Nat :
        /\ Grow(n, k)
        /\ nodes'[n].visits = nodes[n].visits + k
        /\ \A m \in Len(nodes) + 1 .. Len(nodes) + k : nodes'[m].visits = 1 /\ nodes'[m].head = 0
        /\ \A m \in fresh' :
             \/ m \in fresh \ {n}
             \/ m \in Len(nodes) + 1 .. Len(nodes) + k /\ nodes'[m].kind = "Chance"
  BY <1>1, ChanceGrows
<1>5. /\ n \in DOMAIN nodes /\ nodes[n].kind = "Chance" /\ grown
      /\ n \in Children(root) => NewBranch /\ n = path[2]
  BY <1>1 DEF FreshInv
<1>6. n # root
  BY <1>1, <1>5 DEF ArenaInv
<1>7. /\ ArenaInv'
      /\ DOMAIN nodes' = 1 .. Len(nodes) + k
      /\ DOMAIN nodes \subseteq DOMAIN nodes'
      /\ \A c : c \in Children(root)' <=> c \in Children(root)
  BY <1>1, <1>2, <1>4, <1>6, ArenaStaysATree
<1>8. \A m \in DOMAIN nodes \ {n} : nodes'[m] = nodes[m]
  BY <1>4 DEF Grow
<1>9. PathInv'
  <2>1. \A c : c \in Branches(nodes', root) <=> c \in Branches(nodes, root)
    BY <1>2, <1>7 DEF Branches, Children
  <2>2. WayDown(path, nodes, root)
    BY <1>1 DEF PathInv
  <2>3. WayDown(path, nodes', root)
    BY <1>7, <2>1, <2>2, WayDownStays
  <2>. QED
    BY <1>1, <1>2, <2>3 DEF PathInv
<1>10. NewBranch' <=> NewBranch
  BY <1>2 DEF NewBranch
<1>11. Untried(root)' <=> Untried(root)
  <2>1. nodes'[root] = nodes[root]
    BY <1>3, <1>6, <1>8
  <2>. QED
    BY <1>2, <2>1 DEF Untried
<1>12. \A m \in DOMAIN nodes' : m \in DOMAIN nodes \/ m \in Len(nodes) + 1 .. Len(nodes) + k
  BY <1>3, <1>7
<1>13. \A m \in Len(nodes) + 1 .. Len(nodes) + k : m \in DOMAIN nodes' /\ m \notin DOMAIN nodes
  BY <1>3, <1>7
<1>14. FreshInv'
  <2> SUFFICES ASSUME NEW m \in fresh'
               PROVE  /\ m \in DOMAIN nodes'
                      /\ nodes'[m].kind = "Chance"
                      /\ nodes'[m].children = <<>>
                      /\ grown'
                      /\ m \in Children(root)' => NewBranch' /\ m = path'[2]
    BY DEF FreshInv
  <2>1. CASE m \in fresh \ {n}
    <3>1. /\ m \in DOMAIN nodes /\ nodes[m].kind = "Chance" /\ nodes[m].children = <<>>
          /\ grown
          /\ m \in Children(root) => NewBranch /\ m = path[2]
      BY <1>1, <2>1 DEF FreshInv
    <3>2. nodes'[m] = nodes[m] /\ m \in DOMAIN nodes'
      BY <1>7, <1>8, <2>1, <3>1
    <3>. QED
      BY <1>2, <1>7, <1>10, <3>1, <3>2
  <2>2. CASE m \in Len(nodes) + 1 .. Len(nodes) + k /\ nodes'[m].kind = "Chance"
    <3>1. nodes'[m].children = <<>>
      BY <1>4, <2>2 DEF Grow
    <3>2. m \notin Children(root)'
      BY <1>3, <1>7, <1>13, <2>2
    <3>. QED
      BY <1>2, <1>5, <1>13, <2>2, <3>1, <3>2
  <2>. QED
    BY <1>4, <2>1, <2>2
<1>15. PlayedInv'
  <2>1. ASSUME NEW m \in DOMAIN nodes' \ {1}
        PROVE  nodes'[m].visits > 0 \/ (grown' /\ m = path'[Len(path')])
    <3>1. CASE m \in Len(nodes) + 1 .. Len(nodes) + k
      <4>1. nodes'[m].visits = 1
        BY <1>4, <3>1
      <4>. QED
        BY <4>1
    <3>2. CASE m \in DOMAIN nodes /\ m # n
      BY <1>1, <1>2, <1>8, <3>2 DEF PlayedInv
    <3>3. CASE m = n
      <4>1. nodes[n].visits > 0 \/ (grown /\ n = path[Len(path)])
        BY <1>1, <1>5, <3>3 DEF PlayedInv
      <4>2. nodes[n].visits \in Nat
        BY <1>3, <1>5
      <4>3. nodes[n].visits > 0 => nodes[n].visits + k > 0
        BY <4>2
      <4>. QED
        BY <1>2, <1>4, <3>3, <4>1, <4>3
    <3>. QED
      BY <1>12, <3>1, <3>2, <3>3
  <2>. QED
    BY <1>1, <1>2, <1>11, <2>1 DEF PlayedInv
<1>16. ShareInv'
  <2>1. NewBranch \/ \A c \in Children(root) : c # n
    BY <1>5
  <2>2. \A c \in Children(root) : c \in DOMAIN nodes
    BY <1>3
  <2>3. ASSUME NewBranch' \/ Untried(root)', NEW c \in Settled'
        PROVE  nodes'[c].visits <= nodes'[c].head
    <3>1. c \in Children(root) /\ c \in DOMAIN nodes
      BY <1>7, <2>2 DEF Settled
    <3>2. c \in Settled
      BY <1>2, <1>7, <1>10, <3>1 DEF Settled
    <3>3. c # n
      BY <1>5, <3>1, <3>2 DEF Settled
    <3>4. nodes[c].visits <= nodes[c].head
      BY <1>1, <1>10, <1>11, <2>3, <3>2 DEF ShareInv
    <3>. QED
      BY <1>8, <3>1, <3>3, <3>4
  <2>4. ASSUME ~NewBranch' PROVE \A c \in Children(root)' : c \in Children(root) /\ nodes'[c] = nodes[c]
    BY <1>7, <1>8, <1>10, <2>1, <2>2, <2>4
  <2>5. ASSUME ~NewBranch', NEW c \in Children(root)', NEW d \in Children(root)'
        PROVE  nodes'[c].visits <= nodes'[c].head \/ nodes'[c].visits <= nodes'[d].visits + 1
    <3>1. nodes'[c] = nodes[c] /\ nodes'[d] = nodes[d] /\ c \in Children(root) /\ d \in Children(root)
      BY <2>4, <2>5
    <3>2. nodes[c].visits <= nodes[c].head \/ nodes[c].visits <= nodes[d].visits + 1
      BY <1>1, <1>10, <2>5, <3>1 DEF ShareInv
    <3>. QED
      BY <3>1, <3>2
  <2>6. ASSUME Len(path') >= 2, ~NewBranch'
        PROVE  /\ ~Untried(root)'
               /\ \A d \in Children(root)' : nodes'[path'[2]].visits <= nodes'[d].visits
    <3>1. Len(path) >= 2 /\ ~NewBranch
      BY <1>2, <1>10, <2>6
    <3>2. ~Untried(root) /\ \A d \in Children(root) : nodes[path[2]].visits <= nodes[d].visits
      BY <1>1, <3>1 DEF ShareInv
    <3>3. path[2] \in Children(root)
      BY <1>1, <3>1 DEF PathInv, WayDown, Branches, Children
    <3>4. nodes'[path[2]] = nodes[path[2]]
      BY <1>7, <2>4, <2>6, <3>3
    <3>. QED
      BY <1>2, <1>11, <2>4, <2>6, <3>2, <3>4
  <2>. QED
    BY <2>3, <2>5, <2>6 DEF ShareInv
<1>. QED
  BY <1>7, <1>9, <1>14, <1>15, <1>16 DEF TreeInv

\* An arena that is left alone.
LEMMA ArenaLeftAlone ==
  ASSUME ArenaInv, nodes' = nodes, root' = root
  PROVE  ArenaInv'
<1>1. \A m : Children(m)' = Children(m)
  BY DEF Children
<1>. QED
  BY <1>1 DEF ArenaInv

\* The path goes down: at the root to a branch that had least.
LEMMA DescendKeeps ==
  ASSUME TreeInv, Descend
  PROVE  TreeInv'
<1>1. ArenaInv /\ PathInv /\ FreshInv /\ PlayedInv /\ ShareInv
  BY DEF TreeInv
<1>2. ~grown /\ path # <<>> /\ root' = root /\ phase' = phase
  BY DEF Descend, Between
<1>. DEFINE n == path[Len(path)]
<1>3. \/ expand_one_child(n, path)
      \/ /\ ~Untried(n)
         /\ \E c \in Selected(n) : path' = Append(path, c)
         /\ UNCHANGED <<nodes, grown, fresh>>
  BY DEF Descend, Last
<1>4. CASE expand_one_child(n, path)
  <2>1. GoesOnFrom(path, n)
    BY <1>2 DEF GoesOnFrom
  <2>. QED
    BY <1>2, <1>4, <2>1, ExpandKeeps
<1>5. ASSUME ~Untried(n), NEW c \in Selected(n), path' = Append(path, c),
             UNCHANGED <<nodes, grown, fresh>>
      PROVE  TreeInv'
  <2>1. /\ Len(nodes) \in Nat /\ DOMAIN nodes = 1 .. Len(nodes)
        /\ root \in DOMAIN nodes /\ root \in Nat
        /\ \A m \in DOMAIN nodes : \A d \in Children(m) : d \in DOMAIN nodes /\ d > m
    BY <1>1, ArenaFacts
  <2>2. /\ Len(path) \in Nat /\ Len(path) # 0
        /\ \A i \in 1 .. Len(path) : path[i] \in DOMAIN nodes
        /\ Len(path) = 1 => n = root
        /\ Len(path) >= 2 => n > root
    BY <1>1, <1>2, WayDownFacts DEF PathInv
  <2>3. Len(path) = 1 \/ Len(path) >= 2
    BY <2>2, OneOrMore, Zenon
  <2>4. n \in DOMAIN nodes
    <3>1. Len(path) \in 1 .. Len(path)
      BY <2>2
    <3>. QED
      BY <2>2, <3>1
  <2>. HIDE DEF n
  <2>5. c \in Children(n)
    BY <1>5 DEF Selected, select_least_visited
  <2>6. c \in DOMAIN nodes /\ c > n
    BY <2>1, <2>4, <2>5
  <2>7. c > root
    BY <2>1, <2>2, <2>3, <2>4, <2>6
  <2>8. Len(path) # 1 => n # root /\ c \notin Children(root)
    <3> SUFFICES ASSUME Len(path) # 1 PROVE n # root /\ c \notin Children(root)
      OBVIOUS
    <3>1. n > root
      BY <2>2, <2>3
    <3>2. n # root
      BY <2>1, <2>4, <3>1
    <3>. QED
      BY <1>1, <2>1, <2>4, <2>5, <3>2 DEF ArenaInv
  <2>9. \A d : d \in Branches(nodes, root) <=> d \in Children(root)
    BY DEF Branches, Children
  <2>10. GoesDown(path, nodes, root, c, path')
    BY <1>1, <1>2, <1>5, <2>2, <2>5, <2>6, <2>7, <2>8, <2>9 DEF GoesDown, PathInv
  <2>11. /\ WayDown(path', nodes, root)
         /\ Len(path') = Len(path) + 1
         /\ path'[Len(path')] = c
         /\ Len(path) >= 2 => path'[2] = path[2]
    BY <2>10, WayDownGoesOn
  <2>12. ~grown' /\ grown' \in BOOLEAN /\ nodes' = nodes /\ fresh' = {}
    BY <1>1, <1>2, <1>5 DEF FreshInv, PathInv
  <2>13. ArenaInv'
    BY <1>1, <1>2, <2>12, ArenaLeftAlone
  <2>14. PathInv'
    BY <1>2, <2>11, <2>12 DEF PathInv
  <2>15. FreshInv'
    BY <2>12 DEF FreshInv
  <2>16. ~NewBranch /\ ~NewBranch'
    BY <1>2, <2>12 DEF NewBranch
  <2>17. /\ Untried(root)' <=> Untried(root)
         /\ \A d : d \in Children(root)' <=> d \in Children(root)
    BY <1>2, <2>12 DEF Untried, Children
  <2>18. PlayedInv'
    BY <1>1, <1>2, <2>12, <2>17 DEF PlayedInv
  <2>19. ~Untried(root) /\ \A d \in Children(root) : nodes[path'[2]].visits <= nodes[d].visits
    <3>1. CASE Len(path) = 1
      <4>1. n = root /\ path'[2] = c
        BY <2>2, <2>11, <3>1
      <4>2. c \in select_least_visited(root)
        BY <1>5, <4>1 DEF Selected
      <4>3. \A m \in DOMAIN nodes : nodes[m].visits \in Nat
        BY <1>1, ArenaFacts
      <4>4. ASSUME NEW d \in Children(root) PROVE nodes[c].visits <= nodes[d].visits
        <5>1. nodes[c].visits < nodes[d].visits \/ nodes[c].visits = nodes[d].visits
          BY <4>2 DEF select_least_visited
        <5>2. nodes[c].visits \in Nat /\ nodes[d].visits \in Nat
          BY <2>1, <2>6, <4>3
        <5>. QED
          BY <5>1, <5>2
      <4>. QED
        BY <1>5, <4>1, <4>4
    <3>2. CASE Len(path) >= 2
      BY <1>1, <2>11, <2>16, <3>2 DEF ShareInv
    <3>. QED
      BY <2>3, <3>1, <3>2
  <2>20. Settled' = Children(root)' /\ Settled = Children(root)
    BY <2>16 DEF Settled
  <2>21. ShareInv'
    <3>1. \A d, e \in Children(root)' :
            nodes'[d].visits <= nodes'[d].head \/ nodes'[d].visits <= nodes'[e].visits + 1
      BY <1>1, <2>12, <2>16, <2>17 DEF ShareInv
    <3>2. ~Untried(root)' /\ \A d \in Children(root)' : nodes'[path'[2]].visits <= nodes'[d].visits
      BY <2>12, <2>17, <2>19
    <3>. QED
      BY <2>16, <3>1, <3>2 DEF ShareInv
  <2>. QED
    BY <2>13, <2>14, <2>15, <2>18, <2>21 DEF TreeInv
<1>. QED
  BY <1>3, <1>4, <1>5

\* The fields of a node that counts a playout, or is given a head start.
LEMMA VisitedFacts ==
  ASSUME NEW x, IsNode(x), NEW f, NEW y, y = Visited(x, f)
  PROVE  /\ IsNode(y) /\ y.kind = x.kind /\ y.candidates = x.candidates
         /\ y.hero_depth = x.hero_depth
         /\ y.children = x.children /\ y.visits = x.visits + 1 /\ y.head = x.head
<1>1. y = With(x, x.hero_depth, x.children, x.visits + 1,
               x.value_sum + f - baseline, x.head, x.final + f)
  BY VisitedIs
<1>2. x.children \in Seq(Nat) /\ x.visits + 1 \in Nat /\ x.head \in Nat
  BY DEF IsNode
<1>. QED
  BY <1>1, <1>2, WithIs

LEMMA HeadFacts ==
  ASSUME NEW y, IsNode(y), NEW h \in Nat, NEW z, z = [y EXCEPT !.head = h]
  PROVE  /\ IsNode(z) /\ z.kind = y.kind /\ z.candidates = y.candidates
         /\ z.hero_depth = y.hero_depth
         /\ z.children = y.children /\ z.visits = y.visits /\ z.head = h
<1>1. z = With(y, y.hero_depth, y.children, y.visits, y.value_sum, h, y.final)
  BY FieldIs
<1>2. y.children \in Seq(Nat) /\ y.visits \in Nat
  BY DEF IsNode
<1>. QED
  BY <1>1, <1>2, WithIs

\* What a playout leaves in the arena.
LEMMA BackpropMoves ==
  ASSUME ArenaInv, Backprop
  PROVE  /\ DOMAIN nodes' = DOMAIN nodes
         /\ IsSeq(nodes') /\ Len(nodes') = Len(nodes)
         /\ \A m \in DOMAIN nodes :
              /\ IsNode(nodes'[m]) /\ nodes'[m].kind = nodes[m].kind
              /\ nodes'[m].candidates = nodes[m].candidates
              /\ nodes'[m].hero_depth = nodes[m].hero_depth
              /\ nodes'[m].children = nodes[m].children
              /\ m \notin Range(path) => nodes'[m] = nodes[m]
              /\ m \in Range(path) => nodes'[m].visits = nodes[m].visits + 1
              /\ m \in Range(path) /\ grown /\ m = path[Len(path)] => nodes'[m].head = nodes[m].visits + 1
              /\ ~(grown /\ m = path[Len(path)]) => nodes'[m].head = nodes[m].head
<1>1. PICK f \in Finals :
        nodes' = [n \in DOMAIN nodes |->
          IF n \notin Range(path) THEN nodes[n]
          ELSE IF grown /\ n = path[Len(path)]
          THEN [Visited(nodes[n], f) EXCEPT !.head = nodes[n].visits + 1]
          ELSE Visited(nodes[n], f)]
  BY DEF Backprop, Last
<1>2. /\ Len(nodes) \in Nat /\ DOMAIN nodes = 1 .. Len(nodes)
      /\ \A m \in DOMAIN nodes : nodes[m].visits \in Nat /\ nodes[m].head \in Nat
  BY ArenaFacts
<1>3. DOMAIN nodes' = DOMAIN nodes
  BY <1>1
<1>4. ASSUME NEW m \in DOMAIN nodes
       PROVE  /\ IsNode(nodes'[m]) /\ nodes'[m].kind = nodes[m].kind
              /\ nodes'[m].candidates = nodes[m].candidates
              /\ nodes'[m].hero_depth = nodes[m].hero_depth
              /\ nodes'[m].children = nodes[m].children
              /\ m \notin Range(path) => nodes'[m] = nodes[m]
              /\ m \in Range(path) => nodes'[m].visits = nodes[m].visits + 1
              /\ m \in Range(path) /\ grown /\ m = path[Len(path)] => nodes'[m].head = nodes[m].visits + 1
              /\ ~(grown /\ m = path[Len(path)]) => nodes'[m].head = nodes[m].head
  <2>. DEFINE x == nodes[m]
              y == Visited(x, f)
              h == nodes[m].visits + 1
              z == [y EXCEPT !.head = h]
  <2>1. IsNode(x) /\ h \in Nat
    BY <1>2 DEF ArenaInv
  <2>2. nodes'[m] = IF m \notin Range(path) THEN x ELSE IF grown /\ m = path[Len(path)] THEN z ELSE y
    BY <1>1
  <2>. HIDE DEF x
  <2>3. /\ IsNode(y) /\ y.kind = x.kind /\ y.candidates = x.candidates
        /\ y.hero_depth = x.hero_depth
        /\ y.children = x.children /\ y.visits = x.visits + 1 /\ y.head = x.head
    BY <2>1, VisitedFacts
  <2>. HIDE DEF y, h
  <2>4. /\ IsNode(z) /\ z.kind = y.kind /\ z.candidates = y.candidates
        /\ z.hero_depth = y.hero_depth
        /\ z.children = y.children /\ z.visits = y.visits /\ z.head = h
    BY <2>1, <2>3, HeadFacts
  <2>. HIDE DEF z
  <2>5. CASE m \notin Range(path)
    BY <2>1, <2>2, <2>5 DEF x
  <2>6. CASE m \in Range(path) /\ grown /\ m = path[Len(path)]
    <3>1. nodes'[m] = z
      BY <2>2, <2>6
    <3>. QED
      BY <2>3, <2>4, <2>6, <3>1 DEF x, h
  <2>7. CASE m \in Range(path) /\ ~(grown /\ m = path[Len(path)])
    <3>1. nodes'[m] = y
      BY <2>2, <2>7
    <3>. QED
      BY <2>3, <2>7, <3>1 DEF x
  <2>. QED
    BY <2>5, <2>6, <2>7
<1>5. IsSeq(nodes') /\ Len(nodes') = Len(nodes)
  <2>1. nodes' = [i \in 1 .. Len(nodes) |-> nodes'[i]]
    BY <1>1, <1>2
  <2>. QED
    BY <1>2, <2>1, MappedSeq
<1>. QED
  BY <1>3, <1>4, <1>5

\* A playout is counted along the path: the branch of the root it went through
\* was opened by it, or was one that had least.
LEMMA BackpropKeeps ==
  ASSUME TreeInv, Backprop
  PROVE  TreeInv'
<1>1. ArenaInv /\ PathInv /\ FreshInv /\ PlayedInv /\ ShareInv
  BY DEF TreeInv
<1>2. /\ path # <<>> /\ fresh = {} /\ path' = <<>> /\ grown' = FALSE
      /\ root' = root /\ fresh' = fresh /\ phase' = phase
      /\ grown \/ nodes[path[Len(path)]].kind = "Leaf"
  BY DEF Backprop, Between, Last
<1>3. /\ Len(nodes) \in Nat /\ DOMAIN nodes = 1 .. Len(nodes)
      /\ root \in DOMAIN nodes
      /\ \A m \in DOMAIN nodes : nodes[m].visits \in Nat /\ nodes[m].head \in Nat
      /\ \A m \in DOMAIN nodes : \A c \in Children(m) : c \in DOMAIN nodes /\ c > m
  BY <1>1, ArenaFacts
<1>4. /\ Len(path) \in Nat /\ Len(path) # 0 /\ path \in Seq(DOMAIN nodes)
      /\ \A i \in 1 .. Len(path) : path[i] \in DOMAIN nodes
      /\ Len(path) = 1 => path[Len(path)] = root
  BY <1>1, <1>2, WayDownFacts DEF PathInv, WayDown
<1>5. Len(path) >= 2
  <2>1. CASE Len(path) = 1
    <3>1. path[Len(path)] = root /\ ~grown
      BY <1>1, <1>4, <2>1 DEF PathInv
    <3>. QED
      BY <1>1, <1>2, <3>1 DEF ArenaInv
  <2>2. Len(path) = 1 \/ Len(path) >= 2
    BY <1>4, OneOrMore, Zenon
  <2>. QED
    BY <2>1, <2>2
<1>6. /\ DOMAIN nodes' = DOMAIN nodes
       /\ IsSeq(nodes') /\ Len(nodes') = Len(nodes)
       /\ \A m \in DOMAIN nodes :
            /\ IsNode(nodes'[m]) /\ nodes'[m].kind = nodes[m].kind
            /\ nodes'[m].candidates = nodes[m].candidates
            /\ nodes'[m].hero_depth = nodes[m].hero_depth
            /\ nodes'[m].children = nodes[m].children
            /\ m \notin Range(path) => nodes'[m] = nodes[m]
            /\ m \in Range(path) => nodes'[m].visits = nodes[m].visits + 1
            /\ m \in Range(path) /\ grown /\ m = path[Len(path)] => nodes'[m].head = nodes[m].visits + 1
            /\ ~(grown /\ m = path[Len(path)]) => nodes'[m].head = nodes[m].head
  BY <1>1, BackpropMoves
<1>7. \A m \in DOMAIN nodes : Children(m)' = Children(m)
  BY <1>6 DEF Children
<1>8. ArenaInv'
  <2>1. nodes' \in Seq(Range(nodes'))
    BY <1>6 DEF IsSeq
  <2>2. root' \in DOMAIN nodes' /\ nodes'[root'].kind = "Decision"
    BY <1>1, <1>2, <1>6 DEF ArenaInv
  <2>. QED
    BY <1>1, <1>6, <1>7, <2>1, <2>2 DEF ArenaInv
<1>9. PathInv'
  <2>1. /\ <<>> \in Seq(DOMAIN nodes) /\ Len(<<>>) = 0
    BY EmptySeq
  <2>2. WayDown(<<>>, nodes', root)
    BY <1>6, <2>1 DEF WayDown
  <2>. QED
    BY <1>2, <2>2 DEF PathInv
<1>10. FreshInv'
  BY <1>2 DEF FreshInv
<1>11. \A i \in 1 .. Len(path) : path[i] \in Range(path)
  <2>1. DOMAIN path = 1 .. Len(path)
    BY <1>4, LenProperties
  <2>. QED
    BY <2>1 DEF Range
<1>12. \A m \in Range(path) : \E i \in 1 .. Len(path) : m = path[i]
  <2>1. DOMAIN path = 1 .. Len(path)
    BY <1>4, LenProperties
  <2>. QED
    BY <2>1 DEF Range
<1>13. \A m \in DOMAIN nodes : nodes'[m].visits \in Nat /\ nodes'[m].visits >= nodes[m].visits
  BY <1>3, <1>6
<1>14. Untried(root)' <=> Untried(root)
  BY <1>2, <1>3, <1>6 DEF Untried
<1>15. PlayedInv'
  <2>1. ASSUME NEW m \in DOMAIN nodes' \ {1}
        PROVE  nodes'[m].visits > 0
    <3>1. m \in DOMAIN nodes /\ nodes[m].visits \in Nat
      BY <1>3, <1>6
    <3>2. CASE m \in Range(path)
      BY <1>6, <3>1, <3>2
    <3>3. CASE m \notin Range(path)
      <4>1. Len(path) \in 1 .. Len(path)
        BY <1>4, <1>5
      <4>2. m # path[Len(path)]
        BY <1>11, <3>3, <4>1
      <4>. QED
        BY <1>1, <1>6, <3>1, <3>3, <4>2 DEF PlayedInv
    <3>. QED
      BY <3>2, <3>3
  <2>. QED
    BY <1>1, <1>2, <1>14, <2>1 DEF PlayedInv
<1>16. /\ path[2] \in Children(root) /\ path[2] \in Range(path) /\ path[2] \in DOMAIN nodes
  <2>1. path[2] \in Children(root)
    BY <1>1, <1>5 DEF PathInv, WayDown, Branches, Children
  <2>2. 2 \in 1 .. Len(path)
    BY <1>4, <1>5
  <2>. QED
    BY <1>3, <1>11, <2>1, <2>2
<1>17. \A c \in Children(root) : c \in Range(path) => c = path[2]
  <2> SUFFICES ASSUME NEW c \in Children(root), c \in Range(path), c # path[2] PROVE FALSE
    OBVIOUS
  <2>1. PICK i \in 1 .. Len(path) : c = path[i]
    BY <1>12
  <2>2. i # 2
    BY <2>1
  <2>3. i = 1 \/ i \in 3 .. Len(path)
    BY <1>4, <2>2
  <2>4. CASE i = 1
    <3>1. c = root
      BY <1>1, <1>2, <2>1, <2>4 DEF PathInv, WayDown
    <3>2. c > root /\ root \in Nat
      BY <1>1, <1>3, ArenaFacts
    <3>. QED
      BY <3>1, <3>2
  <2>5. CASE i \in 3 .. Len(path)
    BY <1>1, <2>1, <2>5 DEF PathInv, WayDown, Branches, Children
  <2>. QED
    BY <2>3, <2>4, <2>5
<1>18. \A c \in Children(root) : c \in DOMAIN nodes /\ (c # path[2] => nodes'[c] = nodes[c])
  BY <1>3, <1>6, <1>17
<1>19. ~NewBranch'
  BY <1>2 DEF NewBranch
<1>20. \A c : c \in Children(root)' <=> c \in Children(root)
  <2>1. nodes'[root].children = nodes[root].children
    BY <1>3, <1>6
  <2>. QED
    BY <1>2, <2>1 DEF Children
<1>21. ASSUME NewBranch PROVE ShareInv'
  <2>1. path[2] = path[Len(path)] /\ grown
    BY <1>21 DEF NewBranch
  <2>2. ASSUME NEW c \in Children(root) PROVE nodes'[c].visits <= nodes'[c].head
    <3>1. CASE c = path[2]
      <4>1. nodes'[c].visits = nodes[c].visits + 1 /\ nodes'[c].head = nodes[c].visits + 1
        BY <1>6, <1>16, <2>1, <3>1
      <4>2. nodes[c].visits \in Nat
        BY <1>3, <1>16, <3>1
      <4>. QED
        BY <4>1, <4>2
    <3>2. CASE c # path[2]
      <4>1. c \in Settled
        BY <3>2 DEF Settled
      <4>2. nodes[c].visits <= nodes[c].head
        BY <1>1, <1>21, <4>1 DEF ShareInv
      <4>. QED
        BY <1>18, <3>2, <4>2
    <3>. QED
      BY <3>1, <3>2
  <2>3. \A c \in Children(root)' : nodes'[c].visits <= nodes'[c].head
    BY <1>20, <2>2
  <2>4. ~(Len(path') >= 2)
    BY <1>2, EmptySeq
  <2>5. \A c \in Settled' : c \in Children(root)'
    BY DEF Settled
  <2>. QED
    BY <1>19, <2>3, <2>4, <2>5 DEF ShareInv
<1>22. ASSUME ~NewBranch PROVE ShareInv'
  <2>1. ~Untried(root) /\ \A d \in Children(root) : nodes[path[2]].visits <= nodes[d].visits
    BY <1>1, <1>5, <1>22 DEF ShareInv
  <2>2. \A c, d \in Children(root) :
          nodes[c].visits <= nodes[c].head \/ nodes[c].visits <= nodes[d].visits + 1
    BY <1>1, <1>22 DEF ShareInv
  <2>3. ~Untried(root)'
    BY <1>14, <2>1
  <2>4. ASSUME NEW c \in Children(root), NEW d \in Children(root)
        PROVE  nodes'[c].visits <= nodes'[c].head \/ nodes'[c].visits <= nodes'[d].visits + 1
    <3>1. /\ nodes[c].visits \in Nat /\ nodes[d].visits \in Nat
          /\ nodes'[d].visits \in Nat /\ nodes'[d].visits >= nodes[d].visits
      BY <1>3, <1>13
    <3>2. CASE c = path[2]
      <4>1. nodes'[c].visits = nodes[c].visits + 1 /\ nodes[c].visits <= nodes[d].visits
        BY <1>6, <1>16, <2>1, <3>2
      <4>. QED
        BY <3>1, <4>1
    <3>3. CASE c # path[2]
      <4>1. nodes'[c] = nodes[c]
        BY <1>18, <3>3
      <4>2. nodes[c].visits <= nodes[c].head \/ nodes[c].visits <= nodes[d].visits + 1
        BY <2>2
      <4>3. nodes[c].visits <= nodes[d].visits + 1 => nodes[c].visits <= nodes'[d].visits + 1
        BY <3>1
      <4>. QED
        BY <4>1, <4>2, <4>3
    <3>. QED
      BY <3>2, <3>3
  <2>5. ~(Len(path') >= 2)
    BY <1>2, EmptySeq
  <2>6. \A c, d \in Children(root)' :
          nodes'[c].visits <= nodes'[c].head \/ nodes'[c].visits <= nodes'[d].visits + 1
    BY <1>20, <2>4
  <2>. QED
    BY <1>19, <2>3, <2>5, <2>6 DEF ShareInv
<1>. QED
  BY <1>8, <1>9, <1>10, <1>15, <1>21, <1>22 DEF TreeInv

\* What a promotion does to the arena: depths count from the new root.
LEMMA PromoteMoves ==
  ASSUME ArenaInv, NEW n \in DOMAIN nodes, promote(n)
  PROVE  /\ root' = n
         /\ DOMAIN nodes' = DOMAIN nodes
         /\ IsSeq(nodes') /\ Len(nodes') = Len(nodes)
         /\ \A m \in DOMAIN nodes :
              /\ IsNode(nodes'[m]) /\ nodes'[m].kind = nodes[m].kind
              /\ nodes'[m].candidates = nodes[m].candidates
              /\ nodes'[m].hero_depth = Max({0, nodes[m].hero_depth - nodes[n].hero_depth})
              /\ nodes'[m].children = nodes[m].children
              /\ nodes'[m].visits = nodes[m].visits
              /\ m \in Children(n) => nodes'[m].head = nodes[m].visits
<1>1. /\ Len(nodes) \in Nat /\ DOMAIN nodes = 1 .. Len(nodes)
      /\ \A m \in DOMAIN nodes : nodes[m].visits \in Nat
  BY ArenaFacts
<1>. DEFINE shift == nodes[n].hero_depth
<1>2. ASSUME NEW m \in DOMAIN nodes
      PROVE  LET z == Renumbered(shift)[m] IN
             /\ IsNode(z) /\ z.kind = nodes[m].kind /\ z.candidates = nodes[m].candidates
             /\ z.hero_depth = Max({0, nodes[m].hero_depth - shift})
             /\ z.children = nodes[m].children /\ z.visits = nodes[m].visits /\ z.head = nodes[m].head
  <2>. DEFINE x == nodes[m]
              depth == Max({0, x.hero_depth - shift})
              z == Renumbered(shift)[m]
  <2>1. IsNode(x)
    BY DEF ArenaInv
  <2>2. z = [x EXCEPT !.hero_depth = depth]
    BY DEF Renumbered
  <2>. HIDE DEF depth, shift
  <2>3. [x EXCEPT !.hero_depth = depth]
          = With(x, depth, x.children, x.visits, x.value_sum, x.head, x.final)
    BY <2>1, FieldIs
  <2>4. z = With(x, depth, x.children, x.visits, x.value_sum, x.head, x.final)
    BY <2>2, <2>3, Zenon
  <2>5. x.children \in Seq(Nat) /\ x.visits \in Nat /\ x.head \in Nat
    BY <2>1 DEF IsNode
  <2>. HIDE DEF x, z
  <2>6. /\ IsNode(z) /\ z.kind = x.kind /\ z.candidates = x.candidates /\ z.hero_depth = depth
        /\ z.children = x.children /\ z.visits = x.visits /\ z.head = x.head
    BY <2>4, <2>5, WithIs
  <2>. QED
    BY <2>6 DEF x, z, depth
<1>3. /\ nodes' = [m \in DOMAIN nodes |->
           IF m \in Children(n) THEN [Renumbered(shift)[m] EXCEPT !.head = nodes[m].visits]
           ELSE Renumbered(shift)[m]]
      /\ root' = n
  BY DEF promote
<1>. HIDE DEF shift
<1>4. DOMAIN nodes' = DOMAIN nodes
  BY <1>3
<1>5. ASSUME NEW m \in DOMAIN nodes
       PROVE  /\ IsNode(nodes'[m]) /\ nodes'[m].kind = nodes[m].kind
              /\ nodes'[m].candidates = nodes[m].candidates
              /\ nodes'[m].hero_depth = Max({0, nodes[m].hero_depth - shift})
              /\ nodes'[m].children = nodes[m].children
              /\ nodes'[m].visits = nodes[m].visits
              /\ m \in Children(n) => nodes'[m].head = nodes[m].visits
  <2>. DEFINE y == Renumbered(shift)[m]
              h == nodes[m].visits
              z == [y EXCEPT !.head = h]
  <2>1. nodes'[m] = IF m \in Children(n) THEN z ELSE y
    BY <1>3
  <2>2. /\ IsNode(y) /\ y.kind = nodes[m].kind /\ y.candidates = nodes[m].candidates
        /\ y.hero_depth = Max({0, nodes[m].hero_depth - shift})
        /\ y.children = nodes[m].children /\ y.visits = nodes[m].visits
    BY <1>2
  <2>3. h \in Nat
    BY <1>1
  <2>. HIDE DEF y, h
  <2>4. /\ IsNode(z) /\ z.kind = y.kind /\ z.candidates = y.candidates
        /\ z.hero_depth = y.hero_depth
        /\ z.children = y.children /\ z.visits = y.visits /\ z.head = h
    BY <2>2, <2>3, HeadFacts
  <2>. HIDE DEF z
  <2>5. CASE m \in Children(n)
    <3>1. nodes'[m] = z
      BY <2>1, <2>5
    <3>. QED
      BY <2>2, <2>4, <3>1 DEF h
  <2>6. CASE m \notin Children(n)
    <3>1. nodes'[m] = y
      BY <2>1, <2>6
    <3>. QED
      BY <2>2, <2>6, <3>1
  <2>. QED
    BY <2>5, <2>6
<1>6. IsSeq(nodes') /\ Len(nodes') = Len(nodes)
  <2>1. nodes' = [i \in 1 .. Len(nodes) |-> nodes'[i]]
    BY <1>1, <1>3
  <2>. QED
    BY <1>1, <2>1, MappedSeq
<1>. QED
  BY <1>3, <1>4, <1>5, <1>6 DEF shift

\* The tree moves on to a decision below: what its branches had is their head.
LEMMA PromoteKeeps ==
  ASSUME TreeInv, Promote
  PROVE  TreeInv'
<1>1. ArenaInv /\ PathInv /\ FreshInv /\ PlayedInv /\ ShareInv
  BY DEF TreeInv
<1>2. /\ Between /\ path' = path /\ grown' = grown /\ fresh' = fresh /\ phase' = "Fill"
  BY DEF Promote, Moved, AfterReshape
<1>3. path = <<>> /\ Len(path) = 0 /\ ~grown /\ grown \in BOOLEAN /\ fresh = {}
  BY <1>1, <1>2, AtRestNothingIsOpen DEF Between, PathInv
<1>4. PICK n \in InTree : nodes[n].kind = "Decision" /\ promote(n)
  BY DEF Promote
<1>5. n \in DOMAIN nodes
  BY <1>4 DEF InTree
<1>6. /\ Len(nodes) \in Nat /\ DOMAIN nodes = 1 .. Len(nodes)
      /\ \A m \in DOMAIN nodes : nodes[m].visits \in Nat /\ nodes[m].head \in Nat
      /\ \A m \in DOMAIN nodes : \A c \in Children(m) : c \in DOMAIN nodes /\ c > m
  BY <1>1, ArenaFacts
<1>7. /\ root' = n
      /\ DOMAIN nodes' = DOMAIN nodes
      /\ IsSeq(nodes') /\ Len(nodes') = Len(nodes)
      /\ \A m \in DOMAIN nodes :
            /\ IsNode(nodes'[m]) /\ nodes'[m].kind = nodes[m].kind
            /\ nodes'[m].candidates = nodes[m].candidates
            /\ nodes'[m].hero_depth = Max({0, nodes[m].hero_depth - nodes[n].hero_depth})
            /\ nodes'[m].children = nodes[m].children
            /\ nodes'[m].visits = nodes[m].visits
            /\ m \in Children(n) => nodes'[m].head = nodes[m].visits
  BY <1>1, <1>4, <1>5, PromoteMoves
<1>8. \A m \in DOMAIN nodes : Children(m)' = Children(m)
  BY <1>7 DEF Children
<1>9. ArenaInv'
  <2>1. nodes' \in Seq(Range(nodes'))
    BY <1>7 DEF IsSeq
  <2>2. root' \in DOMAIN nodes' /\ nodes'[root'].kind = "Decision"
    BY <1>4, <1>5, <1>7
  <2>. QED
    BY <1>1, <1>7, <1>8, <2>1, <2>2 DEF ArenaInv
<1>10. PathInv'
  <2>1. <<>> \in Seq(DOMAIN nodes) /\ Len(<<>>) = 0
    BY EmptySeq
  <2>2. WayDown(<<>>, nodes', root')
    BY <1>7, <2>1 DEF WayDown
  <2>. QED
    BY <1>2, <1>3, <2>2 DEF PathInv
<1>11. FreshInv'
  BY <1>2, <1>3 DEF FreshInv
<1>12. PlayedInv'
  BY <1>1, <1>2, <1>3, <1>7 DEF PlayedInv
<1>13. ShareInv'
  <2>1. \A c : c \in Children(root)' => c \in Children(n) /\ c \in DOMAIN nodes
    <3>1. Children(root)' = Children(n)
      <4>1. nodes'[root'].children = nodes[n].children
        BY <1>5, <1>7
      <4>. QED
        BY <4>1 DEF Children
    <3>. QED
      BY <1>5, <1>6, <3>1
  <2>2. ASSUME NEW c \in Children(root)' PROVE nodes'[c].visits <= nodes'[c].head
    <3>1. c \in DOMAIN nodes /\ c \in Children(n)
      BY <2>1
    <3>2. nodes'[c].visits = nodes[c].visits /\ nodes'[c].head = nodes[c].visits
      BY <1>7, <3>1
    <3>3. nodes[c].visits \in Nat
      BY <1>6, <3>1
    <3>. QED
      BY <3>2, <3>3
  <2>3. ~NewBranch' /\ Len(path') = 0
    BY <1>2, <1>3 DEF NewBranch
  <2>4. \A c \in Settled' : c \in Children(root)'
    BY DEF Settled
  <2>5. ~(Len(path') >= 2)
    BY <2>3
  <2>. QED
    BY <2>2, <2>3, <2>4, <2>5 DEF ShareInv
<1>. QED
  BY <1>9, <1>10, <1>11, <1>12, <1>13 DEF TreeInv

\* A tree of a decision alone.
IsNewTree ==
  /\ \E stack, k : nodes = <<NewNode("Decision", 0, stack, k)>>
  /\ root = 1 /\ path = <<>> /\ grown = FALSE /\ fresh = {} /\ phase # "Rest"

LEMMA NewTree == IsNewTree => TreeInv
<1> SUFFICES ASSUME IsNewTree PROVE TreeInv
  OBVIOUS
<1>0. PICK stack, k : nodes = <<NewNode("Decision", 0, stack, k)>>
  BY DEF IsNewTree
<1>00. root = 1 /\ path = <<>> /\ grown = FALSE /\ fresh = {} /\ phase # "Rest"
  BY DEF IsNewTree
<1>. DEFINE node == NewNode("Decision", 0, stack, k)
<1>1. /\ IsNode(node) /\ node.kind = "Decision" /\ node.children = <<>>
  BY NewNodeIs
<1>. HIDE DEF node
<1>2. nodes = [i \in 1 .. 1 |-> node]
  BY <1>0 DEF node
<1>3. IsSeq(nodes) /\ Len(nodes) = 1 /\ DOMAIN nodes = 1 .. 1
  <2>1. nodes = [i \in 1 .. 1 |-> nodes[i]]
    BY <1>2
  <2>. QED
    BY <2>1, MappedSeq
<1>4. \A n \in DOMAIN nodes : n = 1 /\ nodes[n] = node
  BY <1>2, <1>3
<1>5. root \in DOMAIN nodes
  BY <1>00, <1>3
<1>6. \A n \in DOMAIN nodes : Children(n) = {}
  BY <1>1, <1>4 DEF Children
<1>7. ArenaInv
  <2>1. nodes \in Seq(Range(nodes))
    BY <1>3 DEF IsSeq
  <2>. QED
    BY <1>00, <1>1, <1>4, <1>5, <1>6, <2>1 DEF ArenaInv
<1>8. PathInv
  <2>1. <<>> \in Seq(DOMAIN nodes) /\ Len(<<>>) = 0
    BY EmptySeq
  <2>2. WayDown(path, nodes, root)
    BY <1>00, <2>1 DEF WayDown
  <2>. QED
    BY <1>00, <2>2 DEF PathInv
<1>9. FreshInv
  BY <1>00 DEF FreshInv
<1>10. PlayedInv
  BY <1>00, <1>4 DEF PlayedInv
<1>11. ShareInv
  <2>1. Children(root) = {} /\ Settled = {}
    BY <1>5, <1>6 DEF Settled
  <2>2. ~(Len(path) >= 2)
    <3>1. Len(<<>>) = 0
      BY EmptySeq
    <3>. QED
      BY <1>00, <3>1
  <2>. QED
    BY <2>1, <2>2 DEF ShareInv
<1>. QED
  BY <1>7, <1>8, <1>9, <1>10, <1>11 DEF TreeInv

LEMMA InitTree == Init => TreeInv
<1> SUFFICES ASSUME Init PROVE TreeInv
  OBVIOUS
<1>1. IsNewTree
  BY DEF Init, IsNewTree
<1>. QED
  BY <1>1, NewTree

LEMMA RebuildKeeps ==
  ASSUME TreeInv, Rebuild
  PROVE  TreeInv'
<1>1. PICK s \in 1 .. Stack, k \in Candidates : nodes' = <<NewNode("Decision", 0, s, k)>>
  BY DEF Rebuild, Tree
<1>2. root' = 1 /\ phase' # "Rest"
  BY DEF Rebuild, Tree, Moved, AfterReshape
<1>3. path' = <<>> /\ grown' = FALSE /\ fresh' = {}
  <2>1. Between /\ path' = path /\ grown' = grown /\ fresh' = fresh
    BY DEF Rebuild, Moved
  <2>2. ~grown /\ grown \in BOOLEAN /\ fresh = {}
    BY <2>1, AtRestNothingIsOpen DEF TreeInv, PathInv
  <2>. QED
    BY <2>1, <2>2 DEF Between
<1>4. IsNewTree'
  BY <1>1, <1>2, <1>3 DEF IsNewTree
<1>5. IsNewTree' => TreeInv'
  BY NewTree, PTL
<1>. QED
  BY <1>4, <1>5

\* A sweep begins at the root.
LEMMA StartKeeps ==
  ASSUME TreeInv, StartSweep
  PROVE  TreeInv'
<1>1. ArenaInv /\ PathInv /\ FreshInv /\ PlayedInv /\ ShareInv
  BY DEF TreeInv
<1>2. /\ nodes' = nodes /\ root' = root /\ grown' = grown /\ fresh' = fresh /\ phase' = phase
      /\ path' = <<root>> /\ Between
  BY DEF StartSweep
<1>3. ~grown /\ grown \in BOOLEAN /\ fresh = {} /\ ~NewBranch /\ ~NewBranch'
  BY <1>1, <1>2, AtRestNothingIsOpen DEF PathInv, NewBranch
<1>4. WayDown(<<root>>, nodes, root) /\ Len(<<root>>) = 1
  BY <1>1, FirstOfThePath
<1>5. ArenaInv'
  BY <1>1, <1>2, ArenaLeftAlone
<1>6. PathInv'
  BY <1>2, <1>3, <1>4 DEF PathInv
<1>7. FreshInv'
  BY <1>2, <1>3 DEF FreshInv
<1>8. (Untried(root)' <=> Untried(root)) /\ Children(root)' = Children(root)
  BY <1>2 DEF Untried, Children
<1>9. PlayedInv'
  BY <1>1, <1>2, <1>3, <1>8 DEF PlayedInv
<1>10. ShareInv'
  <2>1. Settled' = Children(root) /\ Settled = Children(root)
    BY <1>3, <1>8 DEF Settled
  <2>2. ~(Len(path') >= 2)
    <3>1. Len(path') = 1
      BY <1>2, <1>4
    <3>. QED
      BY <3>1
  <2>. QED
    BY <1>1, <1>2, <1>3, <1>8, <2>1, <2>2 DEF ShareInv
<1>. QED
  BY <1>5, <1>6, <1>7, <1>9, <1>10 DEF TreeInv

\* Between two iterations nothing but the phase changes.
LEMMA PhaseKeeps ==
  ASSUME TreeInv, nodes' = nodes, root' = root, path' = path, grown' = grown, fresh' = fresh,
         phase' = "Rest" => ~Untried(root)
  PROVE  TreeInv'
<1>1. ArenaInv /\ PathInv /\ FreshInv /\ PlayedInv /\ ShareInv
  BY DEF TreeInv
<1>2. ArenaInv'
  BY <1>1, ArenaLeftAlone
<1>3. PathInv'
  BY <1>1 DEF PathInv
<1>4. /\ Untried(root)' <=> Untried(root)
      /\ Children(root)' = Children(root)
      /\ NewBranch' <=> NewBranch
  BY DEF Untried, Children, NewBranch
<1>5. FreshInv'
  BY <1>1, <1>4 DEF FreshInv
<1>6. PlayedInv'
  BY <1>1, <1>4 DEF PlayedInv
<1>7. Settled' = Settled
  BY <1>4 DEF Settled
<1>8. ShareInv'
  BY <1>1, <1>4, <1>7 DEF ShareInv
<1>. QED
  BY <1>2, <1>3, <1>5, <1>6, <1>8 DEF TreeInv

LEMMA NextKeepsTree == TreeInv /\ [Next]_vars => TreeInv'
<1> SUFFICES ASSUME TreeInv, [Next]_vars PROVE TreeInv'
  OBVIOUS
<1>1. CASE StartSweep
  BY <1>1, StartKeeps
<1>2. CASE Descend
  BY <1>2, DescendKeeps
<1>3. CASE ExpandChance
  BY <1>3, ChanceKeeps
<1>4. CASE Backprop
  BY <1>4, BackpropKeeps
<1>5. CASE FillOne
  <2>1. path = <<>> /\ expand_one_child(root, <<root>>) /\ root' = root /\ phase' = phase
    BY <1>5 DEF FillOne, Between
  <2>2. ~grown
    BY <2>1, AtRestNothingIsOpen DEF TreeInv, Between
  <2>3. GoesOnFrom(<<root>>, root)
    BY <2>1, FirstOfThePath DEF GoesOnFrom, TreeInv
  <2>. QED
    BY <2>1, <2>2, <2>3, ExpandKeeps
<1>6. CASE Filled
  BY <1>6, PhaseKeeps DEF Filled
<1>7. CASE FinishSolve
  <2>1. /\ nodes' = nodes /\ root' = root /\ path' = path /\ grown' = grown /\ fresh' = fresh
        /\ phase' # "Rest"
    BY <1>7 DEF FinishSolve
  <2>. QED
    BY <2>1, PhaseKeeps
<1>8. CASE Promote
  BY <1>8, PromoteKeeps
<1>9. CASE Rebuild
  BY <1>9, RebuildKeeps
<1>10. CASE UNCHANGED vars
  <2>1. nodes' = nodes /\ root' = root /\ path' = path /\ grown' = grown /\ fresh' = fresh /\ phase' = phase
    BY <1>10 DEF vars
  <2>2. phase' = "Rest" => ~Untried(root)
    BY <2>1 DEF TreeInv, PlayedInv
  <2>. QED
    BY <2>1, <2>2, PhaseKeeps
<1>. QED
  BY <1>1, <1>2, <1>3, <1>4, <1>5, <1>6, <1>7, <1>8, <1>9, <1>10 DEF Next

LEMMA TreeSharesFairly == TreeInv => EveryCandidateHasItsShare
<1> SUFFICES ASSUME TreeInv PROVE EveryCandidateHasItsShare
  OBVIOUS
<1>1. PathInv /\ FreshInv /\ PlayedInv /\ ShareInv
  BY DEF TreeInv
<1>2. Between => ~grown /\ ~NewBranch
  BY <1>1, AtRestNothingIsOpen
<1>3. EveryCandidateIsValued
  BY <1>1, <1>2 DEF EveryCandidateIsValued, PlayedInv
<1>4. RootIsBalanced
  BY <1>1, <1>2 DEF RootIsBalanced, ShareInv
<1>. QED
  BY <1>3, <1>4 DEF EveryCandidateHasItsShare

(***************************************************************************)
(* The visits and the depths.                                              *)
(***************************************************************************)
\* What its children have passed on to a node.
PassedIn(arena, n) == [i \in DOMAIN arena[n].children |-> NetIn(arena, arena[n].children[i])]

Total(arena, n) == SumFunction(PassedIn(arena, n))

\* No child is listed twice.
OnceInv ==
  \A n \in DOMAIN nodes : \A i, j \in DOMAIN nodes[n].children :
    nodes[n].children[i] = nodes[n].children[j] => i = j

\* A path goes from a node to a child of it, and so never comes back.
StepsDown(p, arena) ==
  /\ \A i \in 2 .. Len(p) : p[i] \in Branches(arena, p[i - 1])
  /\ \A i, j \in 1 .. Len(p) : i < j => p[i] < p[j]

\* The playout the iteration still owes to the node it opened.
Owed(n) == IF grown /\ n = path[Len(path)] THEN 1 ELSE 0

\* The playout a node had itself, which the first tree's root had not.
Own(n) == IF n = 1 THEN 0 ELSE 1

\* Above the root nothing is counted any more.
CountInv ==
  \A n \in DOMAIN nodes :
    n >= root /\ nodes[n].kind # "Leaf" => nodes[n].visits + Owed(n) = Own(n) + Total(nodes, n)

\* What a promotion leaves behind stops at 0.
DepthInv ==
  /\ nodes[root].hero_depth = 0
  /\ \A n \in DOMAIN nodes :
       /\ nodes[n].hero_depth \in 0 .. max_depth
       /\ nodes[n].kind # "Leaf" => nodes[n].hero_depth < max_depth
       /\ \A c \in Children(n) :
            \/ nodes[c].hero_depth = nodes[n].hero_depth + 1
            \/ n # root /\ nodes[n].hero_depth = 0

CountedInv == OnceInv /\ StepsDown(path, nodes) /\ CountInv /\ DepthInv

LEMMA TotalIs ==
  ASSUME NEW arena, NEW n
  PROVE  /\ Total(arena, n) = SumFunctionOnSet(PassedIn(arena, n), DOMAIN arena[n].children)
         /\ \A i \in DOMAIN arena[n].children :
              PassedIn(arena, n)[i] = NetIn(arena, arena[n].children[i])
<1>1. DOMAIN PassedIn(arena, n) = DOMAIN arena[n].children
  BY DEF PassedIn
<1>2. Total(arena, n) = SumFunctionOnSet(PassedIn(arena, n), DOMAIN PassedIn(arena, n))
  BY DEF Total, SumFunction
<1>3. \A i \in DOMAIN arena[n].children :
        PassedIn(arena, n)[i] = NetIn(arena, arena[n].children[i])
  BY DEF PassedIn
<1>. QED
  BY <1>1, <1>2, <1>3, Zenon

\* A node whose children pass on what they did before.
LEMMA TotalSame ==
  ASSUME NEW a, NEW b, NEW n, b[n].children = a[n].children,
         \A i \in DOMAIN a[n].children : NetIn(b, a[n].children[i]) = NetIn(a, a[n].children[i])
  PROVE  Total(b, n) = Total(a, n)
<1>1. PassedIn(b, n) = PassedIn(a, n)
  BY DEF PassedIn
<1>. QED
  BY <1>1, Zenon DEF Total

\* A node without children.
LEMMA TotalOfNone ==
  ASSUME NEW arena, NEW n, arena[n].children = <<>>
  PROVE  Total(arena, n) = 0
<1>1. DOMAIN arena[n].children = {}
  OBVIOUS
<1>2. SumFunctionOnSet(PassedIn(arena, n), {}) = 0
  BY SumPick, FS_EmptySet
<1>. QED
  BY <1>1, <1>2, TotalIs, Zenon

\* What the positions of the children of a node are.
LEMMA ChildFacts ==
  ASSUME ArenaInv, NEW n \in DOMAIN nodes
  PROVE  /\ Len(nodes[n].children) \in Nat
         /\ DOMAIN nodes[n].children = 1 .. Len(nodes[n].children)
         /\ IsFiniteSet(DOMAIN nodes[n].children)
         /\ \A i \in DOMAIN nodes[n].children :
              /\ nodes[n].children[i] \in Children(n)
              /\ nodes[n].children[i] \in DOMAIN nodes
              /\ NetIn(nodes, nodes[n].children[i]) \in Int
              /\ PassedIn(nodes, n)[i] \in Int
<1>1. \A m \in DOMAIN nodes : Len(nodes[m].children) \in Nat /\ nodes[m].visits \in Nat
                              /\ DOMAIN nodes[m].children = 1 .. Len(nodes[m].children)
  <2> SUFFICES ASSUME NEW m \in DOMAIN nodes
               PROVE  Len(nodes[m].children) \in Nat /\ nodes[m].visits \in Nat
                      /\ DOMAIN nodes[m].children = 1 .. Len(nodes[m].children)
    OBVIOUS
  <2>1. nodes[m].children \in Seq(Nat) /\ nodes[m].visits \in Nat
    BY DEF ArenaInv, IsNode
  <2>. QED
    BY <2>1, AnySeq
<1>2. IsFiniteSet(DOMAIN nodes[n].children)
  BY <1>1, FS_Interval
<1>3. \A i \in DOMAIN nodes[n].children : nodes[n].children[i] \in Children(n)
  BY DEF Children
<1>4. \A i \in DOMAIN nodes[n].children : nodes[n].children[i] \in DOMAIN nodes
  BY <1>3, ArenaFacts
<1>5. \A m \in DOMAIN nodes : NetIn(nodes, m) \in Int
  BY <1>1 DEF NetIn
<1>6. \A i \in DOMAIN nodes[n].children : NetIn(nodes, nodes[n].children[i]) \in Int
  BY <1>4, <1>5
<1>. QED
  BY <1>1, <1>2, <1>3, <1>4, <1>6, TotalIs

\* Growing leaves alone what the other nodes were passed, and new ones have
\* been passed nothing.
LEMMA GrowTotals ==
  ASSUME ArenaInv, OnceInv, NEW n, NEW k, Grow(n, k)
  PROVE  /\ OnceInv'
         /\ \A m \in DOMAIN nodes : NetIn(nodes', m) = NetIn(nodes, m)
         /\ \A m \in DOMAIN nodes \ {n} : Total(nodes', m) = Total(nodes, m)
         /\ \A m \in Len(nodes) + 1 .. Len(nodes) + k :
              /\ Total(nodes', m) = 0
              /\ NetIn(nodes', m) = nodes'[m].visits
<1>1. /\ n \in DOMAIN nodes /\ k \in Nat /\ Len(nodes) \in Nat /\ DOMAIN nodes = 1 .. Len(nodes)
      /\ DOMAIN nodes' = 1 .. Len(nodes) + k
  <2>1. DOMAIN nodes' = 1 .. Len(nodes')
    BY SeqFacts DEF Grow
  <2>. QED
    BY <2>1, ArenaFacts DEF Grow
<1>2. \A m \in DOMAIN nodes : m # n => nodes'[m] = nodes[m]
  BY DEF Grow
<1>3. \A m \in DOMAIN nodes : NetIn(nodes', m) = NetIn(nodes, m)
  <2> SUFFICES ASSUME NEW m \in DOMAIN nodes PROVE NetIn(nodes', m) = NetIn(nodes, m)
    OBVIOUS
  <2>1. CASE m = n
    BY <2>1 DEF Grow
  <2>2. CASE m # n
    BY <1>2, <2>2 DEF NetIn
  <2>. QED
    BY <2>1, <2>2
<1>4. ASSUME NEW m \in DOMAIN nodes \ {n} PROVE Total(nodes', m) = Total(nodes, m)
  <2>1. nodes'[m].children = nodes[m].children
    BY <1>2
  <2>2. \A i \in DOMAIN nodes[m].children :
          NetIn(nodes', nodes[m].children[i]) = NetIn(nodes, nodes[m].children[i])
    BY <1>3, ChildFacts
  <2>. QED
    BY <2>1, <2>2, TotalSame
<1>5. ASSUME NEW m \in Len(nodes) + 1 .. Len(nodes) + k
      PROVE  Total(nodes', m) = 0 /\ NetIn(nodes', m) = nodes'[m].visits
  <2>1. nodes'[m].children = <<>> /\ IsNode(nodes'[m])
    BY <1>1 DEF Grow
  <2>2. Total(nodes', m) = 0
    BY <2>1, TotalOfNone
  <2>3. Len(nodes'[m].children) = 0 /\ nodes'[m].visits \in Nat
    BY <2>1, EmptySeq DEF IsNode
  <2>4. NetIn(nodes', m) = nodes'[m].visits
    BY <2>3 DEF NetIn
  <2>. QED
    BY <2>2, <2>4
<1>6. ASSUME NEW m \in DOMAIN nodes',
             NEW i \in DOMAIN nodes'[m].children, NEW j \in DOMAIN nodes'[m].children,
             nodes'[m].children[i] = nodes'[m].children[j]
      PROVE  i = j
  <2>1. CASE m \in DOMAIN nodes /\ m # n
    BY <1>2, <1>6, <2>1 DEF OnceInv
  <2>2. CASE m \in Len(nodes) + 1 .. Len(nodes) + k
    <3>1. nodes'[m].children = <<>>
      BY <2>2 DEF Grow
    <3>. QED
      BY <3>1
  <2>3. CASE m = n
    <3> DEFINE l == Len(nodes[n].children)
               old == nodes[n].children
               new == nodes'[n].children
    <3>1. l \in Nat /\ DOMAIN old = 1 .. l /\ \A h \in 1 .. l : old[h] \in 1 .. Len(nodes)
      <4>1. l \in Nat /\ DOMAIN old = 1 .. l /\ \A h \in DOMAIN old : old[h] \in DOMAIN nodes
        BY <1>1, ChildFacts
      <4>. QED
        BY <1>1, <4>1
    <3>2. /\ DOMAIN new = 1 .. l + k
          /\ \A h \in 1 .. l : new[h] = old[h]
          /\ \A h \in 1 .. k : new[l + h] = Len(nodes) + h
      BY DEF Grow, Lengthened
    <3>3. \A h, g \in 1 .. l : old[h] = old[g] => h = g
      BY <1>1, <3>1 DEF OnceInv
    <3>4. i \in DOMAIN new /\ j \in DOMAIN new /\ new[i] = new[j]
      BY <1>6, <2>3
    <3>. HIDE DEF l, old, new
    <3>5. \A h \in DOMAIN new : h \in 1 .. l \/ (h - l \in 1 .. k /\ new[h] = Len(nodes) + (h - l))
      <4> SUFFICES ASSUME NEW h \in DOMAIN new, h \notin 1 .. l
                   PROVE  h - l \in 1 .. k /\ new[h] = Len(nodes) + (h - l)
        OBVIOUS
      <4>1. h - l \in 1 .. k /\ l + (h - l) = h
        BY <1>1, <3>1, <3>2
      <4>. QED
        BY <3>2, <4>1
    <3>6. CASE i \in 1 .. l /\ j \in 1 .. l
      BY <3>2, <3>3, <3>4, <3>6
    <3>7. ASSUME NEW h \in 1 .. l, NEW g \in DOMAIN new, g \notin 1 .. l PROVE new[h] # new[g]
      <4>1. new[h] \in 1 .. Len(nodes)
        BY <3>1, <3>2
      <4>2. g - l \in 1 .. k /\ new[g] = Len(nodes) + (g - l)
        BY <3>5, <3>7
      <4>. QED
        BY <1>1, <3>1, <4>1, <4>2
    <3>8. CASE i \notin 1 .. l /\ j \notin 1 .. l
      <4>1. /\ i - l \in 1 .. k /\ new[i] = Len(nodes) + (i - l)
            /\ j - l \in 1 .. k /\ new[j] = Len(nodes) + (j - l)
        BY <3>4, <3>5, <3>8
      <4>2. i \in Int /\ j \in Int
        BY <1>1, <3>1, <3>2, <3>4
      <4>3. Len(nodes) + (i - l) = Len(nodes) + (j - l)
        BY <3>4, <4>1
      <4>4. Len(nodes) \in Int /\ l \in Int
        BY <1>1, <3>1
      <4>. QED
        BY <4>2, <4>3, <4>4
    <3>. QED
      BY <3>4, <3>6, <3>7, <3>8
  <2>4. m = n \/ (m \in DOMAIN nodes /\ m # n) \/ m \in Len(nodes) + 1 .. Len(nodes) + k
    BY <1>1
  <2>. QED
    BY <2>1, <2>2, <2>3, <2>4
<1>7. OnceInv'
  BY <1>6 DEF OnceInv
<1>. QED
  BY <1>3, <1>4, <1>5, <1>7

\* Growing moves nobody, and what is new is one deeper than its parent.
LEMMA GrowDepths ==
  ASSUME ArenaInv, DepthInv, root' = root, NEW n, NEW k, Grow(n, k), nodes[n].kind # "Leaf"
  PROVE  DepthInv'
<1>1. /\ n \in DOMAIN nodes /\ k \in Nat /\ Len(nodes) \in Nat /\ DOMAIN nodes = 1 .. Len(nodes)
      /\ DOMAIN nodes' = 1 .. Len(nodes) + k /\ root \in DOMAIN nodes
  <2>1. DOMAIN nodes' = 1 .. Len(nodes')
    BY SeqFacts DEF Grow
  <2>. QED
    BY <2>1, ArenaFacts DEF Grow
<1>2. max_depth \in Nat
  BY SearchConstants
<1>3. nodes'[root].hero_depth = 0
  BY <1>1 DEF DepthInv, Grow
<1>4. /\ nodes[n].hero_depth \in 0 .. max_depth /\ nodes[n].hero_depth < max_depth
  BY <1>1 DEF DepthInv
<1>5. ASSUME NEW m \in DOMAIN nodes
      PROVE  /\ nodes'[m].hero_depth = nodes[m].hero_depth
             /\ nodes'[m].kind = nodes[m].kind
             /\ m # n => \A c : c \in Children(m)' <=> c \in Children(m)
  <2>1. nodes'[m].hero_depth = nodes[m].hero_depth /\ nodes'[m].kind = nodes[m].kind
    BY DEF Grow
  <2>2. m # n => nodes'[m] = nodes[m]
    BY DEF Grow
  <2>. QED
    BY <2>1, <2>2 DEF Children
<1>6. ASSUME NEW m \in Len(nodes) + 1 .. Len(nodes) + k
      PROVE  /\ nodes'[m].hero_depth = nodes[n].hero_depth + 1
             /\ nodes'[m].kind # "Leaf" => ~(nodes[n].hero_depth + 1 >= max_depth)
             /\ \A c : c \notin Children(m)'
  <2>1. nodes'[m].children = <<>>
    BY DEF Grow
  <2>2. \A c : c \notin Children(m)'
    BY <2>1 DEF Children
  <2>. QED
    BY <2>2 DEF Grow
<1>7. \A m \in DOMAIN nodes' : m \in DOMAIN nodes \/ m \in Len(nodes) + 1 .. Len(nodes) + k
  BY <1>1
<1>8. ASSUME NEW m \in DOMAIN nodes'
      PROVE  /\ nodes'[m].hero_depth \in 0 .. max_depth
             /\ nodes'[m].kind # "Leaf" => nodes'[m].hero_depth < max_depth
  <2>1. CASE m \in DOMAIN nodes
    BY <1>5, <2>1 DEF DepthInv
  <2>2. CASE m \in Len(nodes) + 1 .. Len(nodes) + k
    BY <1>2, <1>4, <1>6, <2>2
  <2>. QED
    BY <1>7, <2>1, <2>2
<1>9. ASSUME NEW m \in DOMAIN nodes', NEW c \in Children(m)'
      PROVE  \/ nodes'[c].hero_depth = nodes'[m].hero_depth + 1
             \/ m # root /\ nodes'[m].hero_depth = 0
  <2>0. m \in DOMAIN nodes
    BY <1>6, <1>7
  <2>1. CASE c \in Children(m)
    <3>1. c \in DOMAIN nodes
      BY <2>0, <2>1, ArenaFacts
    <3>2. \/ nodes[c].hero_depth = nodes[m].hero_depth + 1
          \/ m # root /\ nodes[m].hero_depth = 0
      BY <2>0, <2>1 DEF DepthInv
    <3>. QED
      BY <1>5, <2>0, <3>1, <3>2
  <2>2. CASE c \notin Children(m)
    <3>1. m = n
      BY <1>5, <2>0, <2>2
    <3>2. c \in Len(nodes) + 1 .. Len(nodes) + k
      BY <2>2, <3>1 DEF Grow
    <3>. QED
      BY <1>1, <1>5, <1>6, <3>1, <3>2
  <2>. QED
    BY <2>1, <2>2
<1>. QED
  BY <1>3, <1>8, <1>9 DEF DepthInv

\* One step further down.
LEMMA StepsGoOn ==
  ASSUME NEW arena, NEW p, NEW q, StepsDown(p, arena), Len(p) \in Nat, Len(p) # 0,
         Len(q) = Len(p) + 1, \A i \in 1 .. Len(p) : q[i] = p[i] /\ p[i] \in Nat,
         q[Len(p) + 1] \in Branches(arena, p[Len(p)]),
         q[Len(p) + 1] \in Nat, q[Len(p) + 1] > p[Len(p)]
  PROVE  StepsDown(q, arena)
<1>1. \A i, j \in 1 .. Len(p) : i < j => p[i] < p[j]
  BY DEF StepsDown
<1>2. ASSUME NEW i \in 2 .. Len(q) PROVE q[i] \in Branches(arena, q[i - 1])
  <2>1. CASE i = Len(p) + 1
    <3>1. i - 1 = Len(p) /\ Len(p) \in 1 .. Len(p)
      BY <2>1
    <3>. QED
      BY <2>1, <3>1
  <2>2. CASE i # Len(p) + 1
    <3>1. i \in 2 .. Len(p) /\ i \in 1 .. Len(p) /\ i - 1 \in 1 .. Len(p)
      BY <2>2
    <3>. QED
      BY <3>1 DEF StepsDown
  <2>. QED
    BY <2>1, <2>2
<1>3. ASSUME NEW i \in 1 .. Len(q), NEW j \in 1 .. Len(q), i < j PROVE q[i] < q[j]
  <2>1. i \in 1 .. Len(p)
    BY <1>3
  <2>2. CASE j = Len(p) + 1
    <3>1. i = Len(p) \/ p[i] < p[Len(p)]
      BY <1>1, <2>1
    <3>2. Len(p) \in 1 .. Len(p)
      OBVIOUS
    <3>. QED
      BY <2>1, <2>2, <3>1, <3>2
  <2>3. CASE j # Len(p) + 1
    <3>1. j \in 1 .. Len(p)
      BY <2>3
    <3>. QED
      BY <1>1, <1>3, <2>1, <3>1
  <2>. QED
    BY <2>2, <2>3
<1>. QED
  BY <1>2, <1>3 DEF StepsDown

LEMMA StepsStay ==
  ASSUME NEW arena, NEW more, NEW p, StepsDown(p, arena), Len(p) \in Nat,
         \A i \in 1 .. Len(p) : Branches(arena, p[i]) \subseteq Branches(more, p[i])
  PROVE  StepsDown(p, more)
<1>1. ASSUME NEW i \in 2 .. Len(p) PROVE p[i] \in Branches(more, p[i - 1])
  <2>1. i - 1 \in 1 .. Len(p)
    OBVIOUS
  <2>. QED
    BY <2>1 DEF StepsDown
<1>. QED
  BY <1>1 DEF StepsDown

\* The path, or the beginning of one, goes on with a child c.
LEMMA AppendSteps ==
  ASSUME ArenaInv, PathInv, StepsDown(path, nodes), NEW p, NEW n, GoesOnFrom(p, n),
         NEW arena, \A m \in DOMAIN nodes : Branches(nodes, m) \subseteq Branches(arena, m),
         NEW c \in Nat, c > n, c \in Branches(arena, n), NEW q, q = Append(p, c)
  PROVE  /\ n \in DOMAIN nodes
         /\ StepsDown(q, arena)
         /\ Len(q) \in Nat
         /\ q[Len(q)] = c
<1>1. /\ Len(nodes) \in Nat /\ DOMAIN nodes = 1 .. Len(nodes) /\ root \in DOMAIN nodes
  BY ArenaFacts
<1>2. WayDown(p, nodes, root) /\ p # <<>>
  BY FirstOfThePath DEF PathInv, GoesOnFrom
<1>3. /\ Len(p) \in Nat /\ Len(p) # 0 /\ IsSeq(p)
      /\ \A i \in 1 .. Len(p) : p[i] \in DOMAIN nodes
  <2>1. IsSeq(p)
    BY <1>2, AnySeq DEF WayDown
  <2>. QED
    BY <1>2, <2>1, WayDownFacts
<1>4. StepsDown(p, nodes)
  <2>1. CASE p = path
    BY <2>1
  <2>2. CASE p = <<root>>
    <3>1. Len(p) = 1
      BY <2>2, FirstOfThePath
    <3>. QED
      BY <3>1 DEF StepsDown
  <2>. QED
    BY <2>1, <2>2 DEF GoesOnFrom
<1>5. StepsDown(p, arena)
  <2>1. \A i \in 1 .. Len(p) : Branches(nodes, p[i]) \subseteq Branches(arena, p[i])
    BY <1>3
  <2>. QED
    BY <1>3, <1>4, <2>1, StepsStay
<1>6. Len(q) = Len(p) + 1 /\ (\A i \in 1 .. Len(p) : q[i] = p[i]) /\ q[Len(p) + 1] = c
  BY <1>3, ExtendedSeq, Zenon
<1>7. n = p[Len(p)] /\ Len(p) \in 1 .. Len(p)
  BY <1>3 DEF GoesOnFrom
<1>8. n \in DOMAIN nodes
  BY <1>3, <1>7
<1>9. \A i \in 1 .. Len(p) : q[i] = p[i] /\ p[i] \in Nat
  BY <1>1, <1>3, <1>6
<1>10. StepsDown(q, arena)
  <2>1. q[Len(p) + 1] \in Branches(arena, p[Len(p)]) /\ q[Len(p) + 1] \in Nat /\ q[Len(p) + 1] > p[Len(p)]
    BY <1>6, <1>7
  <2>2. Len(q) = Len(p) + 1
    BY <1>6
  <2>. QED
    BY <1>3, <1>5, <1>9, <2>1, <2>2, StepsGoOn, Zenon
<1>. QED
  BY <1>3, <1>6, <1>8, <1>10

LEMMA NothingOwed == ~grown => \A n : Owed(n) = 0
BY DEF Owed

\* A node with a new child that was not played out yet.
LEMMA TotalWithNone ==
  ASSUME ArenaInv, OnceInv, NEW n, Grow(n, 1), nodes'[Len(nodes) + 1].visits = 0
  PROVE  Total(nodes', n) = Total(nodes, n)
<1> DEFINE l == Len(nodes[n].children)
           f == PassedIn(nodes, n)
           g == PassedIn(nodes', n)
<1>1. n \in DOMAIN nodes
  BY DEF Grow
<1>2. l \in Nat /\ DOMAIN nodes[n].children = 1 .. l
  BY <1>1, ChildFacts
<1>3. /\ DOMAIN nodes'[n].children = 1 .. l + 1
      /\ \A i \in 1 .. l : nodes'[n].children[i] = nodes[n].children[i]
      /\ nodes'[n].children[l + 1] = Len(nodes) + 1
  <2>1. 1 \in 1 .. 1
    OBVIOUS
  <2>. QED
    BY <2>1 DEF Grow, Lengthened
<1>4. \A i \in 1 .. l : g[i] = f[i] /\ f[i] \in Int
  <2> SUFFICES ASSUME NEW i \in 1 .. l PROVE g[i] = f[i] /\ f[i] \in Int
    OBVIOUS
  <2>1. i \in DOMAIN nodes'[n].children /\ i \in DOMAIN nodes[n].children
    BY <1>2, <1>3
  <2>2. g[i] = NetIn(nodes', nodes'[n].children[i]) /\ f[i] = NetIn(nodes, nodes[n].children[i])
    BY <2>1, TotalIs
  <2>3. NetIn(nodes', nodes[n].children[i]) = NetIn(nodes, nodes[n].children[i]) /\ f[i] \in Int
    BY <1>1, <2>1, ChildFacts, GrowTotals
  <2>. QED
    BY <1>3, <2>2, <2>3
<1>5. g[l + 1] = 0
  <2>1. l + 1 \in DOMAIN nodes'[n].children
    BY <1>2, <1>3
  <2>2. g[l + 1] = NetIn(nodes', Len(nodes) + 1)
    BY <1>3, <2>1, TotalIs
  <2>3. Len(nodes) + 1 \in Len(nodes) + 1 .. Len(nodes) + 1
    BY ArenaFacts
  <2>4. NetIn(nodes', Len(nodes) + 1) = nodes'[Len(nodes) + 1].visits
    BY <2>3, GrowTotals
  <2>. QED
    BY <2>2, <2>4
<1>. HIDE DEF l, f, g
<1>6. SumFunctionOnSet(g, 1 .. l + 1) = SumFunctionOnSet(f, 1 .. l)
  <2> DEFINE S == 1 .. l + 1
             R == 1 .. l
  <2>1. IsFiniteSet(S) /\ IsFiniteSet(R)
    BY <1>2, FS_Interval
  <2>2. l + 1 \in S /\ S \ {l + 1} = R
    BY <1>2
  <2>3. \A x \in S : g[x] \in Int
    BY <1>2, <1>4, <1>5
  <2>4. \A x \in R : f[x] \in Int /\ g[x] = f[x]
    BY <1>4
  <2>. HIDE DEF S, R
  <2>5. SumFunctionOnSet(g, S) = g[l + 1] + SumFunctionOnSet(g, R)
    BY <2>1, <2>2, <2>3, SumRemove
  <2>6. SumFunctionOnSet(g, R) = SumFunctionOnSet(f, R) /\ SumFunctionOnSet(f, R) \in Int
    BY <2>1, <2>4, SumEqual, SumIsInt
  <2>7. SumFunctionOnSet(g, S) = SumFunctionOnSet(f, R)
    BY <1>5, <2>5, <2>6
  <2>. QED
    BY <2>7 DEF S, R
<1>7. Total(nodes, n) = SumFunctionOnSet(f, 1 .. l)
  BY <1>2, TotalIs DEF f
<1>8. Total(nodes', n) = SumFunctionOnSet(g, 1 .. l + 1)
  BY <1>3, TotalIs DEF g
<1>. QED
  BY <1>6, <1>7, <1>8

\* A node whose children are new and had a playout each.
LEMMA TotalOfNew ==
  ASSUME ArenaInv, OnceInv, NEW n, NEW k, Grow(n, k), nodes[n].children = <<>>,
         \A m \in Len(nodes) + 1 .. Len(nodes) + k : nodes'[m].visits = 1
  PROVE  Total(nodes', n) = k /\ Total(nodes, n) = 0
<1> DEFINE g == PassedIn(nodes', n)
           S == 1 .. k
<1>1. Len(nodes[n].children) = 0 /\ k \in Nat /\ Len(nodes) \in Nat
  BY EmptySeq, ArenaFacts DEF Grow
<1>2. /\ DOMAIN nodes'[n].children = 1 .. k
      /\ \A i \in 1 .. k : nodes'[n].children[i] = Len(nodes) + i
  BY <1>1 DEF Grow, Lengthened
<1>3. \A i \in S : g[i] = 1
  <2> SUFFICES ASSUME NEW i \in 1 .. k PROVE g[i] = 1
    OBVIOUS
  <2>1. g[i] = NetIn(nodes', Len(nodes) + i)
    <3>1. i \in DOMAIN nodes'[n].children /\ nodes'[n].children[i] = Len(nodes) + i
      BY <1>2
    <3>2. g[i] = NetIn(nodes', nodes'[n].children[i])
      BY <3>1, TotalIs
    <3>. QED
      BY <3>1, <3>2
  <2>2. Len(nodes) + i \in Len(nodes) + 1 .. Len(nodes) + k
    BY <1>1
  <2>3. NetIn(nodes', Len(nodes) + i) = nodes'[Len(nodes) + i].visits
    BY <2>2, GrowTotals
  <2>. QED
    BY <2>1, <2>2, <2>3
<1>4. IsFiniteSet(S) /\ Cardinality(S) = k
  BY <1>1, FS_Interval
<1>5. Total(nodes', n) = SumFunctionOnSet(g, S)
  BY <1>2, TotalIs
<1>6. SumFunctionOnSet(g, S) = k
  <2>. HIDE DEF g, S
  <2>. QED
    BY <1>3, <1>4, SumOfOnes
<1>. QED
  BY <1>5, <1>6, TotalOfNone

\* Opening a child: it is owed the playout its parent has not counted.
LEMMA ExpandCounts ==
  ASSUME TreeInv, CountedInv, ~grown, root' = root, NEW p, NEW n, GoesOnFrom(p, n),
         expand_one_child(n, p)
  PROVE  CountedInv'
<1>1. ArenaInv /\ PathInv /\ OnceInv /\ StepsDown(path, nodes) /\ CountInv /\ DepthInv
  BY DEF TreeInv, CountedInv
<1>2. /\ Len(nodes) \in Nat /\ DOMAIN nodes = 1 .. Len(nodes) /\ root \in DOMAIN nodes
      /\ \A m \in DOMAIN nodes : nodes[m].visits \in Nat
  BY <1>1, ArenaFacts
<1>3. n \in DOMAIN nodes
  <2>1. WayDown(p, nodes, root) /\ p # <<>>
    BY <1>1, FirstOfThePath DEF PathInv, GoesOnFrom
  <2>2. Len(p) \in Nat /\ Len(p) # 0 /\ \A i \in 1 .. Len(p) : p[i] \in DOMAIN nodes
    BY <2>1, WayDownFacts
  <2>3. Len(p) \in 1 .. Len(p)
    BY <2>2
  <2>. QED
    BY <2>2, <2>3 DEF GoesOnFrom
<1>. DEFINE child == Len(nodes) + 1
<1>4. /\ Untried(n) /\ Grow(n, 1)
      /\ nodes'[n].visits = nodes[n].visits
      /\ nodes'[child].visits = 0
      /\ path' = Append(p, child)
      /\ grown' = TRUE
  BY <1>1, <1>3, ExpandGrows
<1>5. /\ DOMAIN nodes' = 1 .. Len(nodes) + 1
      /\ \A m \in DOMAIN nodes : m # n => nodes'[m] = nodes[m]
      /\ \A m \in DOMAIN nodes : nodes'[m].kind = nodes[m].kind
  <2>1. DOMAIN nodes' = 1 .. Len(nodes')
    BY <1>4, SeqFacts DEF Grow
  <2>. QED
    BY <1>4, <2>1 DEF Grow
<1>6. /\ OnceInv'
      /\ \A m \in DOMAIN nodes : Total(nodes', m) = Total(nodes, m)
      /\ Total(nodes', child) = 0
  <2>1. child \in Len(nodes) + 1 .. Len(nodes) + 1
    BY <1>2
  <2>2. Total(nodes', n) = Total(nodes, n)
    BY <1>1, <1>4, TotalWithNone
  <2>. QED
    BY <1>1, <1>4, <2>1, <2>2, GrowTotals
<1>7. \A m \in DOMAIN nodes : Branches(nodes, m) \subseteq Branches(nodes', m)
  <2>1. Branches(nodes, n) \subseteq Branches(nodes', n)
    <3>1. \A c : c \in Children(n)' <=> c \in Children(n) \/ c \in Len(nodes) + 1 .. Len(nodes) + 1
      BY <1>4 DEF Grow
    <3>. QED
      BY <3>1 DEF Branches, Children
  <2>. QED
    BY <1>5, <2>1 DEF Branches
<1>8. child \in Branches(nodes', n) /\ child \in Nat /\ child > n
  <2>1. \A c : c \in Children(n)' <=> c \in Children(n) \/ c \in Len(nodes) + 1 .. Len(nodes) + 1
    BY <1>4 DEF Grow
  <2>2. child \in Children(n)'
    BY <1>2, <2>1
  <2>. QED
    BY <1>2, <1>3, <2>2 DEF Branches, Children
<1>. HIDE DEF child
<1>9. StepsDown(path', nodes') /\ Len(path') \in Nat /\ path'[Len(path')] = child
  BY <1>1, <1>4, <1>7, <1>8, AppendSteps
<1>10. child # 1 /\ child \notin DOMAIN nodes /\ \A m : m = child => Owed(m)' = 1
  <2>1. \A m : Owed(m)' = IF m = child THEN 1 ELSE 0
    BY <1>4, <1>9 DEF Owed
  <2>. QED
    BY <1>2, <2>1 DEF child
<1>11. \A m \in DOMAIN nodes : Owed(m)' = 0 /\ Owed(m) = 0
  BY <1>4, <1>9, <1>10 DEF Owed
<1>12. CountInv'
  <2> SUFFICES ASSUME NEW m \in DOMAIN nodes', m >= root, nodes'[m].kind # "Leaf"
               PROVE  nodes'[m].visits + Owed(m)' = Own(m) + Total(nodes', m)
    BY DEF CountInv, Own
  <2>1. CASE m = child
    BY <1>4, <1>6, <1>10, <2>1 DEF Own
  <2>2. CASE m \in DOMAIN nodes
    <3>1. nodes'[m].visits = nodes[m].visits /\ nodes[m].kind # "Leaf"
      BY <1>4, <1>5, <2>2
    <3>2. nodes[m].visits + Owed(m) = Own(m) + Total(nodes, m)
      BY <1>1, <2>2, <3>1 DEF CountInv
    <3>. QED
      BY <1>6, <1>11, <2>2, <3>1, <3>2
  <2>3. m = child \/ m \in DOMAIN nodes
    BY <1>2, <1>5 DEF child
  <2>. QED
    BY <2>1, <2>2, <2>3
<1>13. DepthInv'
  BY <1>1, <1>4, GrowDepths DEF Untried
<1>. QED
  BY <1>6, <1>9, <1>12, <1>13 DEF CountedInv

\* A chance node counts the playouts of the children it is given.
LEMMA ChanceCounts ==
  ASSUME TreeInv, CountedInv, ExpandChance
  PROVE  CountedInv'
<1>1. ArenaInv /\ PathInv /\ FreshInv /\ OnceInv /\ StepsDown(path, nodes) /\ CountInv /\ DepthInv
  BY DEF TreeInv, CountedInv
<1>2. /\ Len(nodes) \in Nat /\ DOMAIN nodes = 1 .. Len(nodes) /\ root \in DOMAIN nodes
      /\ \A m \in DOMAIN nodes : nodes[m].visits \in Nat
  BY <1>1, ArenaFacts
<1>3. root' = root /\ path' = path /\ grown' = grown
  BY DEF ExpandChance
<1>4. PICK n \in fresh, k \in Nat :
        /\ Grow(n, k)
        /\ nodes'[n].visits = nodes[n].visits + k
        /\ \A m \in Len(nodes) + 1 .. Len(nodes) + k : nodes'[m].visits = 1
  BY <1>1, ChanceGrows
<1>5. n \in DOMAIN nodes /\ nodes[n].kind = "Chance" /\ nodes[n].children = <<>>
  BY <1>1 DEF FreshInv
<1>6. /\ DOMAIN nodes' = 1 .. Len(nodes) + k
      /\ \A m \in DOMAIN nodes : m # n => nodes'[m] = nodes[m]
      /\ \A m \in DOMAIN nodes : nodes'[m].kind = nodes[m].kind
  <2>1. DOMAIN nodes' = 1 .. Len(nodes')
    BY <1>4, SeqFacts DEF Grow
  <2>. QED
    BY <1>4, <2>1 DEF Grow
<1>7. /\ OnceInv'
      /\ \A m \in DOMAIN nodes \ {n} : Total(nodes', m) = Total(nodes, m)
      /\ \A m \in Len(nodes) + 1 .. Len(nodes) + k : Total(nodes', m) = 0
  BY <1>1, <1>4, GrowTotals
<1>8. Total(nodes', n) = k /\ Total(nodes, n) = 0
  BY <1>1, <1>4, <1>5, TotalOfNew
<1>9. \A m \in DOMAIN nodes : Branches(nodes, m) \subseteq Branches(nodes', m)
  <2>1. Branches(nodes, n) = {}
    BY <1>5 DEF Branches
  <2>. QED
    BY <1>6, <2>1 DEF Branches
<1>10. Len(path) \in Nat /\ \A i \in 1 .. Len(path) : path[i] \in DOMAIN nodes
  BY <1>1, WayDownFacts DEF PathInv
<1>11. StepsDown(path', nodes')
  <2>1. \A i \in 1 .. Len(path) : Branches(nodes, path[i]) \subseteq Branches(nodes', path[i])
    BY <1>9, <1>10
  <2>2. StepsDown(path, nodes')
    BY <1>1, <1>10, <2>1, StepsStay
  <2>. QED
    BY <1>3, <2>2
<1>12. \A m : Owed(m)' = Owed(m)
  BY <1>3 DEF Owed
<1>13. \A m \in Len(nodes) + 1 .. Len(nodes) + k : Owed(m) = 0 /\ m # 1 /\ m \notin DOMAIN nodes
  <2> SUFFICES ASSUME NEW m \in Len(nodes) + 1 .. Len(nodes) + k
               PROVE  Owed(m) = 0 /\ m # 1 /\ m \notin DOMAIN nodes
    OBVIOUS
  <2>1. m # 1 /\ m \notin DOMAIN nodes
    BY <1>2
  <2>2. grown => Len(path) \in 1 .. Len(path)
    BY <1>1, <1>10 DEF PathInv
  <2>3. grown => path[Len(path)] \in DOMAIN nodes
    BY <1>10, <2>2
  <2>. QED
    BY <2>1, <2>3 DEF Owed
<1>14. CountInv'
  <2> SUFFICES ASSUME NEW m \in DOMAIN nodes', m >= root, nodes'[m].kind # "Leaf"
               PROVE  nodes'[m].visits + Owed(m) = Own(m) + Total(nodes', m)
    BY <1>3, <1>12 DEF CountInv, Own
  <2>1. CASE m \in Len(nodes) + 1 .. Len(nodes) + k
    BY <1>4, <1>7, <1>13, <2>1 DEF Own
  <2>2. CASE m \in DOMAIN nodes
    <3>1. nodes[m].visits + Owed(m) = Own(m) + Total(nodes, m)
      BY <1>1, <1>6, <2>2 DEF CountInv
    <3>2. CASE m # n
      BY <1>6, <1>7, <2>2, <3>1, <3>2
    <3>3. CASE m = n
      <4>1. nodes'[m].visits = nodes[m].visits + k /\ Total(nodes', m) = k /\ Total(nodes, m) = 0
        BY <1>4, <1>8, <3>3
      <4>2. nodes[m].visits \in Nat /\ Owed(m) \in Nat /\ Own(m) \in Nat
        BY <1>2, <2>2 DEF Owed, Own
      <4>. QED
        BY <3>1, <4>1, <4>2
    <3>. QED
      BY <3>2, <3>3
  <2>3. m \in Len(nodes) + 1 .. Len(nodes) + k \/ m \in DOMAIN nodes
    BY <1>2, <1>6
  <2>. QED
    BY <2>1, <2>2, <2>3
<1>15. DepthInv'
  BY <1>1, <1>3, <1>4, <1>5, GrowDepths
<1>. QED
  BY <1>7, <1>11, <1>14, <1>15 DEF CountedInv

\* The path goes on without opening anything.
LEMMA DescendCounts ==
  ASSUME TreeInv, CountedInv, Descend
  PROVE  CountedInv'
<1>1. ArenaInv /\ PathInv /\ OnceInv /\ StepsDown(path, nodes) /\ CountInv /\ DepthInv
  BY DEF TreeInv, CountedInv
<1>2. ~grown /\ path # <<>> /\ root' = root
  BY DEF Descend, Between
<1>. DEFINE n == path[Len(path)]
<1>3. GoesOnFrom(path, n)
  BY <1>2 DEF GoesOnFrom
<1>4. \/ expand_one_child(n, path)
      \/ \E c \in Selected(n) : path' = Append(path, c) /\ UNCHANGED <<nodes, grown>>
  BY DEF Descend, Last
<1>5. n \in DOMAIN nodes
  <2>1. Len(path) \in Nat /\ Len(path) # 0 /\ \A i \in 1 .. Len(path) : path[i] \in DOMAIN nodes
    BY <1>1, <1>2, WayDownFacts DEF PathInv
  <2>2. Len(path) \in 1 .. Len(path)
    BY <2>1
  <2>. QED
    BY <2>1, <2>2
<1>. HIDE DEF n
<1>6. CASE expand_one_child(n, path)
  BY <1>2, <1>3, <1>6, ExpandCounts
<1>7. ASSUME NEW c \in Selected(n), path' = Append(path, c), nodes' = nodes, grown' = grown
      PROVE  CountedInv'
  <2>1. c \in Children(n)
    BY DEF Selected, select_least_visited
  <2>2. c \in DOMAIN nodes /\ c > n /\ c \in Nat /\ c \in Branches(nodes, n)
    <3>1. c \in DOMAIN nodes /\ c > n /\ DOMAIN nodes = 1 .. Len(nodes)
      BY <1>1, <1>5, <2>1, ArenaFacts
    <3>. QED
      BY <2>1, <3>1 DEF Branches, Children
  <2>3. StepsDown(path', nodes')
    BY <1>1, <1>3, <1>7, <2>2, AppendSteps
  <2>4. \A m : Owed(m)' = 0 /\ Owed(m) = 0
    BY <1>2, <1>7 DEF Owed
  <2>5. CountInv'
    BY <1>1, <1>2, <1>7, <2>4 DEF CountInv, Own
  <2>6. OnceInv' /\ DepthInv'
    BY <1>1, <1>2, <1>7 DEF OnceInv, DepthInv, Children
  <2>. QED
    BY <2>3, <2>5, <2>6 DEF CountedInv
<1>. QED
  BY <1>4, <1>6, <1>7

\* A node one of whose children passes on one playout more.
LEMMA TotalWithOne ==
  ASSUME ArenaInv, OnceInv, NEW n \in DOMAIN nodes,
         nodes'[n].children = nodes[n].children,
         NEW k \in DOMAIN nodes[n].children,
         NetIn(nodes', nodes[n].children[k]) = NetIn(nodes, nodes[n].children[k]) + 1,
         \A i \in DOMAIN nodes[n].children :
           nodes[n].children[i] # nodes[n].children[k] =>
             NetIn(nodes', nodes[n].children[i]) = NetIn(nodes, nodes[n].children[i])
  PROVE  Total(nodes', n) = Total(nodes, n) + 1
<1> DEFINE S == DOMAIN nodes[n].children
           f == PassedIn(nodes, n)
           g == PassedIn(nodes', n)
<1>1. IsFiniteSet(S) /\ \A i \in S : f[i] \in Int
  BY ChildFacts
<1>2. \A i \in S : /\ f[i] = NetIn(nodes, nodes[n].children[i])
                   /\ g[i] = NetIn(nodes', nodes[n].children[i])
  BY TotalIs
<1>3. g[k] = f[k] + 1 /\ \A i \in S : i # k => g[i] = f[i]
  BY <1>2 DEF OnceInv
<1>4. Total(nodes, n) = SumFunctionOnSet(f, S) /\ Total(nodes', n) = SumFunctionOnSet(g, S)
  BY TotalIs
<1>5. k \in S
  OBVIOUS
<1>. HIDE DEF S, f, g
<1>6. SumFunctionOnSet(g, S) = SumFunctionOnSet(f, S) + 1
  <2>1. 1 \in Int
    OBVIOUS
  <2>. QED
    BY <1>1, <1>3, <1>5, <2>1, SumGrows
<1>. QED
  BY <1>4, <1>6

\* From the root on only the node before it on the path is the parent of a node of
\* the path, and the path comes to no node twice.
LEMMA OnThePath ==
  ASSUME ArenaInv, PathInv, StepsDown(path, nodes), path # <<>>, NEW m \in DOMAIN nodes, m >= root
  PROVE  /\ \A i \in 1 .. Len(path) : path[i] \in Children(m) => i - 1 \in 1 .. Len(path) /\ path[i - 1] = m
         /\ \A i, j \in 1 .. Len(path) : path[i] = path[j] => i = j
<1>1. /\ Len(nodes) \in Nat /\ DOMAIN nodes = 1 .. Len(nodes) /\ root \in DOMAIN nodes
      /\ \A n \in DOMAIN nodes : \A c \in Children(n) : c \in DOMAIN nodes /\ c > n
  BY ArenaFacts
<1>2. Len(path) \in Nat /\ path[1] = root /\ \A i \in 1 .. Len(path) : path[i] \in DOMAIN nodes
  BY WayDownFacts DEF PathInv, WayDown
<1>3. ASSUME NEW i \in 1 .. Len(path), path[i] \in Children(m)
      PROVE  i - 1 \in 1 .. Len(path) /\ path[i - 1] = m
  <2>1. path[i] > m
    BY <1>1, <1>3
  <2>2. i # 1
    BY <1>1, <1>2, <2>1
  <2>3. i \in 2 .. Len(path) /\ i - 1 \in 1 .. Len(path)
    BY <1>2, <2>2
  <2>4. path[i] \in Children(path[i - 1])
    BY <2>3 DEF StepsDown, Branches, Children
  <2>5. path[i - 1] \in DOMAIN nodes
    BY <1>2, <2>3
  <2>. QED
    BY <1>3, <2>3, <2>4, <2>5 DEF ArenaInv
<1>4. ASSUME NEW i \in 1 .. Len(path), NEW j \in 1 .. Len(path), path[i] = path[j]
      PROVE  i = j
  <2>1. ~(i < j) /\ ~(j < i)
    <3>1. path[i] \in Nat
      BY <1>1, <1>2
    <3>. QED
      BY <1>4, <3>1 DEF StepsDown
  <2>. QED
    BY <1>2, <2>1
<1>. QED
  BY <1>3, <1>4

\* A playout is counted by every node of the path, and so by every node and by
\* the one child of it that the path goes through.
LEMMA BackpropCounts ==
  ASSUME TreeInv, CountedInv, Backprop
  PROVE  CountedInv'
<1>1. ArenaInv /\ PathInv /\ OnceInv /\ StepsDown(path, nodes) /\ CountInv /\ DepthInv
  BY DEF TreeInv, CountedInv
<1>2. /\ path # <<>> /\ path' = <<>> /\ grown' = FALSE /\ root' = root
      /\ grown \/ nodes[path[Len(path)]].kind = "Leaf"
  BY DEF Backprop, Between, Last
<1>3. /\ Len(nodes) \in Nat /\ DOMAIN nodes = 1 .. Len(nodes) /\ root \in DOMAIN nodes
      /\ \A m \in DOMAIN nodes : nodes[m].visits \in Nat
  BY <1>1, ArenaFacts
<1>4. /\ Len(path) \in Nat /\ Len(path) # 0 /\ path \in Seq(DOMAIN nodes)
      /\ \A i \in 1 .. Len(path) : path[i] \in DOMAIN nodes
  BY <1>1, <1>2, WayDownFacts DEF PathInv, WayDown
<1>5. \A m : m \in Range(path) <=> \E i \in 1 .. Len(path) : m = path[i]
  <2>1. DOMAIN path = 1 .. Len(path)
    BY <1>4, LenProperties
  <2>. QED
    BY <2>1 DEF Range
<1>6. /\ DOMAIN nodes' = DOMAIN nodes
      /\ \A m \in DOMAIN nodes :
           /\ nodes'[m].kind = nodes[m].kind
           /\ nodes'[m].hero_depth = nodes[m].hero_depth
           /\ nodes'[m].children = nodes[m].children
           /\ m \notin Range(path) => nodes'[m] = nodes[m]
           /\ m \in Range(path) => nodes'[m].visits = nodes[m].visits + 1
  BY <1>1, BackpropMoves
<1>7. \A m \in DOMAIN nodes : Children(m)' = Children(m)
  BY <1>6 DEF Children
<1>8. OnceInv'
  BY <1>1, <1>6 DEF OnceInv
<1>9. StepsDown(path', nodes')
  <2>1. Len(path') = 0
    BY <1>2, EmptySeq
  <2>. QED
    BY <2>1 DEF StepsDown
<1>10. DepthInv'
  BY <1>1, <1>2, <1>3, <1>6, <1>7, ArenaFacts DEF DepthInv
<1>11. \A m \in DOMAIN nodes :
         /\ m \in Range(path) => NetIn(nodes', m) = NetIn(nodes, m) + 1
         /\ m \notin Range(path) => NetIn(nodes', m) = NetIn(nodes, m)
  <2> SUFFICES ASSUME NEW m \in DOMAIN nodes
               PROVE  /\ m \in Range(path) => NetIn(nodes', m) = NetIn(nodes, m) + 1
                      /\ m \notin Range(path) => NetIn(nodes', m) = NetIn(nodes, m)
    OBVIOUS
  <2>1. Len(nodes[m].children) \in Nat /\ nodes[m].visits \in Nat
    BY <1>1, <1>3, ChildFacts
  <2>2. nodes'[m].kind = nodes[m].kind /\ nodes'[m].children = nodes[m].children
    BY <1>6
  <2>3. m \in Range(path) => nodes'[m].visits = nodes[m].visits + 1
    BY <1>6
  <2>4. m \notin Range(path) => nodes'[m].visits = nodes[m].visits
    BY <1>6
  <2>. QED
    BY <2>1, <2>2, <2>3, <2>4 DEF NetIn
<1>12. \A m : Owed(m)' = 0
  BY <1>2 DEF Owed
<1>13. ASSUME NEW m \in DOMAIN nodes, m >= root, nodes[m].kind # "Leaf"
       PROVE  nodes'[m].visits = Own(m) + Total(nodes', m)
  <2>1. /\ \A i \in DOMAIN nodes[m].children :
             nodes[m].children[i] \in Children(m) /\ nodes[m].children[i] \in DOMAIN nodes
        /\ Total(nodes, m) \in Int
    <3>1. Total(nodes, m) = SumFunctionOnSet(PassedIn(nodes, m), DOMAIN nodes[m].children)
      BY TotalIs
    <3>. DEFINE f == PassedIn(nodes, m)
                S == DOMAIN nodes[m].children
    <3>2. IsFiniteSet(S) /\ \A i \in S : f[i] \in Int
      BY <1>1, ChildFacts
    <3>3. SumFunctionOnSet(f, S) \in Int
      <4>. HIDE DEF f, S
      <4>. QED
        BY <3>2, SumIsInt
    <3>. QED
      BY <1>1, <3>1, <3>3, ChildFacts
  <2>2. /\ \A i \in 1 .. Len(path) :
             path[i] \in Children(m) => i - 1 \in 1 .. Len(path) /\ path[i - 1] = m
        /\ \A i, j \in 1 .. Len(path) : path[i] = path[j] => i = j
    BY <1>1, <1>2, <1>13, OnThePath
  <2>3. nodes[m].visits + Owed(m) = Own(m) + Total(nodes, m)
    BY <1>1, <1>13 DEF CountInv
  <2>4. nodes'[m].children = nodes[m].children /\ nodes[m].visits \in Nat /\ Own(m) \in Int
    BY <1>3, <1>6 DEF Own
  <2>5. ASSUME \A i \in 1 .. Len(path) : path[i] \notin Children(m)
        PROVE  Total(nodes', m) = Total(nodes, m)
    <3>1. \A i \in DOMAIN nodes[m].children : nodes[m].children[i] \notin Range(path)
      BY <1>5, <2>1, <2>5
    <3>2. \A i \in DOMAIN nodes[m].children :
            NetIn(nodes', nodes[m].children[i]) = NetIn(nodes, nodes[m].children[i])
      BY <1>11, <2>1, <3>1
    <3>. QED
      BY <2>4, <3>2, TotalSame
  <2>6. CASE m \notin Range(path)
    <3>1. \A i \in 1 .. Len(path) : path[i] \notin Children(m)
      BY <1>5, <2>2, <2>6
    <3>2. Owed(m) = 0
      <4>1. Len(path) \in 1 .. Len(path)
        BY <1>4
      <4>. QED
        BY <1>5, <2>6, <4>1 DEF Owed
    <3>3. nodes'[m].visits = nodes[m].visits
      BY <1>6, <2>6
    <3>. QED
      BY <2>1, <2>3, <2>4, <2>5, <3>1, <3>2, <3>3
  <2>7. ASSUME m = path[Len(path)] PROVE nodes'[m].visits = Own(m) + Total(nodes', m)
    <3>1. Owed(m) = 1
      BY <1>2, <1>13, <2>7 DEF Owed
    <3>2. Len(path) \in 1 .. Len(path)
      BY <1>4
    <3>3. \A i \in 1 .. Len(path) : path[i] \notin Children(m)
      <4> SUFFICES ASSUME NEW i \in 1 .. Len(path), path[i] \in Children(m) PROVE FALSE
        OBVIOUS
      <4>1. i - 1 \in 1 .. Len(path) /\ path[i - 1] = path[Len(path)]
        BY <2>2, <2>7
      <4>2. i - 1 = Len(path)
        BY <2>2, <3>2, <4>1
      <4>. QED
        BY <1>4, <4>2
    <3>4. nodes'[m].visits = nodes[m].visits + 1
      BY <1>5, <1>6, <2>7, <3>2
    <3>. QED
      BY <2>1, <2>3, <2>4, <2>5, <3>1, <3>3, <3>4
  <2>8. ASSUME NEW j \in 1 .. Len(path), j # Len(path), m = path[j]
        PROVE  nodes'[m].visits = Own(m) + Total(nodes', m)
    <3>1. j + 1 \in 1 .. Len(path) /\ j + 1 \in 2 .. Len(path) /\ (j + 1) - 1 = j
          /\ Len(path) \in 1 .. Len(path)
      BY <1>4, <2>8
    <3>2. Owed(m) = 0
      BY <2>2, <2>8, <3>1 DEF Owed
    <3>3. path[j + 1] \in Children(m)
      BY <1>1, <2>8, <3>1 DEF StepsDown, Branches, Children
    <3>4. PICK k \in DOMAIN nodes[m].children : nodes[m].children[k] = path[j + 1]
      BY <3>3 DEF Children
    <3>5. \A i \in DOMAIN nodes[m].children :
            nodes[m].children[i] # path[j + 1] => nodes[m].children[i] \notin Range(path)
      <4> SUFFICES ASSUME NEW i \in DOMAIN nodes[m].children, nodes[m].children[i] \in Range(path)
                   PROVE  nodes[m].children[i] = path[j + 1]
        OBVIOUS
      <4>1. PICK h \in 1 .. Len(path) : nodes[m].children[i] = path[h]
        BY <1>5
      <4>2. path[h] \in Children(m)
        BY <2>1, <4>1
      <4>3. h - 1 \in 1 .. Len(path) /\ path[h - 1] = path[j]
        BY <2>2, <2>8, <4>2
      <4>4. h - 1 = j
        BY <2>2, <4>3
      <4>5. h = j + 1
        BY <1>4, <4>4
      <4>. QED
        BY <4>1, <4>5
    <3>6. NetIn(nodes', nodes[m].children[k]) = NetIn(nodes, nodes[m].children[k]) + 1
      BY <1>5, <1>11, <2>1, <3>1, <3>4
    <3>7. \A i \in DOMAIN nodes[m].children :
            nodes[m].children[i] # nodes[m].children[k] =>
              NetIn(nodes', nodes[m].children[i]) = NetIn(nodes, nodes[m].children[i])
      BY <1>11, <2>1, <3>4, <3>5
    <3>8. Total(nodes', m) = Total(nodes, m) + 1
      BY <1>1, <2>4, <3>6, <3>7, TotalWithOne
    <3>9. nodes'[m].visits = nodes[m].visits + 1
      BY <1>5, <1>6, <2>8
    <3>. QED
      BY <2>1, <2>3, <2>4, <3>2, <3>8, <3>9
  <2>. QED
    BY <1>5, <2>6, <2>7, <2>8
<1>14. CountInv'
  <2> SUFFICES ASSUME NEW m \in DOMAIN nodes', m >= root, nodes'[m].kind # "Leaf"
               PROVE  nodes'[m].visits + 0 = Own(m) + Total(nodes', m)
    BY <1>2, <1>12 DEF CountInv, Own
  <2>1. m \in DOMAIN nodes /\ nodes[m].kind # "Leaf" /\ nodes'[m].visits \in Nat
    <3>1. m \in DOMAIN nodes /\ nodes[m].visits \in Nat
      BY <1>3, <1>6
    <3>. QED
      BY <1>6, <3>1
  <2>2. nodes'[m].visits = Own(m) + Total(nodes', m)
    BY <1>13, <2>1
  <2>. QED
    BY <2>1, <2>2
<1>. QED
  BY <1>8, <1>9, <1>10, <1>14 DEF CountedInv

(***************************************************************************)
(* The nodes of the tree: what the definition by recursion describes is    *)
(* the least set that has the root and the children of its nodes.          *)
(***************************************************************************)
IsFound(f) ==
  f = [n \in DOMAIN nodes |-> n = root \/ \E p \in 1 .. n - 1 : n \in Children(p) /\ f[p]]

Reach ==
  {n \in DOMAIN nodes : \A S \in SUBSET DOMAIN nodes :
     root \in S /\ (\A p \in S : Children(p) \subseteq S) => n \in S}

LEMMA ReachIsFound ==
  ASSUME ArenaInv
  PROVE  IsFound([n \in DOMAIN nodes |-> n \in Reach])
<1>1. /\ Len(nodes) \in Nat /\ DOMAIN nodes = 1 .. Len(nodes) /\ root \in DOMAIN nodes
      /\ \A n \in DOMAIN nodes : \A c \in Children(n) : c \in DOMAIN nodes /\ c > n
  BY ArenaFacts
<1>2. root \in Reach
  BY <1>1 DEF Reach
<1>3. \A p \in Reach : \A c \in Children(p) : c \in Reach
  BY <1>1 DEF Reach
<1>4. ASSUME NEW n \in Reach, n # root PROVE \E p \in 1 .. n - 1 : n \in Children(p) /\ p \in Reach
  <2> SUFFICES ASSUME \A p \in 1 .. n - 1 : n \in Children(p) => p \notin Reach PROVE FALSE
    OBVIOUS
  <2>. DEFINE S == Reach \ {n}
  <2>1. \A p \in Reach : p \in DOMAIN nodes
    BY DEF Reach
  <2>2. S \in SUBSET DOMAIN nodes /\ root \in S
    BY <1>2, <1>4, <2>1
  <2>3. ASSUME NEW p \in S, NEW c \in Children(p) PROVE c \in S
    <3>1. c \in Reach /\ p \in DOMAIN nodes /\ c > p
      BY <1>1, <1>3, <2>1, <2>3
    <3>2. c # n
      <4> SUFFICES ASSUME c = n PROVE FALSE
        OBVIOUS
      <4>1. p \in 1 .. n - 1
        BY <1>1, <2>1, <3>1
      <4>. QED
        BY <2>3, <4>1
    <3>. QED
      BY <3>1, <3>2
  <2>. HIDE DEF S
  <2>4. n \in S
    BY <2>2, <2>3 DEF Reach
  <2>. QED
    BY <2>4 DEF S
<1>5. \A n \in DOMAIN nodes :
        n \in Reach <=> n = root \/ \E p \in 1 .. n - 1 : n \in Children(p) /\ p \in Reach
  BY <1>2, <1>3, <1>4
<1>. DEFINE f == [n \in DOMAIN nodes |-> n \in Reach]
<1>6. ASSUME NEW n \in DOMAIN nodes
      PROVE  (n \in Reach) = (n = root \/ \E p \in 1 .. n - 1 : n \in Children(p) /\ f[p])
  <2>1. \A p \in 1 .. n - 1 : f[p] = (p \in Reach)
    <3>1. \A p \in 1 .. n - 1 : p \in DOMAIN nodes
      BY <1>1
    <3>. QED
      BY <3>1
  <2>. HIDE DEF f
  <2>2. (\E p \in 1 .. n - 1 : n \in Children(p) /\ f[p])
          <=> (\E p \in 1 .. n - 1 : n \in Children(p) /\ p \in Reach)
    BY <2>1, Zenon
  <2>3. n \in Reach <=> n = root \/ \E p \in 1 .. n - 1 : n \in Children(p) /\ p \in Reach
    BY <1>5, Zenon
  <2>4. ASSUME NEW A \in BOOLEAN, NEW B \in BOOLEAN, A <=> B PROVE A = B
    BY <2>4
  <2>5. (n \in Reach) \in BOOLEAN
        /\ (n = root \/ \E p \in 1 .. n - 1 : n \in Children(p) /\ f[p]) \in BOOLEAN
    OBVIOUS
  <2>6. n \in Reach <=> n = root \/ \E p \in 1 .. n - 1 : n \in Children(p) /\ f[p]
    BY <2>2, <2>3, Zenon
  <2>. QED
    BY <2>4, <2>5, <2>6, Zenon
<1>. QED
  BY <1>6, Zenon DEF IsFound

LEMMA InTreeFacts ==
  ASSUME ArenaInv
  PROVE  /\ InTree \subseteq DOMAIN nodes
         /\ root \in InTree
         /\ \A n \in InTree : n = root \/ \E p \in InTree : n \in Children(p)
<1>. DEFINE found == CHOOSE f : IsFound(f)
<1>1. IsFound(found)
  BY ReachIsFound, Zenon
<1>2. InTree = {n \in DOMAIN nodes : found[n]}
  BY DEF InTree, IsFound
<1>3. /\ Len(nodes) \in Nat /\ DOMAIN nodes = 1 .. Len(nodes) /\ root \in DOMAIN nodes
  BY ArenaFacts
<1>. HIDE DEF found
<1>4. \A n \in DOMAIN nodes :
        found[n] = (n = root \/ \E p \in 1 .. n - 1 : n \in Children(p) /\ found[p])
  BY <1>1, Zenon DEF IsFound
<1>5. root \in InTree
  BY <1>2, <1>3, <1>4
<1>6. ASSUME NEW n \in InTree, n # root PROVE \E p \in InTree : n \in Children(p)
  <2>1. n \in DOMAIN nodes /\ found[n]
    BY <1>2
  <2>2. PICK p \in 1 .. n - 1 : n \in Children(p) /\ found[p]
    BY <1>4, <1>6, <2>1
  <2>3. p \in DOMAIN nodes
    BY <1>3, <2>1
  <2>. QED
    BY <1>2, <2>2, <2>3
<1>. QED
  BY <1>2, <1>5, <1>6

\* What is in the tree comes after its root, and is deeper.
LEMMA BelowTheRoot ==
  ASSUME ArenaInv, DepthInv
  PROVE  \A n \in InTree : n >= root /\ (n # root => nodes[n].hero_depth >= 1)
<1>. DEFINE Bad == {n \in InTree : ~(n >= root /\ (n # root => nodes[n].hero_depth >= 1))}
<1>1. /\ Len(nodes) \in Nat /\ DOMAIN nodes = 1 .. Len(nodes) /\ root \in DOMAIN nodes
      /\ \A n \in DOMAIN nodes : \A c \in Children(n) : c \in DOMAIN nodes /\ c > n
  BY ArenaFacts
<1>2. /\ InTree \subseteq DOMAIN nodes
      /\ \A n \in InTree : n = root \/ \E p \in InTree : n \in Children(p)
  BY InTreeFacts
<1> SUFFICES ASSUME Bad # {} PROVE FALSE
  OBVIOUS
<1>3. Bad \subseteq Nat
  BY <1>1, <1>2
<1>4. PICK n \in Bad : \A m \in Bad : n <= m
  <2>. HIDE DEF Bad
  <2>. QED
    BY <1>3, Least
<1>5. n \in DOMAIN nodes /\ n # root /\ n \in InTree /\ n \in Nat
  BY <1>1, <1>2
<1>6. PICK p \in InTree : n \in Children(p)
  BY <1>2, <1>5
<1>7. p \in DOMAIN nodes /\ p < n /\ p \in Nat
  BY <1>1, <1>2, <1>6
<1>8. p \notin Bad
  BY <1>4, <1>5, <1>7
<1>9. p >= root /\ (p # root => nodes[p].hero_depth >= 1)
  BY <1>8
<1>10. \/ nodes[n].hero_depth = nodes[p].hero_depth + 1
       \/ p # root /\ nodes[p].hero_depth = 0
  BY <1>6, <1>7 DEF DepthInv
<1>11. nodes[p].hero_depth \in Nat
  <2>1. nodes[p].hero_depth \in 0 .. max_depth
    BY <1>7 DEF DepthInv
  <2>. QED
    BY <2>1
<1>12. nodes[n].hero_depth >= 1 /\ n >= root
  BY <1>1, <1>5, <1>7, <1>9, <1>10, <1>11
<1>. QED
  BY <1>12

LEMMA MaxWithNone == \A x \in Int : Max({0, x}) = IF x >= 0 THEN x ELSE 0
<1> SUFFICES ASSUME NEW x \in Int PROVE Max({0, x}) = IF x >= 0 THEN x ELSE 0
  OBVIOUS
<1>. DEFINE r == IF x >= 0 THEN x ELSE 0
<1>1. r \in {0, x} /\ \A y \in {0, x} : r >= y
  OBVIOUS
<1>2. \A z \in {0, x} : (\A y \in {0, x} : z >= y) => z = r
  OBVIOUS
<1>. HIDE DEF r
<1>3. Max({0, x}) = r
  BY <1>1, <1>2 DEF Max
<1>. QED
  BY <1>3 DEF r

\* The tree moves on: nothing is counted anew, and what is left behind is
\* neither counted nor deep any more.
LEMMA PromoteCounts ==
  ASSUME TreeInv, CountedInv, Promote
  PROVE  CountedInv'
<1>1. ArenaInv /\ PathInv /\ FreshInv /\ OnceInv /\ StepsDown(path, nodes) /\ CountInv /\ DepthInv
  BY DEF TreeInv, CountedInv
<1>2. Between /\ path' = path /\ grown' = grown
  BY DEF Promote, Moved
<1>3. path = <<>> /\ Len(path) = 0 /\ ~grown
  BY <1>1, <1>2, AtRestNothingIsOpen DEF Between
<1>4. PICK n \in InTree : n # root /\ promote(n)
  BY DEF Promote
<1>5. n \in DOMAIN nodes /\ n >= root /\ nodes[n].hero_depth >= 1
  BY <1>1, <1>4, InTreeFacts, BelowTheRoot
<1>6. /\ Len(nodes) \in Nat /\ DOMAIN nodes = 1 .. Len(nodes) /\ root \in DOMAIN nodes
      /\ \A m \in DOMAIN nodes : \A c \in Children(m) : c \in DOMAIN nodes /\ c > m
  BY <1>1, ArenaFacts
<1>. DEFINE shift == nodes[n].hero_depth
<1>7. /\ root' = n
      /\ DOMAIN nodes' = DOMAIN nodes
      /\ \A m \in DOMAIN nodes :
           /\ nodes'[m].kind = nodes[m].kind
           /\ nodes'[m].hero_depth = Max({0, nodes[m].hero_depth - shift})
           /\ nodes'[m].children = nodes[m].children
           /\ nodes'[m].visits = nodes[m].visits
  BY <1>1, <1>4, <1>5, PromoteMoves
<1>8. \A m \in DOMAIN nodes : Children(m)' = Children(m)
  BY <1>7 DEF Children
<1>9. OnceInv'
  BY <1>1, <1>7 DEF OnceInv
<1>10. StepsDown(path', nodes')
  BY <1>2, <1>3 DEF StepsDown
<1>11. \A m \in DOMAIN nodes : Total(nodes', m) = Total(nodes, m)
  <2> SUFFICES ASSUME NEW m \in DOMAIN nodes PROVE Total(nodes', m) = Total(nodes, m)
    OBVIOUS
  <2>1. \A c \in DOMAIN nodes : NetIn(nodes', c) = NetIn(nodes, c)
    BY <1>7 DEF NetIn
  <2>2. \A i \in DOMAIN nodes[m].children :
          NetIn(nodes', nodes[m].children[i]) = NetIn(nodes, nodes[m].children[i])
    BY <1>1, <2>1, ChildFacts
  <2>3. nodes'[m].children = nodes[m].children
    BY <1>7
  <2>. QED
    BY <2>2, <2>3, TotalSame
<1>12. \A m : Owed(m)' = 0 /\ Owed(m) = 0
  BY <1>2, <1>3 DEF Owed
<1>13. CountInv'
  <2> SUFFICES ASSUME NEW m \in DOMAIN nodes', m >= root', nodes'[m].kind # "Leaf"
               PROVE  nodes'[m].visits + 0 = Own(m) + Total(nodes', m)
    BY <1>12 DEF CountInv, Own
  <2>1. m \in DOMAIN nodes /\ m >= root /\ nodes[m].kind # "Leaf"
    <3>1. m \in DOMAIN nodes /\ m >= n
      BY <1>7
    <3>2. m >= root
      BY <1>5, <1>6, <3>1
    <3>. QED
      BY <1>7, <3>1, <3>2
  <2>2. nodes[m].visits + 0 = Own(m) + Total(nodes, m)
    BY <1>1, <1>12, <2>1 DEF CountInv
  <2>. QED
    BY <1>7, <1>11, <2>1, <2>2
<1>14. \A m \in DOMAIN nodes : nodes[m].hero_depth \in 0 .. max_depth
  BY <1>1 DEF DepthInv
<1>15. max_depth \in Nat /\ shift \in 1 .. max_depth
  BY <1>5, <1>14, SearchConstants
<1>. HIDE DEF shift
<1>16. \A m \in DOMAIN nodes :
         nodes'[m].hero_depth = IF nodes[m].hero_depth >= shift THEN nodes[m].hero_depth - shift ELSE 0
  <2> SUFFICES ASSUME NEW m \in DOMAIN nodes
               PROVE  nodes'[m].hero_depth
                        = IF nodes[m].hero_depth >= shift THEN nodes[m].hero_depth - shift ELSE 0
    OBVIOUS
  <2>. DEFINE x == nodes[m].hero_depth - shift
  <2>1. x \in Int /\ (x >= 0 <=> nodes[m].hero_depth >= shift)
    BY <1>14, <1>15
  <2>2. nodes'[m].hero_depth = Max({0, x})
    BY <1>7
  <2>. HIDE DEF x
  <2>3. nodes'[m].hero_depth = IF x >= 0 THEN x ELSE 0
    BY <2>1, <2>2, MaxWithNone
  <2>. QED
    BY <2>1, <2>3 DEF x
<1>17. DepthInv'
  <2>1. nodes'[n].hero_depth = 0
    <3>1. nodes[n].hero_depth = shift
      BY DEF shift
    <3>. QED
      BY <1>5, <1>15, <1>16, <3>1
  <2>2. ASSUME NEW m \in DOMAIN nodes
        PROVE  /\ nodes'[m].hero_depth \in 0 .. max_depth
               /\ nodes'[m].kind # "Leaf" => nodes'[m].hero_depth < max_depth
    <3>1. nodes[m].kind # "Leaf" => nodes[m].hero_depth < max_depth
      BY <1>1 DEF DepthInv
    <3>2. nodes[m].hero_depth \in 0 .. max_depth /\ nodes'[m].kind = nodes[m].kind
      BY <1>7, <1>14
    <3>. QED
      BY <1>15, <1>16, <3>1, <3>2
  <2>3. ASSUME NEW m \in DOMAIN nodes, NEW c \in Children(m)
        PROVE  \/ nodes'[c].hero_depth = nodes'[m].hero_depth + 1
               \/ m # n /\ nodes'[m].hero_depth = 0
    <3>1. /\ c \in DOMAIN nodes
          /\ nodes[m].hero_depth \in Nat /\ nodes[c].hero_depth \in Nat
      BY <1>6, <1>14
    <3>2. nodes[n].hero_depth = shift
      BY DEF shift
    <3>3. CASE nodes[c].hero_depth = nodes[m].hero_depth + 1
      <4>1. CASE nodes[m].hero_depth >= shift
        BY <1>15, <1>16, <3>1, <3>3, <4>1
      <4>2. CASE ~(nodes[m].hero_depth >= shift)
        <5>1. m # n
          BY <1>15, <3>2, <4>2
        <5>. QED
          BY <1>16, <4>2, <5>1
      <4>. QED
        BY <4>1, <4>2
    <3>4. CASE nodes[m].hero_depth = 0
      <4>1. m # n /\ ~(nodes[m].hero_depth >= shift)
        BY <1>15, <3>2, <3>4
      <4>. QED
        BY <1>16, <4>1
    <3>. QED
      BY <1>1, <3>3, <3>4 DEF DepthInv
  <2>. QED
    BY <1>7, <1>8, <2>1, <2>2, <2>3 DEF DepthInv
<1>. QED
  BY <1>9, <1>10, <1>13, <1>17 DEF CountedInv

LEMMA NewTreeCounts == IsNewTree => CountedInv
<1> SUFFICES ASSUME IsNewTree PROVE CountedInv
  OBVIOUS
<1>0. PICK stack, k : nodes = <<NewNode("Decision", 0, stack, k)>>
  BY DEF IsNewTree
<1>1. root = 1 /\ path = <<>> /\ grown = FALSE
  BY DEF IsNewTree
<1>. DEFINE node == NewNode("Decision", 0, stack, k)
<1>2. node.children = <<>> /\ node.hero_depth = 0 /\ node.visits = 0 /\ node.kind = "Decision"
  BY NewNodeIs
<1>. HIDE DEF node
<1>3. DOMAIN nodes = {1} /\ nodes[1] = node
  <2>1. nodes = [i \in 1 .. 1 |-> node]
    BY <1>0 DEF node
  <2>. QED
    BY <2>1
<1>4. DOMAIN nodes[1].children = {} /\ nodes[1].children = <<>>
  BY <1>2, <1>3
<1>5. OnceInv
  BY <1>3, <1>4 DEF OnceInv
<1>6. StepsDown(path, nodes)
  <2>1. Len(path) = 0
    BY <1>1, EmptySeq
  <2>. QED
    BY <2>1 DEF StepsDown
<1>7. CountInv
  <2>1. Total(nodes, 1) = 0 /\ Owed(1) = 0 /\ Own(1) = 0
    BY <1>1, <1>4, TotalOfNone DEF Owed, Own
  <2>. QED
    BY <1>2, <1>3, <2>1 DEF CountInv
<1>8. DepthInv
  <2>1. max_depth \in Nat /\ max_depth # 0
    BY SearchConstants
  <2>2. Children(1) = {}
    BY <1>4 DEF Children
  <2>. QED
    BY <1>1, <1>2, <1>3, <2>1, <2>2 DEF DepthInv
<1>. QED
  BY <1>5, <1>6, <1>7, <1>8 DEF CountedInv

\* A sweep begins, or nothing but the phase changes.
LEMMA QuietCounts ==
  ASSUME CountedInv, nodes' = nodes, root' = root, grown' = grown,
         path' = path \/ (path' = <<root>> /\ ~grown)
  PROVE  CountedInv'
<1>1. OnceInv /\ StepsDown(path, nodes) /\ CountInv /\ DepthInv
  BY DEF CountedInv
<1>2. OnceInv' /\ DepthInv'
  BY <1>1 DEF OnceInv, DepthInv, Children
<1>3. StepsDown(path', nodes')
  <2>1. Len(<<root>>) = 1
    OBVIOUS
  <2>2. CASE path' = <<root>>
    <3>1. Len(path') = 1
      BY <2>1, <2>2
    <3>. QED
      BY <3>1 DEF StepsDown
  <2>. QED
    BY <1>1, <2>2
<1>4. \A m : Owed(m)' = Owed(m)
  BY DEF Owed
<1>5. CountInv'
  BY <1>1, <1>4 DEF CountInv, Own
<1>. QED
  BY <1>2, <1>3, <1>5 DEF CountedInv

LEMMA NextKeepsCounts == TreeInv /\ CountedInv /\ [Next]_vars => CountedInv'
<1> SUFFICES ASSUME TreeInv, CountedInv, [Next]_vars PROVE CountedInv'
  OBVIOUS
<1>1. CASE StartSweep
  <2>1. nodes' = nodes /\ root' = root /\ grown' = grown /\ path' = <<root>> /\ Between
    BY <1>1 DEF StartSweep
  <2>2. ~grown
    BY <2>1, AtRestNothingIsOpen DEF TreeInv
  <2>. QED
    BY <2>1, <2>2, QuietCounts
<1>2. CASE Descend
  BY <1>2, DescendCounts
<1>3. CASE ExpandChance
  BY <1>3, ChanceCounts
<1>4. CASE Backprop
  BY <1>4, BackpropCounts
<1>5. CASE FillOne
  <2>1. path = <<>> /\ expand_one_child(root, <<root>>) /\ root' = root
    BY <1>5 DEF FillOne, Between
  <2>2. ~grown
    BY <2>1, AtRestNothingIsOpen DEF TreeInv, Between
  <2>3. GoesOnFrom(<<root>>, root)
    BY <2>1, FirstOfThePath DEF GoesOnFrom, TreeInv
  <2>. QED
    BY <2>1, <2>2, <2>3, ExpandCounts
<1>6. CASE Filled
  BY <1>6, QuietCounts DEF Filled
<1>7. CASE FinishSolve
  BY <1>7, QuietCounts DEF FinishSolve
<1>8. CASE Promote
  BY <1>8, PromoteCounts
<1>9. CASE Rebuild
  <2>1. PICK s \in 1 .. Stack, k \in Candidates : nodes' = <<NewNode("Decision", 0, s, k)>>
    BY <1>9 DEF Rebuild, Tree
  <2>2. root' = 1 /\ phase' # "Rest"
    BY <1>9 DEF Rebuild, Tree, Moved, AfterReshape
  <2>3. path' = <<>> /\ grown' = FALSE /\ fresh' = {}
    <3>1. Between /\ path' = path /\ grown' = grown /\ fresh' = fresh
      BY <1>9 DEF Rebuild, Moved
    <3>2. ~grown /\ grown \in BOOLEAN /\ fresh = {}
      BY <3>1, AtRestNothingIsOpen DEF TreeInv, PathInv
    <3>. QED
      BY <3>1, <3>2 DEF Between
  <2>4. IsNewTree'
    BY <2>1, <2>2, <2>3 DEF IsNewTree
  <2>5. IsNewTree' => CountedInv'
    BY NewTreeCounts, PTL
  <2>. QED
    BY <2>4, <2>5
<1>10. CASE UNCHANGED vars
  BY <1>10, QuietCounts DEF vars
<1>. QED
  BY <1>1, <1>2, <1>3, <1>4, <1>5, <1>6, <1>7, <1>8, <1>9, <1>10 DEF Next

LEMMA TreeAddsUp == TreeInv /\ CountedInv => TheTreeIsConsistent
<1> SUFFICES ASSUME TreeInv, CountedInv PROVE TheTreeIsConsistent
  OBVIOUS
<1>1. ArenaInv /\ PathInv /\ FreshInv /\ CountInv /\ DepthInv
  BY DEF TreeInv, CountedInv
<1>2. Between => ~grown
  BY <1>1, AtRestNothingIsOpen
<1>3. InTree \subseteq DOMAIN nodes /\ \A n \in InTree : n >= root /\ (n # root => nodes[n].hero_depth >= 1)
  BY <1>1, InTreeFacts, BelowTheRoot
<1>4. ASSUME NEW n \in InTree
      PROVE  /\ nodes[n].hero_depth <= max_depth
             /\ \A c \in Children(n) : nodes[c].hero_depth = nodes[n].hero_depth + 1
  <2>1. n \in DOMAIN nodes /\ (n # root => nodes[n].hero_depth >= 1)
    BY <1>3
  <2>2. /\ nodes[n].hero_depth \in 0 .. max_depth
        /\ \A c \in Children(n) :
             \/ nodes[c].hero_depth = nodes[n].hero_depth + 1
             \/ n # root /\ nodes[n].hero_depth = 0
    BY <1>1, <2>1 DEF DepthInv
  <2>3. max_depth \in Nat
    BY SearchConstants
  <2>. QED
    BY <2>1, <2>2, <2>3
<1>5. ASSUME NEW n \in InTree, Between, nodes[n].kind # "Leaf"
      PROVE  nodes[n].visits = (IF n = 1 THEN 0 ELSE 1) + SumFunction(PassedOn(n))
  <2>1. n \in DOMAIN nodes /\ n >= root
    BY <1>3
  <2>2. Owed(n) = 0 /\ nodes[n].visits \in Nat
    BY <1>1, <1>2, <1>5, <2>1, ArenaFacts DEF Owed
  <2>3. nodes[n].visits + 0 = Own(n) + Total(nodes, n)
    BY <1>1, <1>5, <2>1, <2>2 DEF CountInv
  <2>4. PassedOn(n) = PassedIn(nodes, n)
    BY DEF PassedOn, WarmStarts, PassedIn, NetIn
  <2>5. Total(nodes, n) = SumFunction(PassedOn(n))
    BY <2>4, Zenon DEF Total
  <2>6. nodes[n].visits = Own(n) + Total(nodes, n)
    BY <2>2, <2>3
  <2>. QED
    BY <2>5, <2>6 DEF Own
<1>6. nodes[root].hero_depth = 0
  BY <1>1 DEF DepthInv
<1>. QED
  BY <1>4, <1>5, <1>6 DEF TheTreeIsConsistent

\* A solve searches its trees and leaves them alone otherwise.
LEMMA SolveSearches == SolveSpec => Spec
<1>1. SolveInit => Init
  BY DEF SolveInit
<1>2. [SolveNext]_<<vars, solveVars>> => [Next]_vars
  BY DEF SolveNext
<1>. QED
  BY <1>1, <1>2, PTL DEF SolveSpec, Spec

\* The arena is a tree, an iteration goes down through one branch of its root,
\* and every node was played out (tree.rs).
THEOREM TreeInvariance == Spec => []TreeInv
<1>. QED
  BY InitTree, NextKeepsTree, PTL DEF Spec

\* Visits and depths hold at every step: a node counts what its children pass on,
\* but for the playout that is running (tree.rs).
THEOREM CountedInvariance == Spec => []CountedInv
<1>1. Init => CountedInv
  BY NewTreeCounts DEF Init, IsNewTree
<1>. QED
  BY <1>1, NextKeepsCounts, TreeInvariance, PTL DEF Spec

\* At rest every candidate of the decision was tried, no node is left without
\* a playout, and no candidate is ahead of another but by what it had before the
\* sweeps of this root (tree.rs:429-434, 512-514).
THEOREM EveryCandidateIsShared == SolveSpec => []EveryCandidateHasItsShare
<1>. QED
  BY SolveSearches, TreeInvariance, TreeSharesFairly, PTL

\* Every payoff is counted once at every node it went through, and depths count
\* from the decision, through any number of warm starts and promotions
\* (backprop, expand_chance, promote).
THEOREM TheTreeAddsUp == SolveSpec => []TheTreeIsConsistent
<1>. QED
  BY SolveSearches, TreeInvariance, CountedInvariance, TreeAddsUp, PTL

-----------------------------------------------------------------------------
(***************************************************************************)
(* Worlds.                                                                 *)
(***************************************************************************)
\* There are 52 cards, and three seats.
LEMMA CardFacts ==
  /\ IsFiniteSet(Card)
  /\ Seats = {0, 1, 2} /\ Opponents = {1, 2}
  /\ Placeholder \in Card /\ Nothing \in Card \X Card
<1>1. IsFiniteSet(Suit) /\ IsFiniteSet(Rank)
  <2>1. IsFiniteSet(0 .. 3) /\ IsFiniteSet(0 .. 12)
    BY FS_Interval, 0 \in Int, 3 \in Int, 12 \in Int
  <2>. QED
    BY <2>1 DEF Suit, Rank
<1>2. IsFiniteSet(Card)
  BY <1>1, FS_Product DEF Card
<1>3. Placeholder \in Card
  BY DEF Placeholder, Card, Suit, Rank
<1>. QED
  BY <1>2, <1>3 DEF Seats, Opponents, Nothing

\* Two cards more.
LEMMA TwoMore ==
  ASSUME NEW S, IsFiniteSet(S), NEW a, NEW b
  PROVE  /\ Cardinality(S) \in Nat
         /\ IsFiniteSet(S \cup {a, b})
         /\ Cardinality(S \cup {a, b}) \in Nat
         /\ Cardinality(S \cup {a, b}) <= Cardinality(S) + 2
         /\ a # b /\ a \notin S /\ b \notin S =>
              Cardinality(S \cup {a, b}) = Cardinality(S) + 2
<1>1. IsFiniteSet(S \cup {a})
      /\ Cardinality(S \cup {a}) = IF a \in S THEN Cardinality(S) ELSE Cardinality(S) + 1
  BY FS_AddElement
<1>2. (S \cup {a}) \cup {b} = S \cup {a, b}
  OBVIOUS
<1>. DEFINE T == S \cup {a}
<1>3. IsFiniteSet(T \cup {b})
      /\ Cardinality(T \cup {b}) = IF b \in T THEN Cardinality(T) ELSE Cardinality(T) + 1
  <2>. HIDE DEF T
  <2>. QED
    BY <1>1, FS_AddElement DEF T
<1>4. Cardinality(S) \in Nat
  BY FS_CardinalityType
<1>. QED
  BY <1>1, <1>2, <1>3, <1>4

\* A holding is two cards.
LEMMA HoldingFacts ==
  ASSUME NEW h \in Card \X Card
  PROVE  /\ ToSet(h) = {h[1], h[2]} /\ ToSet(h) \subseteq Card
         /\ h \in Holding <=> h[1] # h[2]
<1>1. DOMAIN h = {1, 2}
  OBVIOUS
<1>2. ToSet(h) = {h[1], h[2]}
  BY <1>1 DEF ToSet
<1>. QED
  BY <1>2 DEF Holding

\* The combos of a class are holdings.
LEMMA CombosAreHoldings ==
  ASSUME NEW hand \in Classes
  PROVE  combos_of(hand) \subseteq Holding
<1>. SUFFICES ASSUME NEW c \in combos_of(hand) PROVE c \in Holding
  OBVIOUS
<1>1. PICK st \in Suit \X Suit :
        /\ c = <<<<st[1], hand.high>>, <<st[2], hand.low>>>>
        /\ IF hand.suited THEN st[1] = st[2]
           ELSE IF hand.high = hand.low THEN st[1] < st[2] ELSE st[1] # st[2]
  BY DEF combos_of
<1>2. hand.high \in Rank /\ hand.low \in Rank /\ hand.suited \in BOOLEAN
      /\ (hand.suited => hand.low < hand.high)
  BY DEF Classes
<1>3. hand.suited => hand.low # hand.high
  BY <1>2 DEF Rank
<1>4. st[1] \in Suit /\ st[2] \in Suit /\ (st[1] < st[2] => st[1] # st[2])
  BY DEF Suit
<1>5. <<st[1], hand.high>> \in Card /\ <<st[2], hand.low>> \in Card
  BY <1>2, <1>4 DEF Card
<1>6. <<st[1], hand.high>> # <<st[2], hand.low>>
  BY <1>1, <1>2, <1>3, <1>4
<1>. QED
  BY <1>1, <1>5, <1>6 DEF Holding

\* A range: weights of classes.
IsRange(range) ==
  DOMAIN range \subseteq Classes /\ \A h \in DOMAIN range : range[h] \in Nat

\* What may be drawn is a holding of cards that are not dead.
LEMMA DrawnHolding ==
  ASSUME NEW range, IsRange(range), NEW dead, NEW d \in draw_holding(range, dead)
  PROVE  /\ d.combo \in Holding /\ ToSet(d.combo) \cap dead = {}
         /\ d.prob.num \in Nat \ {0}
<1>. DEFINE live == [h \in DOMAIN range |-> live_combos(h, dead)]
            total == MapThenSumSet(LAMBDA h : range[h] * Cardinality(live[h]), DOMAIN range)
            of(h) == {[combo |-> c, prob |-> [num |-> range[h], den |-> total]] : c \in live[h]}
<1>1. d \in UNION {of(h) : h \in {g \in DOMAIN range : range[g] > 0}}
  BY Zenon DEF draw_holding
<1>. HIDE DEF total
<1>2. PICK h \in DOMAIN range : range[h] > 0 /\ d \in of(h)
  BY <1>1
<1>3. PICK c \in live[h] : d = [combo |-> c, prob |-> [num |-> range[h], den |-> total]]
  BY <1>2
<1>4. c \in combos_of(h) /\ ToSet(c) \cap dead = {}
  BY <1>2, <1>3 DEF live_combos
<1>5. c \in Holding
  BY <1>2, <1>4, CombosAreHoldings DEF IsRange
<1>6. range[h] \in Nat \ {0}
  BY <1>2 DEF IsRange
<1>. QED
  BY <1>3, <1>4, <1>5, <1>6

\* A draw under way: the hands that were fixed before it and those drawn so far
\* share no card with one another or with the board, and their cards are dead.
Fits(d, hands, board, fixed, drawn) ==
  /\ d.holes \in [Seats -> Card \X Card]
  /\ \A s \in Seats \ drawn : d.holes[s] = hands[s]
  /\ d.dead = board \cup UNION {ToSet(d.holes[s]) : s \in fixed \cup drawn}
  /\ d.dead \subseteq Card
  /\ Cardinality(d.dead) = 2 * Cardinality(fixed \cup drawn) + Cardinality(board)
  /\ d.weight.num \in Nat \ {0}

\* A hand drawn from what is live fits beside those before it.
LEMMA DrawFits ==
  ASSUME NEW so_far, NEW range, IsRange(range), NEW hands, NEW board \in SUBSET Card,
         NEW fixed \in SUBSET Seats, NEW drawn \in SUBSET Seats,
         NEW seat \in Seats, seat \notin fixed \cup drawn,
         \A d \in so_far : Fits(d, hands, board, fixed, drawn)
  PROVE  \A e \in Drawn(so_far, seat, range) : Fits(e, hands, board, fixed, drawn \cup {seat})
<1>. SUFFICES ASSUME NEW e \in Drawn(so_far, seat, range)
     PROVE  Fits(e, hands, board, fixed, drawn \cup {seat})
  OBVIOUS
<1>1. PICK d \in so_far : \E new \in draw_holding(range, d.dead) :
        e = [holes |-> [d.holes EXCEPT ![seat] = new.combo],
             dead  |-> d.dead \cup ToSet(new.combo),
             weight |-> Times(d.weight, new.prob)]
  BY DEF Drawn
<1>2. PICK new \in draw_holding(range, d.dead) :
        e = [holes |-> [d.holes EXCEPT ![seat] = new.combo],
             dead  |-> d.dead \cup ToSet(new.combo),
             weight |-> Times(d.weight, new.prob)]
  BY <1>1
<1>. DEFINE combo == new.combo
<1>3. combo \in Holding /\ ToSet(combo) \cap d.dead = {} /\ new.prob.num \in Nat \ {0}
  BY DrawnHolding
<1>4. Fits(d, hands, board, fixed, drawn)
  OBVIOUS
<1>. HIDE DEF combo
<1>5. /\ e.holes = [d.holes EXCEPT ![seat] = combo]
      /\ e.dead = d.dead \cup ToSet(combo)
      /\ e.weight.num = d.weight.num * new.prob.num
  BY <1>2 DEF combo, Times
<1>6. combo \in Card \X Card /\ combo[1] # combo[2] /\ ToSet(combo) = {combo[1], combo[2]}
      /\ ToSet(combo) \subseteq Card
  BY <1>3, HoldingFacts DEF Holding
<1>7. e.holes \in [Seats -> Card \X Card] /\ e.holes[seat] = combo
      /\ \A s \in Seats \ {seat} : e.holes[s] = d.holes[s]
  BY <1>4, <1>5, <1>6 DEF Fits
<1>8. \A s \in Seats \ (drawn \cup {seat}) : e.holes[s] = hands[s]
  BY <1>4, <1>7 DEF Fits
<1>9. e.dead = board \cup UNION {ToSet(e.holes[s]) : s \in fixed \cup (drawn \cup {seat})}
  <2>1. UNION {ToSet(e.holes[s]) : s \in fixed \cup (drawn \cup {seat})}
          = (UNION {ToSet(d.holes[s]) : s \in fixed \cup drawn}) \cup ToSet(combo)
    <3>. DEFINE f(s) == ToSet(e.holes[s])
                g(s) == ToSet(d.holes[s])
    <3>1. \A s \in fixed \cup drawn : f(s) = g(s)
      BY <1>7
    <3>2. f(seat) = ToSet(combo)
      BY <1>7
    <3>. HIDE DEF f, g
    <3>3. {f(s) : s \in fixed \cup (drawn \cup {seat})}
            = {g(s) : s \in fixed \cup drawn} \cup {ToSet(combo)}
      BY <3>1, <3>2
    <3>4. UNION {f(s) : s \in fixed \cup (drawn \cup {seat})}
            = (UNION {g(s) : s \in fixed \cup drawn}) \cup ToSet(combo)
      BY <3>3
    <3>. QED
      BY <3>4 DEF f, g
  <2>. QED
    BY <1>4, <1>5, <2>1 DEF Fits
<1>10. e.dead \subseteq Card
  BY <1>4, <1>5, <1>6 DEF Fits
<1>11. Cardinality(e.dead) = Cardinality(d.dead) + 2
  <2>1. IsFiniteSet(d.dead)
    BY <1>4, CardFacts, FS_Subset DEF Fits
  <2>2. combo[1] \notin d.dead /\ combo[2] \notin d.dead
    BY <1>3, <1>6
  <2>. DEFINE a == combo[1]
              b == combo[2]
  <2>3. a # b /\ a \notin d.dead /\ b \notin d.dead /\ e.dead = d.dead \cup {a, b}
    BY <1>5, <1>6, <2>2
  <2>. HIDE DEF a, b
  <2>4. Cardinality(d.dead \cup {a, b}) = Cardinality(d.dead) + 2
    BY <2>1, <2>3, TwoMore
  <2>. QED
    BY <2>3, <2>4
<1>12. Cardinality(fixed \cup (drawn \cup {seat})) = Cardinality(fixed \cup drawn) + 1
       /\ Cardinality(fixed \cup drawn) \in Nat
  <2>1. IsFiniteSet(Seats)
    <3>1. IsFiniteSet(0 .. 2)
      BY FS_Interval, 0 \in Int, 2 \in Int
    <3>. QED
      BY <3>1 DEF Seats
  <2>2. IsFiniteSet(fixed \cup drawn)
    BY <2>1, FS_Subset
  <2>3. fixed \cup (drawn \cup {seat}) = (fixed \cup drawn) \cup {seat}
    OBVIOUS
  <2>. QED
    BY <2>2, <2>3, FS_AddElement, FS_CardinalityType
<1>13. Cardinality(board) \in Nat
  BY CardFacts, FS_Subset, FS_CardinalityType
<1>14. e.weight.num \in Nat \ {0}
  <2>. DEFINE m == d.weight.num
              n == new.prob.num
  <2>1. m \in Nat \ {0} /\ n \in Nat \ {0}
    BY <1>3, <1>4 DEF Fits
  <2>. HIDE DEF m, n
  <2>2. m * n \in Nat \ {0}
    BY <2>1
  <2>. QED
    BY <1>5, <2>2 DEF m, n
<1>15. Cardinality(e.dead) = 2 * Cardinality(fixed \cup (drawn \cup {seat})) + Cardinality(board)
  BY <1>4, <1>11, <1>12, <1>13 DEF Fits
<1>. QED
  BY <1>7, <1>8, <1>9, <1>10, <1>14, <1>15 DEF Fits

\* A draw that starts from hands that fit ends with hands that fit.
LEMMA DrawsFit ==
  ASSUME NEW ranges, NEW hands, NEW board \in SUBSET Card, NEW dead,
         NEW fixed \in SUBSET Seats, NEW seats \in SUBSET Seats, seats \cap fixed = {},
         \A s \in Seats : IsRange(ranges[s]),
         Fits([holes |-> hands, dead |-> dead, weight |-> One], hands, board, fixed, {})
  PROVE  \A e \in Draws(seats, ranges, hands, dead) : Fits(e, hands, board, fixed, seats)
<1>. DEFINE draw(so_far, seat) ==
              IF seat \in seats THEN Drawn(so_far, seat, ranges[seat]) ELSE so_far
            start == {[holes |-> hands, dead |-> dead, weight |-> One]}
            AllFit(so_far, drawn) == \A d \in so_far : Fits(d, hands, board, fixed, drawn)
<1>1. AllFit(start, {})
  OBVIOUS
<1>2. ASSUME NEW so_far, NEW seat \in Seats, NEW drawn \in SUBSET Seats,
             seat \notin drawn, AllFit(so_far, drawn)
      PROVE  AllFit(draw(so_far, seat), drawn \cup (seats \cap {seat}))
  <2>1. CASE seat \in seats
    <3>1. seats \cap {seat} = {seat} /\ seat \notin fixed \cup drawn
      BY <1>2, <2>1
    <3>2. draw(so_far, seat) = Drawn(so_far, seat, ranges[seat]) /\ IsRange(ranges[seat])
      BY <2>1
    <3>. QED
      BY <1>2, <3>1, <3>2, DrawFits
  <2>2. CASE seat \notin seats
    <3>1. drawn \cup (seats \cap {seat}) = drawn /\ draw(so_far, seat) = so_far
      BY <2>2
    <3>. QED
      BY <1>2, <3>1
  <2>. QED
    BY <2>1, <2>2
<1>. HIDE DEF AllFit
<1>3. Draws(seats, ranges, hands, dead) = draw(draw(draw(start, 0), 1), 2)
  BY DEF Draws
<1>. HIDE DEF draw, start
<1>4. AllFit(draw(start, 0), {} \cup (seats \cap {0}))
  BY <1>1, <1>2, CardFacts
<1>5. AllFit(draw(draw(start, 0), 1), (seats \cap {0}) \cup (seats \cap {1}))
  <2>1. {} \cup (seats \cap {0}) = seats \cap {0}
    OBVIOUS
  <2>2. 1 \notin seats \cap {0} /\ seats \cap {0} \in SUBSET Seats
    BY CardFacts
  <2>. QED
    BY <1>2, <1>4, <2>1, <2>2, CardFacts
<1>6. AllFit(draw(draw(draw(start, 0), 1), 2),
             ((seats \cap {0}) \cup (seats \cap {1})) \cup (seats \cap {2}))
  <2>1. 2 \notin (seats \cap {0}) \cup (seats \cap {1})
        /\ (seats \cap {0}) \cup (seats \cap {1}) \in SUBSET Seats
    BY CardFacts
  <2>. QED
    BY <1>2, <1>5, <2>1, CardFacts
<1>7. ((seats \cap {0}) \cup (seats \cap {1})) \cup (seats \cap {2}) = seats
  BY CardFacts
<1>. QED
  BY <1>3, <1>6, <1>7 DEF AllFit

\* Some holdings beside a board are no more cards than they have places.
LEMMA RoomForPins ==
  ASSUME NEW pins, NEW board \in SUBSET Card, NEW pinned \in SUBSET Seats,
         \A s \in pinned : pins[s] \in Holding
  PROVE  LET dead == board \cup UNION {ToSet(pins[s]) : s \in pinned}
         IN /\ dead \subseteq Card
            /\ Cardinality(dead) \in Nat
            /\ Cardinality(dead) <= 2 * Cardinality(pinned) + Cardinality(board)
<1>. DEFINE Dead(S) == board \cup UNION {ToSet(pins[s]) : s \in S}
            Room(S) == /\ Dead(S) \subseteq Card
                       /\ Cardinality(Dead(S)) \in Nat
                       /\ Cardinality(Dead(S)) <= 2 * Cardinality(S) + Cardinality(board)
<1>1. Cardinality(board) \in Nat
  BY CardFacts, FS_Subset, FS_CardinalityType
<1>2. Room({})
  <2>1. Dead({}) = board
    OBVIOUS
  <2>. QED
    BY <1>1, <2>1, FS_EmptySet
<1>3. ASSUME NEW S \in SUBSET pinned, NEW s \in pinned, s \notin S, Room(S)
      PROVE  Room(S \cup {s})
  <2>. DEFINE a == pins[s][1]
              b == pins[s][2]
  <2>1. ToSet(pins[s]) = {a, b} /\ ToSet(pins[s]) \subseteq Card
    BY HoldingFacts DEF Holding
  <2>2. Dead(S \cup {s}) = Dead(S) \cup {a, b}
    <3>1. {ToSet(pins[t]) : t \in S \cup {s}} = {ToSet(pins[t]) : t \in S} \cup {ToSet(pins[s])}
      OBVIOUS
    <3>. HIDE DEF a, b
    <3>. QED
      BY <2>1, <3>1
  <2>3. IsFiniteSet(Dead(S))
    BY <1>3, CardFacts, FS_Subset
  <2>4. Cardinality(S \cup {s}) = Cardinality(S) + 1 /\ Cardinality(S) \in Nat
    <3>1. IsFiniteSet(0 .. 2)
      BY FS_Interval, 0 \in Int, 2 \in Int
    <3>2. IsFiniteSet(S)
      BY <3>1, FS_Subset DEF Seats
    <3>. QED
      BY <1>3, <3>2, FS_AddElement, FS_CardinalityType
  <2>. HIDE DEF a, b
  <2>5. /\ Cardinality(Dead(S) \cup {a, b}) \in Nat
        /\ Cardinality(Dead(S) \cup {a, b}) <= Cardinality(Dead(S)) + 2
    <3>. HIDE DEF Dead
    <3>. QED
      BY <2>3, TwoMore
  <2>6. Dead(S \cup {s}) \subseteq Card
    BY <1>3, <2>1, <2>2
  <2>. DEFINE k == Cardinality(Dead(S \cup {s}))
              l == Cardinality(Dead(S))
              m == Cardinality(S)
              n == Cardinality(S \cup {s})
              c == Cardinality(board)
  <2>7. k \in Nat /\ k <= l + 2
    BY <2>2, <2>5
  <2>8. l \in Nat /\ l <= 2 * m + c
    BY <1>3
  <2>9. k <= 2 * n + c
    <3>. HIDE DEF k, l, m, n, c
    <3>1. n = m + 1 /\ m \in Nat /\ c \in Nat
      BY <1>1, <2>4 DEF m, n, c
    <3>. QED
      BY <2>7, <2>8, <3>1
  <2>. QED
    BY <2>6, <2>7, <2>9
<1>. HIDE DEF Room
<1>4. ASSUME NEW S \in SUBSET pinned, NEW s \in Seats, s \notin S, Room(S)
      PROVE  Room(S \cup (pinned \cap {s}))
  <2>1. CASE s \in pinned
    <3>1. pinned \cap {s} = {s}
      BY <2>1
    <3>. QED
      BY <1>3, <1>4, <2>1, <3>1
  <2>2. CASE s \notin pinned
    <3>1. S \cup (pinned \cap {s}) = S
      BY <2>2
    <3>. QED
      BY <1>4, <3>1
  <2>. QED
    BY <2>1, <2>2
<1>. DEFINE One1 == {} \cup (pinned \cap {0})
            Two2 == One1 \cup (pinned \cap {1})
            All3 == Two2 \cup (pinned \cap {2})
<1>5. Room(One1)
  BY <1>2, <1>4, CardFacts
<1>6. Room(Two2)
  <2>1. One1 \in SUBSET pinned /\ 1 \notin One1
    OBVIOUS
  <2>. HIDE DEF One1
  <2>. QED
    BY <1>4, <1>5, <2>1, CardFacts
<1>7. Room(All3)
  <2>1. Two2 \in SUBSET pinned /\ 2 \notin Two2
    OBVIOUS
  <2>. HIDE DEF Two2
  <2>. QED
    BY <1>4, <1>6, <2>1, CardFacts
<1>8. All3 = pinned
  BY CardFacts
<1>. QED
  BY <1>7, <1>8 DEF Room

\* Of two players or of three, each either has a hand that is known or draws
\* one, and all of them fit.
LEMMA WorldFits ==
  ASSUME NEW d \in Decisions, NEW e \in DrawsFor(d)
  PROVE  \E hands, fixed : 
           /\ fixed \subseteq Seats \ d.eliminated
           /\ Fits(e, hands, d.board, fixed, Seats \ (d.eliminated \cup fixed))
           /\ \A s \in d.eliminated : hands[s] = Nothing
           /\ IF d.perspective = "hero" THEN 0 \in fixed /\ hands[0] = d.hero
              ELSE \A s \in DOMAIN d.pins \ d.eliminated : s \in fixed /\ hands[s] = d.pins[s]
<1>1. /\ d.board \subseteq Card
      /\ d.eliminated \subseteq Seats
      /\ \A s \in Seats : IsRange(d.ranges[s])
  BY DecisionsAssumption DEF IsRange
<1>2. \A s \in DOMAIN d.pins : s \in Seats /\ d.pins[s] \in Holding
  BY DecisionsAssumption
<1>3. CASE d.perspective = "hero"
  <2>. DEFINE hands == [s \in Seats |-> IF s = 0 THEN d.hero ELSE Nothing]
              dead == ToSet(d.hero) \cup d.board
              seats == Opponents \ d.eliminated
              start == [holes |-> hands, dead |-> dead, weight |-> One]
  <2>1. 0 \notin d.eliminated /\ d.hero \in Holding /\ ToSet(d.hero) \cap d.board = {}
    BY <1>3, DecisionsAssumption
  <2>2. d.hero \in Card \X Card /\ d.hero[1] # d.hero[2]
        /\ ToSet(d.hero) = {d.hero[1], d.hero[2]} /\ ToSet(d.hero) \subseteq Card
    BY <2>1, HoldingFacts DEF Holding
  <2>3. Fits(start, hands, d.board, {0}, {})
    <3>1. hands \in [Seats -> Card \X Card] /\ hands[0] = d.hero
      BY <2>2, CardFacts
    <3>2. {0} \cup {} = {0} /\ {ToSet(hands[s]) : s \in {0}} = {ToSet(d.hero)}
      BY <3>1
    <3>3. dead = d.board \cup UNION {ToSet(hands[s]) : s \in {0} \cup {}}
      BY <3>2
    <3>4. Cardinality(dead) = 2 * Cardinality({0} \cup {}) + Cardinality(d.board)
      <4>. DEFINE a == d.hero[1]
                  b == d.hero[2]
      <4>1. IsFiniteSet(d.board)
        BY <1>1, CardFacts, FS_Subset
      <4>2. dead = d.board \cup {a, b} /\ a # b /\ a \notin d.board /\ b \notin d.board
        BY <2>1, <2>2
      <4>. HIDE DEF a, b, dead
      <4>3. Cardinality(d.board \cup {a, b}) = Cardinality(d.board) + 2
            /\ Cardinality(d.board) \in Nat
        BY <4>1, <4>2, TwoMore
      <4>4. Cardinality({0}) = 1
        BY FS_Singleton
      <4>. QED
        BY <3>2, <4>2, <4>3, <4>4
    <3>5. dead \subseteq Card
      BY <1>1, <2>2
    <3>. HIDE DEF hands, dead
    <3>. QED
      BY <3>1, <3>3, <3>4, <3>5 DEF Fits, One
  <2>4. Draws(seats, d.ranges, hands, dead) = DrawsFor(d)
    BY <1>3 DEF DrawsFor, draw_opponents
  <2>5. seats \cap {0} = {} /\ {0} \subseteq Seats /\ seats \subseteq Seats
        /\ seats = Seats \ (d.eliminated \cup {0})
    BY CardFacts
  <2>6. \A s \in d.eliminated : hands[s] = Nothing
    BY <1>1, <2>1
  <2>7. hands[0] = d.hero
    BY CardFacts
  <2>8. {0} \subseteq Seats \ d.eliminated
    BY <2>1, CardFacts
  <2>. HIDE DEF hands, dead, seats
  <2>9. Fits(e, hands, d.board, {0}, seats)
    BY <1>1, <2>3, <2>4, <2>5, DrawsFit
  <2>. QED
    BY <1>3, <2>5, <2>6, <2>7, <2>8, <2>9
<1>4. CASE d.perspective # "hero"
  <2>. DEFINE pinned == DOMAIN d.pins \ d.eliminated
              hands == [s \in Seats |-> IF s \in pinned THEN d.pins[s] ELSE Nothing]
              dead == d.board \cup UNION {ToSet(d.pins[s]) : s \in pinned}
              seats == Seats \ (d.eliminated \cup pinned)
              start == [holes |-> hands, dead |-> dead, weight |-> One]
  <2>1. /\ Cardinality(dead) >= Cardinality(d.board) + 2 * Cardinality(pinned)
        /\ e \in Draws(seats, d.ranges, hands, dead)
    <3>1. DrawsFor(d) = draw_seats(d.pins, d.board, d.eliminated, d.ranges)
      BY <1>4 DEF DrawsFor
    <3>2. draw_seats(d.pins, d.board, d.eliminated, d.ranges)
            = IF Cardinality(dead) < Cardinality(d.board) + 2 * Cardinality(pinned) THEN {}
              ELSE Draws(seats, d.ranges, hands, dead)
      BY DEF draw_seats
    <3>3. Cardinality(dead) \in Nat /\ Cardinality(d.board) \in Nat /\ Cardinality(pinned) \in Nat
      <4>1. IsFiniteSet(0 .. 2)
        BY FS_Interval, 0 \in Int, 2 \in Int
      <4>2. pinned \in SUBSET (0 .. 2) /\ \A s \in pinned : d.pins[s] \in Holding
        BY <1>2 DEF Seats
      <4>3. IsFiniteSet(pinned)
        <5>. HIDE DEF pinned
        <5>. QED
          BY <4>1, <4>2, FS_Subset
      <4>4. IsFiniteSet(d.board)
        BY <1>1, CardFacts, FS_Subset
      <4>5. Cardinality(dead) \in Nat
        <5>. HIDE DEF pinned
        <5>. QED
          BY <1>1, <4>2, RoomForPins DEF Seats
      <4>. HIDE DEF pinned, dead
      <4>. QED
        BY <4>3, <4>4, <4>5, FS_CardinalityType
    <3>. HIDE DEF dead, pinned, seats, hands
    <3>. QED
      BY <3>1, <3>2, <3>3
  <2>2. pinned \in SUBSET Seats /\ \A s \in pinned : d.pins[s] \in Holding
    BY <1>2
  <2>3. Fits(start, hands, d.board, pinned, {})
    <3>1. hands \in [Seats -> Card \X Card] /\ \A s \in pinned : hands[s] = d.pins[s]
      <4>. HIDE DEF pinned
      <4>. QED
        BY <2>2, CardFacts DEF Holding
    <3>2. {ToSet(hands[s]) : s \in pinned \cup {}} = {ToSet(d.pins[s]) : s \in pinned}
      <4>. HIDE DEF hands, pinned
      <4>. QED
        BY <3>1
    <3>3. dead = d.board \cup UNION {ToSet(hands[s]) : s \in pinned \cup {}}
      <4>. HIDE DEF hands, pinned
      <4>. QED
        BY <3>2
    <3>4. /\ dead \subseteq Card
          /\ Cardinality(dead) \in Nat
          /\ Cardinality(dead) <= 2 * Cardinality(pinned) + Cardinality(d.board)
      <4>. HIDE DEF pinned
      <4>. QED
        BY <1>1, <2>2, RoomForPins
    <3>5. Cardinality(pinned) \in Nat /\ Cardinality(d.board) \in Nat
      <4>1. IsFiniteSet(0 .. 2)
        BY FS_Interval, 0 \in Int, 2 \in Int
      <4>2. IsFiniteSet(pinned)
        <5>. HIDE DEF pinned
        <5>. QED
          BY <2>2, <4>1, FS_Subset DEF Seats
      <4>3. IsFiniteSet(d.board)
        BY <1>1, CardFacts, FS_Subset
      <4>. HIDE DEF pinned
      <4>. QED
        BY <4>2, <4>3, FS_CardinalityType
    <3>6. pinned \cup {} = pinned
      OBVIOUS
    <3>. HIDE DEF hands, dead, pinned
    <3>7. Cardinality(dead) = 2 * Cardinality(pinned \cup {}) + Cardinality(d.board)
      BY <2>1, <3>4, <3>5, <3>6
    <3>. QED
      BY <3>1, <3>3, <3>4, <3>7 DEF Fits, One
  <2>4. \A s \in d.eliminated : hands[s] = Nothing
    BY <1>1
  <2>5. \A s \in DOMAIN d.pins \ d.eliminated : s \in pinned /\ hands[s] = d.pins[s]
    BY <1>2
  <2>6. pinned \subseteq Seats \ d.eliminated /\ seats \cap pinned = {} /\ seats \in SUBSET Seats
    BY <1>2
  <2>. HIDE DEF hands, dead, pinned
  <2>7. Fits(e, hands, d.board, pinned, seats)
    <3>. HIDE DEF seats
    <3>. QED
      BY <1>1, <2>1, <2>2, <2>3, <2>6, DrawsFit
  <2>. QED
    BY <1>4, <2>4, <2>5, <2>6, <2>7
<1>. QED
  BY <1>3, <1>4

\* The worlds are those of the decision that is asked, drawn one by one.
WorldsInv ==
  /\ stage \in {"asked", "sampled"} => decision \in Decisions
  /\ stage # "sampled" => worlds = <<>>
  /\ WorldsAreDealable

\* WorldsAreDealable, of one world.
Dealable(holes, weight, rest, d) ==
  LET playing == Seats \ d.eliminated
      held == UNION {ToSet(holes[s]) : s \in playing}
  IN /\ Cardinality(held \cup d.board) = 2 * Cardinality(playing) + Cardinality(d.board)
     /\ rest = Card \ (held \cup d.board)
     /\ weight.num > 0
     /\ \A s \in d.eliminated : holes[s] = Nothing
     /\ IF d.perspective = "hero" THEN holes[0] = d.hero
        ELSE \A s \in DOMAIN d.pins \ d.eliminated : holes[s] = d.pins[s]

\* A draw of a decision is a world that can be dealt.
LEMMA DealtWorlds ==
  ASSUME NEW d \in Decisions, NEW e \in DrawsFor(d)
  PROVE  Dealable(e.holes, e.weight, runout(e, d.board, d.eliminated), d)
<1>. DEFINE playing == Seats \ d.eliminated
            held == UNION {ToSet(e.holes[s]) : s \in playing}
<1>1. PICK hands, fixed :
        /\ fixed \subseteq Seats \ d.eliminated
        /\ Fits(e, hands, d.board, fixed, Seats \ (d.eliminated \cup fixed))
        /\ \A s \in d.eliminated : hands[s] = Nothing
        /\ IF d.perspective = "hero" THEN 0 \in fixed /\ hands[0] = d.hero
           ELSE \A s \in DOMAIN d.pins \ d.eliminated : s \in fixed /\ hands[s] = d.pins[s]
  BY WorldFits
<1>2. d.eliminated \subseteq Seats /\ fixed \cup (Seats \ (d.eliminated \cup fixed)) = playing
  BY <1>1, DecisionsAssumption
<1>3. /\ e.dead = d.board \cup UNION {ToSet(e.holes[s]) : s \in playing}
      /\ Cardinality(e.dead) = 2 * Cardinality(playing) + Cardinality(d.board)
      /\ e.weight.num \in Nat \ {0}
      /\ \A s \in Seats : s \in d.eliminated \/ s \in fixed => e.holes[s] = hands[s]
  <2>. HIDE DEF playing
  <2>. QED
    BY <1>1, <1>2 DEF Fits
<1>4. e.dead = held \cup d.board
  BY <1>3
<1>5. runout(e, d.board, d.eliminated) = Card \ (held \cup d.board)
  BY DEF runout
<1>6. \A s \in d.eliminated : e.holes[s] = Nothing
  BY <1>1, <1>2, <1>3
<1>7. IF d.perspective = "hero" THEN e.holes[0] = d.hero
      ELSE \A s \in DOMAIN d.pins \ d.eliminated : e.holes[s] = d.pins[s]
  BY <1>1, <1>3
<1>8. e.weight.num > 0
  BY <1>3
<1>9. Cardinality(held \cup d.board) = 2 * Cardinality(playing) + Cardinality(d.board)
  <2>. HIDE DEF playing, held
  <2>. QED
    BY <1>3, <1>4
<1>. QED
  BY <1>5, <1>6, <1>7, <1>8, <1>9 DEF Dealable

\* The worlds sampled are draws of the decision that was asked.
LEMMA SampleStep ==
  ASSUME WorldsInv, Sample
  PROVE  WorldsInv'
<1>. DEFINE world(d) == [holes |-> d.holes, weight |-> d.weight,
                         runout |-> runout(d, decision.board, decision.eliminated)]
            draws == DrawsFor(decision)
<1>1. stage = "asked" /\ decision \in Decisions /\ worlds = <<>> /\ decision' = decision
  BY DEF WorldsInv, Sample
<1>2. \/ stage' = "failed" /\ worlds' = worlds
      \/ stage' = "sampled" /\ \E d, e \in draws : worlds' = <<world(d), world(e)>>
  BY DEF Sample
<1>3. CASE stage' = "failed" /\ worlds' = worlds
  <2>1. ToSet(worlds') = {}
    BY <1>1, <1>3 DEF ToSet
  <2>. QED
    BY <1>1, <1>3, <2>1 DEF WorldsInv, WorldsAreDealable
<1>4. CASE stage' = "sampled" /\ \E d, e \in draws : worlds' = <<world(d), world(e)>>
  <2>1. PICK d, e \in draws : worlds' = <<world(d), world(e)>>
    BY <1>4
  <2>2. ToSet(worlds') = {world(d), world(e)}
    <3>. HIDE DEF world
    <3>. QED
      BY <2>1 DEF ToSet
  <2>3. ASSUME NEW w \in ToSet(worlds')
        PROVE  Dealable(w.holes, w.weight, w.runout, decision)
    <3>1. PICK u \in draws : w = world(u)
      BY <2>2, <2>3
    <3>2. /\ w.holes = u.holes /\ w.weight = u.weight
          /\ w.runout = runout(u, decision.board, decision.eliminated)
      BY <3>1
    <3>. QED
      BY <1>1, <3>2, DealtWorlds
  <2>4. WorldsAreDealable'
    BY <1>1, <2>3 DEF WorldsAreDealable, Dealable
  <2>. QED
    BY <1>1, <1>4, <2>4 DEF WorldsInv
<1>. QED
  BY <1>2, <1>3, <1>4

\* No other step of a solve changes a world or the decision it is of.
LEMMA WorldsStep == WorldsInv /\ [SolveNext]_<<vars, solveVars>> => WorldsInv'
<1>. SUFFICES ASSUME WorldsInv, [SolveNext]_<<vars, solveVars>> PROVE WorldsInv'
  OBVIOUS
<1>1. ASSUME worlds' = <<>>, stage' \notin {"asked", "sampled"} PROVE WorldsInv'
  <2>1. ToSet(worlds') = {}
    BY <1>1 DEF ToSet
  <2>. QED
    BY <1>1, <2>1 DEF WorldsInv, WorldsAreDealable
<1>2. CASE Sample
  BY <1>2, SampleStep
<1>3. CASE SearchWorlds
  <2>1. worlds' = <<>> /\ stage' = "solved"
    BY <1>3 DEF SearchWorlds
  <2>. QED
    BY <1>1, <2>1
<1>4. CASE Judge
  <2>1. stage = "solved" /\ worlds' = worlds /\ stage' \in {"judged", "again"}
    BY <1>4 DEF Judge
  <2>. QED
    BY <1>1, <2>1 DEF WorldsInv
<1>5. CASE UNCHANGED solveVars
  BY <1>5 DEF solveVars, WorldsInv, WorldsAreDealable
<1>. QED
  BY <1>2, <1>3, <1>4, <1>5 DEF SolveNext

\* No world a solve samples holds a card twice or loses one, what is known is
\* kept, and no world is impossible: for every decision, its board, pins and
\* ranges (src/src/mcts/world.rs: draw_opponents, draw_seats).
THEOREM WorldsCanBeDealt == SolveSpec => []WorldsAreDealable
<1>1. SolveInit => WorldsInv
  BY DEF SolveInit, WorldsInv, WorldsAreDealable, ToSet
<1>2. WorldsInv => WorldsAreDealable
  BY DEF WorldsInv
<1>. QED
  BY <1>1, <1>2, WorldsStep, PTL DEF SolveSpec
=============================================================================
