----------------------------- MODULE WorldSearch -----------------------------
(***************************************************************************)
(* The search tree of one sampled world, src/src/mcts/tree.rs, as a solve  *)
(* builds it once (run) and as the background searcher keeps it from one   *)
(* decision of the hero to the next (promote, src/src/mcts/searcher.rs).   *)
(*                                                                         *)
(* The arena is a sequence of nodes, each of which lists its children, and *)
(* a node that is expanded is appended.  What an action leads to (a leaf,  *)
(* a decision of the hero, a decision of an opponent, how many candidates  *)
(* it has and what the hero has left) is free, as is which branch the      *)
(* policy samples, which one UCB1 prefers, and the stack a playout ends    *)
(* with.  One call works on one tree, so nothing comes between its steps.  *)
(***************************************************************************)
EXTENDS Integers, Sequences, SequencesExt, FiniteSetsExt

CONSTANTS
  max_depth,     \* MctsConfig.max_depth
  Stack,         \* the hero's stack at the first decision
  Finals,        \* the stacks a playout may leave the hero with
  Candidates,    \* bound: how many candidate actions a node may have
  MaxSweeps,     \* bound: sweeps
  MaxReshapes    \* bound: decisions the tree is moved on to

ASSUME SearchConstants ==
  /\ {max_depth, Stack, MaxSweeps, MaxReshapes} \cup Candidates \subseteq Nat \ {0}
  /\ Finals \subseteq Nat /\ Finals # {} /\ Candidates # {}

VARIABLES
  nodes,    \* the arena
  root,     \* the node of the decision being solved
  baseline, \* the stack payoffs are measured from
  rebase,   \* what is added to the means that are reported
  path,     \* the nodes of the running iteration, <<>> between two
  grown,    \* whether the last of them was expanded by it
  fresh,    \* the chance nodes that are still to be expanded
  phase,    \* "Fresh", "Fill" (every candidate of the root) or "Rest"
  sweeps,   \* iterations run
  reshapes  \* decisions the search has been moved on to

vars == <<nodes, root, baseline, rebase, path, grown, fresh, phase, sweeps, reshapes>>

\* A node without children.  Every node but the first tree's root comes from an
\* action.  head, final: history, the visits a child of the root had before its
\* share of the sweeps, and the sum of the stacks its playouts ended with.
NewNode(kind, depth, stack, candidates) ==
  [kind |-> kind, hero_depth |-> depth, stack |-> stack, candidates |-> candidates,
   children |-> <<>>, visits |-> 0, value_sum |-> 0, head |-> 0, final |-> 0]

Between == path = <<>>

Children(n) == {nodes[n].children[i] : i \in DOMAIN nodes[n].children}

Untried(n) == nodes[n].kind = "Decision" /\ Len(nodes[n].children) < nodes[n].candidates

(***************************************************************************)
(* WorldSearch::new: a decision with its candidates and nothing tried.     *)
(***************************************************************************)
Tree(stack) ==
  /\ \E k \in Candidates : nodes' = <<NewNode("Decision", 0, stack, k)>>
  /\ root' = 1
  /\ baseline' = stack
  /\ rebase' = 0

\* A solve sweeps first and fills the root afterwards; the searcher fills it
\* as soon as the tree is built.
Init ==
  /\ \E k \in Candidates : nodes = <<NewNode("Decision", 0, Stack, k)>>
  /\ root = 1
  /\ baseline = Stack
  /\ rebase = 0
  /\ path = <<>>
  /\ grown = FALSE
  /\ fresh = {}
  /\ phase \in {"Fresh", "Fill"}
  /\ sweeps = 0
  /\ reshapes = 0

(***************************************************************************)
(* Expansion.                                                              *)
(***************************************************************************)
\* What an action may lead to at a depth: nothing but a leaf at the horizon.
Kinds(depth) ==
  IF depth >= max_depth THEN {"Leaf"} ELSE {"Leaf", "Decision", "Chance"}

\* The candidates of a new node, which only a decision keeps.
Widths(kind) == IF kind = "Decision" THEN Candidates ELSE {0}

\* Nodes an action may lead to from a node.  The hero may have paid, and with
\* nothing left does not decide again.
Successors(n) ==
  LET depth == nodes[n].hero_depth + 1
      stacks == IF nodes[n].kind = "Chance" THEN {nodes[n].stack}
                ELSE {nodes[n].stack, nodes[n].stack - 1} \ {0}
  IN UNION {{NewNode(kind, depth, s, k) : s \in stacks, k \in Widths(kind)} :
              kind \in Kinds(depth)}

\* expand_one_child: the next untried candidate; the new node ends the path.
expand_one_child(n, below) ==
  /\ Untried(n)
  /\ LET child == Len(nodes) + 1 IN
     \E node \in Successors(n) :
       /\ nodes' = Append([nodes EXCEPT ![n].children = Append(@, child)], node)
       /\ path' = Append(below, child)
       /\ grown' = TRUE
       /\ fresh' = IF node.kind = "Chance" THEN {child} ELSE {}

\* One more playout through a node that ended with the stack f.
Visited(node, f) ==
  [node EXCEPT !.visits = @ + 1, !.value_sum = @ + f - baseline, !.final = @ + f]

\* Mutant: the children are warm-started behind their parent's back.
Warmed_children_only(node, children, finals) == [node EXCEPT !.children = children]

Summed_finals(finals) == FoldSeq(LAMBDA f, v : v + f, 0, finals)

\* What the warm start of its children leaves at a chance node.
Warmed(node, children, finals) ==
  [node EXCEPT !.children = children,
               !.visits = @ + Len(children),
               !.value_sum = @ + Summed_finals(finals) - Len(children) * baseline,
               !.final = @ + Summed_finals(finals)]

\* The recursion finishes with a child before it goes on to the next.
ExpandsBefore(n, m) ==
  \/ nodes[n].hero_depth > nodes[m].hero_depth
  \/ nodes[n].hero_depth = nodes[m].hero_depth /\ n <= m

\* expand_chance: all the children at once, each with a playout; those that
\* are chance nodes are expanded next.
ExpandChance ==
  /\ \E n \in fresh :
       /\ \A m \in fresh : ExpandsBefore(n, m)
       /\ \E k \in Candidates :
          \E made \in [1 .. k -> Successors(n)], finals \in [1 .. k -> Finals] :
            LET children == [i \in 1 .. k |-> Len(nodes) + i] IN
            /\ nodes' = [nodes EXCEPT ![n] = Warmed(@, children, finals)]
                          \o [i \in 1 .. k |-> Visited(made[i], finals[i])]
            /\ fresh' = (fresh \ {n})
                          \cup {children[i] : i \in {j \in 1 .. k : made[j].kind = "Chance"}}
  /\ UNCHANGED <<root, baseline, rebase, path, grown, phase, sweeps, reshapes>>

(***************************************************************************)
(* iterate.                                                                *)
(***************************************************************************)
StartSweep ==
  /\ Between
  /\ phase \in {"Fresh", "Rest"}
  /\ sweeps < MaxSweeps
  /\ sweeps' = sweeps + 1
  /\ path' = <<root>>
  /\ UNCHANGED <<nodes, root, baseline, rebase, grown, fresh, phase, reshapes>>

\* The first child of the fewest visits.
select_least_visited(n) ==
  {c \in Children(n) : \A d \in Children(n) :
     nodes[c].visits < nodes[d].visits \/ (nodes[c].visits = nodes[d].visits /\ c <= d)}

\* Mutant: the root is searched like any other decision.
Selected_ucb(n) == Children(n)

\* The branch taken: any that may be sampled or preferred, but at the root the
\* one that had least attention.
Selected(n) == IF n = root THEN select_least_visited(n) ELSE Children(n)

\* The path grows to a leaf or to a node it expands.
Descend ==
  /\ ~Between
  /\ ~grown
  /\ nodes[Last(path)].kind # "Leaf"
  /\ LET n == Last(path) IN
     \/ expand_one_child(n, path)
     \/ /\ ~Untried(n)
        /\ \E c \in Selected(n) : path' = Append(path, c)
        /\ UNCHANGED <<nodes, grown, fresh>>
  /\ UNCHANGED <<root, baseline, rebase, phase, sweeps, reshapes>>

\* leaf_payoff and backprop: the last node is played out, and every node of
\* the path counts the payoff.
Backprop ==
  /\ ~Between
  /\ fresh = {}
  /\ grown \/ nodes[Last(path)].kind = "Leaf"
  /\ \E f \in Finals :
       nodes' = [n \in DOMAIN nodes |->
         IF n \notin Range(path) THEN nodes[n]
         ELSE IF grown /\ n = Last(path)
         THEN [Visited(nodes[n], f) EXCEPT !.head = nodes[n].visits + 1]
         ELSE Visited(nodes[n], f)]
  /\ path' = <<>>
  /\ grown' = FALSE
  /\ UNCHANGED <<root, baseline, rebase, fresh, phase, sweeps, reshapes>>

(***************************************************************************)
(* fill_unexpanded_root_candidates.                                        *)
(***************************************************************************)
FillOne ==
  /\ Between
  /\ phase = "Fill"
  /\ expand_one_child(root, <<root>>)
  /\ UNCHANGED <<root, baseline, rebase, phase, sweeps, reshapes>>

Filled ==
  /\ Between
  /\ phase = "Fill"
  /\ ~Untried(root)
  /\ phase' = "Rest"
  /\ UNCHANGED <<nodes, root, baseline, rebase, path, grown, fresh, sweeps, reshapes>>

\* run: after its sweeps a solve fills the root.
FinishSolve ==
  /\ Between
  /\ phase = "Fresh"
  /\ sweeps > 0
  /\ phase' = "Fill"
  /\ UNCHANGED <<nodes, root, baseline, rebase, path, grown, fresh, sweeps, reshapes>>

(***************************************************************************)
(* reshape_following: the hero's next decision.                            *)
(***************************************************************************)
\* The nodes some sequence of actions leads to from the root (follow_path).
InTree ==
  LET found[n \in DOMAIN nodes] ==
        n = root \/ \E p \in 1 .. n - 1 : n \in Children(p) /\ found[p]
  IN {n \in DOMAIN nodes : found[n]}

\* Depths count from the new root; nodes left behind stop at 0.
Renumbered(shift) ==
  [n \in DOMAIN nodes |-> [nodes[n] EXCEPT !.hero_depth = Max({0, @ - shift})]]

\* Mutant: the new root is not filled.
AfterReshape_rest == "Rest"

\* Both kinds of tree are filled before the next sweep.
AfterReshape == "Fill"

Moved ==
  /\ Between
  /\ phase = "Rest"
  /\ reshapes < MaxReshapes
  /\ reshapes' = reshapes + 1
  /\ phase' = AfterReshape
  /\ UNCHANGED <<path, grown, fresh, sweeps>>

\* promote: the tree goes on from the node of the decision, with all it has
\* counted there.
promote(n) ==
  /\ nodes' = [m \in DOMAIN nodes |->
       IF m \in Children(n) THEN [Renumbered(nodes[n].hero_depth)[m] EXCEPT !.head = nodes[m].visits]
       ELSE Renumbered(nodes[n].hero_depth)[m]]
  /\ root' = n
  /\ rebase' = rebase + baseline - nodes[n].stack
  /\ baseline' = nodes[n].stack

\* Between two decisions of the hero on a street somebody else acts.
Promote ==
  /\ Moved
  /\ \E n \in InTree \ {root} :
       /\ nodes[n].kind = "Decision"
       /\ \E p \in InTree : nodes[p].kind = "Chance" /\ n \in Children(p)
       /\ promote(n)

\* The path was not expanded or led to another state; or a street was dealt,
\* and the tree is one of a world sampled anew.
Rebuild ==
  /\ Moved
  /\ \E s \in 1 .. Stack : Tree(s)

\* root_values: the mean reported of a child of the root, times its visits.
Reported(c) == nodes[c].value_sum + nodes[c].visits * rebase

Next ==
  \/ StartSweep \/ Descend \/ ExpandChance \/ Backprop
  \/ FillOne \/ Filled \/ FinishSolve
  \/ Promote \/ Rebuild

Spec == Init /\ [][Next]_vars

-----------------------------------------------------------------------------
(***************************************************************************)
(* Properties.                                                             *)
(***************************************************************************)
\* The playouts a node was given by its own expansion, which the nodes above
\* it do not count.
WarmStarts(n) == IF nodes[n].kind = "Chance" THEN Len(nodes[n].children) ELSE 0

\* What each of its children adds to the visits of a node.
PassedOn(n) ==
  [i \in DOMAIN nodes[n].children |->
    LET c == nodes[n].children[i] IN nodes[c].visits - WarmStarts(c)]

\* Every payoff is counted once at every node it went through, whatever was
\* expanded, warm-started or promoted: the visits of a node with branches are its
\* own playout and those of its children, without the warm starts below them.
\* And the horizon moves along: depths count from the root, and nothing is
\* expanded more than max_depth actions away from it.
TheTreeIsConsistent ==
  /\ nodes[root].hero_depth = 0
  /\ \A n \in InTree :
       /\ nodes[n].hero_depth <= max_depth
       /\ \A c \in Children(n) : nodes[c].hero_depth = nodes[n].hero_depth + 1
       /\ Between /\ nodes[n].kind # "Leaf" =>
            nodes[n].visits = (IF n = 1 THEN 0 ELSE 1) + SumFunction(PassedOn(n))

\* What is reported has something behind it: at rest every candidate of the
\* root has been tried, and no node was ever left without a playout
\* (tree.rs:512-514, mod.rs:261-262: worlds that report different actions
\* cannot be combined).
EveryCandidateIsValued ==
  /\ phase = "Rest" => ~Untried(root)
  /\ Between => \A n \in DOMAIN nodes \ {1} : nodes[n].visits > 0

\* No candidate of the root is starved: one is ahead of another by more than a
\* visit only by what it had before it shared the root's sweeps
\* (tree.rs:429-434).
RootIsBalanced ==
  Between => \A c, d \in Children(root) :
    nodes[c].visits <= nodes[c].head \/ nodes[c].visits <= nodes[d].visits + 1

\* tree.rs:96-101, 207-210: what is reported of an action is the mean of the
\* stacks its playouts ended with, less the stack at the root.
ReportedFromOwnStack ==
  Between => \A c \in Children(root) :
    Reported(c) = nodes[c].final - nodes[c].visits * nodes[root].stack

=============================================================================
