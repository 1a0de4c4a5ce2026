------------------------------- MODULE RbTree -------------------------------
(***************************************************************************)
(* The red-black tree of oslib (src/oslib/src/rbtree.c).  A tree is a      *)
(* record of link functions over its nodes; node k has key k, node 0 is    *)
(* the sentinel tree->null, whose colour and parent the code writes too.   *)
(* Left and right are a parameter d, so that each mirrored pair of         *)
(* branches is written once.                                               *)
(***************************************************************************)
EXTENDS Integers, FiniteSets

CONSTANT Keys    \* a set of positive integers: the nodes callers own

null == 0

Nodes == Keys \cup {null}

VARIABLES tree,     \* T_RBTree
          walk      \* an iteration in progress: the node it stands on, or null

vars == <<tree, walk>>

Other(d) == IF d = "left" THEN "right" ELSE "left"

Parent(t, n) == t.parent[n]
IsRed(t, n) == t.color[n] = "red"
Paint(t, n, c) == [t EXCEPT !.color[n] = c]

\* Node up takes the place of node n below n's parent p.
Hang(t, n, up, p) ==
    LET side == IF t.kid[p]["left"] = n THEN "left" ELSE "right"
    IN  [t EXCEPT !.parent[up] = p,
                  !.root = IF p = null THEN up ELSE @,
                  !.kid[p][side] = IF p # null THEN up ELSE @]

\* left_rotate is Rotate(t, n, "left"), right_rotate is Rotate(t, n, "right").
RotateAbout(t, n, d, up, inner) ==
    IF up = null THEN t
    ELSE [Hang([t EXCEPT !.kid[n][Other(d)] = inner,
                         !.parent[inner] = IF inner # null THEN n ELSE @],
               n, up, t.parent[n])
          EXCEPT !.kid[up][d] = n, !.parent[n] = up]

Rotate(t, n, d) == RotateAbout(t, n, d, t.kid[n][Other(d)], t.kid[t.kid[n][Other(d)]][d])

left_rotate(t, n) == Rotate(t, n, "left")
right_rotate(t, n) == Rotate(t, n, "right")

RotateTo(t, n, d) == IF d = "left" THEN left_rotate(t, n) ELSE right_rotate(t, n)

\* One turn of insert_fixup's loop, for a parent p that is the d child of g: [t, n].
UncleRed(t, uncle, p, g) ==
    [t |-> Paint(Paint(Paint(t, uncle, "black"), p, "black"), g, "red"), n |-> g]

\* The outer case: n is the d child of its red parent p, below g.
Outer(t, n, p, g, d) ==
    [t |-> RotateTo(Paint(Paint(t, p, "black"), g, "red"), g, Other(d)), n |-> n]

InsertTurn(t, n, p, g, d) ==
    IF IsRed(t, t.kid[g][Other(d)]) THEN UncleRed(t, t.kid[g][Other(d)], p, g)
    ELSE IF n = t.kid[p][Other(d)] THEN Outer(RotateTo(t, p, d), p, n, g, d)
    ELSE Outer(t, n, p, g, d)

RECURSIVE insert_fixup(_, _)
insert_fixup(t, n) ==
    LET p == Parent(t, n)
        g == Parent(t, p)
        s == InsertTurn(t, n, p, g, IF p = t.kid[g]["left"] THEN "left" ELSE "right")
    IN  IF n = t.root \/ ~IsRed(t, p)
        THEN Paint(t, t.root, "black")
        ELSE insert_fixup(s.t, s.n)

\* One turn of delete_fixup's loop for node n, the d child of p, with sibling sib.
\* A red sibling is rotated away first, ...
RedSibling(t, n, d, p, sib) ==
    IF IsRed(t, sib) THEN RotateTo(Paint(Paint(t, sib, "black"), p, "red"), p, d) ELSE t

\* ... then a sibling whose outer child is black, ...
BlackOuter(t, d, sib) ==
    IF IsRed(t, t.kid[sib][Other(d)]) THEN t
    ELSE RotateTo(Paint(Paint(t, t.kid[sib][d], "black"), sib, "red"), sib, Other(d))

\* ... and p at last, which ends the loop.
RotateParent(t, d, p, sib) ==
    RotateTo(Paint(Paint(Paint(t, sib, t.color[p]), t.kid[sib][Other(d)], "black"), p, "black"), p, d)

AtRoot(t) == [t |-> t, n |-> t.root]

BlackSibling(t, n, d, p, sib) ==
    IF ~IsRed(t, t.kid[sib]["left"]) /\ ~IsRed(t, t.kid[sib]["right"])
    THEN [t |-> Paint(t, sib, "red"), n |-> p]
    ELSE LET o == BlackOuter(t, d, sib)
         IN  AtRoot(RotateParent(o, d, o.parent[n], o.kid[o.parent[n]][Other(d)]))

DeleteTurn(t, n, d) ==
    LET s == RedSibling(t, n, d, t.parent[n], t.kid[t.parent[n]][Other(d)])
    IN  BlackSibling(s, n, d, s.parent[n], s.kid[s.parent[n]][Other(d)])

RECURSIVE delete_fixup(_, _)
delete_fixup(t, n) ==
    LET s == DeleteTurn(t, n, IF t.kid[Parent(t, n)]["left"] = n THEN "left" ELSE "right")
    IN  IF n = t.root \/ IsRed(t, n) THEN Paint(t, n, "black") ELSE delete_fixup(s.t, s.n)

RBTREE_Init ==
    [root |-> null, size |-> 0,
     kid |-> [n \in Nodes |-> [left |-> null, right |-> null]],
     parent |-> [n \in Nodes |-> null],
     color |-> [n \in Nodes |-> "black"]]

\* The end of the chain of d children below n.
RECURSIVE Outermost(_, _, _)
Outermost(t, n, d) == IF t.kid[n][d] = null THEN n ELSE Outermost(t, t.kid[n][d], d)

\* The first ancestor reached from a d child's other side.
RECURSIVE Climb(_, _, _, _)
Climb(t, n, up, d) == IF up # null /\ t.kid[up][d] = n THEN Climb(t, up, t.parent[up], d) ELSE up

RBTREE_First(t) == Outermost(t, t.root, "left")
RBTREE_Last(t) == Outermost(t, t.root, "right")

RBTREE_Next(t, n) ==
    IF t.kid[n]["right"] # null THEN Outermost(t, t.kid[n]["right"], "left")
                                ELSE Climb(t, n, t.parent[n], "right")

RBTREE_Prev(t, n) ==
    IF t.kid[n]["left"] # null THEN Outermost(t, t.kid[n]["left"], "right")
                               ELSE Climb(t, n, t.parent[n], "left")

\* The descent of Insert and Find: the node with key k, else null, and its parent.
RECURSIVE Descend(_, _, _, _)
Descend(t, k, n, p) ==
    IF n = null \/ n = k THEN [node |-> n, parent |-> p]
    ELSE Descend(t, k, t.kid[n][IF k < n THEN "left" ELSE "right"], n)

RBTREE_Find(t, k) == Descend(t, k, t.root, null).node

\* A node whose key is in the tree already is refused (-1).
RBTREE_Insert(t, k) ==
    LET d == Descend(t, k, t.root, null)
        t1 == [t EXCEPT !.color[k] = "red", !.parent[k] = d.parent,
                        !.kid[k] = [left |-> null, right |-> null]]
        t2 == IF d.parent = null
              THEN [t1 EXCEPT !.root = k, !.color[k] = "black"]
              ELSE insert_fixup([t1 EXCEPT !.kid[d.parent][IF k < d.parent THEN "left" ELSE "right"] = k], k)
    IN  IF d.node # null THEN t ELSE [t2 EXCEPT !.size = @ + 1]

\* Mutant: the left subtree keeps its old parent.
ReplaceForgetsLeft(t, n, succ) ==
    LET p == t.parent[n]
        side == IF t.kid[p]["left"] = n THEN "left" ELSE "right"
        r == t.kid[n]["right"]
        t1 == [t EXCEPT !.parent[succ] = p, !.kid[succ] = t.kid[n], !.color[succ] = t.color[n],
                        !.kid[p][side] = IF p # null THEN succ ELSE @,
                        !.root = IF t.root = n THEN succ ELSE @]
    IN  [t1 EXCEPT !.parent[r] = IF r # null THEN succ ELSE @]

\* node n's place is taken by succ, which was unlinked before: every link of n is moved.
Replace(t, n, succ) ==
    LET p == t.parent[n]
        side == IF t.kid[p]["left"] = n THEN "left" ELSE "right"
        l == t.kid[n]["left"]
        r == t.kid[n]["right"]
        t1 == [t EXCEPT !.parent[succ] = p, !.kid[succ] = t.kid[n], !.color[succ] = t.color[n],
                        !.kid[p][side] = IF p # null THEN succ ELSE @,
                        !.root = IF t.root = n THEN succ ELSE @]
        t2 == [t1 EXCEPT !.parent[l] = IF l # null THEN succ ELSE @]
    IN  [t2 EXCEPT !.parent[r] = IF r # null THEN succ ELSE @]

\* The colour tested is succ's after it took n's, and a sentinel child is not fixed up.
\* The links of the erased node, which RBTREE_Insert overwrites before any use, are cleared.
RBTREE_Erase(t, n) ==
    LET succ == IF t.kid[n]["left"] = null \/ t.kid[n]["right"] = null THEN n
                ELSE Outermost(t, t.kid[n]["right"], "left")
        child == IF t.kid[succ]["left"] # null THEN t.kid[succ]["left"] ELSE t.kid[succ]["right"]
        p == t.parent[succ]
        side == IF t.kid[p]["left"] = succ THEN "left" ELSE "right"
        t1 == [t EXCEPT !.parent[child] = p,
                        !.kid[p][side] = IF p # null THEN child ELSE @,
                        !.root = IF p = null THEN child ELSE @]
        t2 == IF succ # n THEN Replace(t1, n, succ) ELSE t1
        t3 == IF child # null THEN delete_fixup(t2, child) ELSE t2
        t4 == IF ~IsRed(t2, succ) THEN Paint(t3, null, "black") ELSE t2
    IN  [t4 EXCEPT !.size = @ - 1, !.parent[n] = null, !.color[n] = "black",
                   !.kid[n] = [left |-> null, right |-> null]]

\* RBTREE_HeightMax; RBTREE_HeightMin calls it for both subtrees and takes the smaller.
RECURSIVE RBTREE_HeightMax(_, _)
RBTREE_HeightMax(t, n) ==
    LET H(d) == IF t.kid[n][d] # null THEN RBTREE_HeightMax(t, t.kid[n][d]) + 1 ELSE 0
    IN  IF H("left") > H("right") THEN H("left") ELSE H("right")

RBTREE_HeightMin(t, n) ==
    LET H(d) == IF t.kid[n][d] # null THEN RBTREE_HeightMax(t, t.kid[n][d]) + 1 ELSE 0
    IN  IF H("left") > H("right") THEN H("right") ELSE H("left")

\* The nodes in the tree: those the root leads to.
RECURSIVE Below(_, _)
Below(t, n) == IF n = null THEN {}
               ELSE {n} \cup Below(t, t.kid[n]["left"]) \cup Below(t, t.kid[n]["right"])

Members(t) == Below(t, t.root)

Init == tree = RBTREE_Init /\ walk = null

Insert(k) == tree' = RBTREE_Insert(tree, k) /\ UNCHANGED walk

\* A caller erases any node; one that erases while walking takes the next node first.
Erase(k) ==
    /\ k \in Members(tree)
    /\ walk' = IF walk = k THEN RBTREE_Next(tree, k) ELSE walk
    /\ tree' = RBTREE_Erase(tree, k)

First == walk = null /\ walk' = RBTREE_First(tree) /\ UNCHANGED tree
Step == walk # null /\ walk' = RBTREE_Next(tree, walk) /\ UNCHANGED tree

Next == First \/ Step \/ \E k \in Keys : Insert(k) \/ Erase(k)

Spec == Init /\ [][Next]_vars

----------------------------------------------------------------------------
(***************************************************************************)
(* After any sequence of insertions and erasures, erasures in the middle   *)
(* of a walk included, every link has its back link, Find finds exactly    *)
(* the nodes of the tree, size counts them, First and Last are the         *)
(* extremes, Next and Prev step to the neighbours in key order, and a walk *)
(* never stands on a node that left the tree.                              *)
(***************************************************************************)
Ordered ==
    LET M == Members(tree)
        above(n) == {m \in M : m > n}
        below(n) == {m \in M : m < n}
        least(S) == IF S = {} THEN null ELSE CHOOSE m \in S : \A o \in S : m <= o
        most(S) == IF S = {} THEN null ELSE CHOOSE m \in S : \A o \in S : m >= o
    IN  /\ tree.size = Cardinality(M)
        /\ \A n \in M : \A d \in {"left", "right"} :
               tree.kid[n][d] # null => tree.parent[tree.kid[n][d]] = n
        /\ \A k \in Keys : RBTREE_Find(tree, k) = IF k \in M THEN k ELSE null
        /\ RBTREE_First(tree) = least(M) /\ RBTREE_Last(tree) = most(M)
        /\ \A n \in M : RBTREE_Next(tree, n) = least(above(n)) /\ RBTREE_Prev(tree, n) = most(below(n))
        /\ walk \in M \cup {null}
        /\ RBTREE_HeightMin(tree, tree.root) <= RBTREE_HeightMax(tree, tree.root)
=============================================================================
