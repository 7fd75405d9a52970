------------------------------ MODULE BinHeap ------------------------------
(***************************************************************************)
(* The binomial heap of assign7 (binheap.cpp, node.cpp) and the menu that   *)
(* works on two of them (main.cpp), pointer by pointer.                     *)
(*                                                                         *)
(* A method is an operator from one memory to the next; a choice of the     *)
(* menu is an action.  A node that delete_max() has returned is leaked      *)
(* after it is printed; here it may be allocated again, and its fields are  *)
(* reset so that garbage makes no difference.  The count num is left out:   *)
(* nothing reads it.                                                        *)
(***************************************************************************)
EXTENDS Integers, SequencesExt, FiniteSetsExt

CONSTANTS
    Node,     \* memory for nodes
    Value,    \* keys
    Amount,   \* what increase_key() is asked to add
    NULL

ASSUME BinHeapAssumption ==
    /\ NULL \notin Node /\ NULL \notin Value
    /\ Value \subseteq Int /\ Amount \subseteq Int

VARIABLES
    root,    \* root[h]: the first node of the root list of heap a or b
    node,    \* contents of the nodes
    option   \* the option chosen last, what it was given and what it printed

vars == <<root, node, option>>

Heap == {"A", "B"}

(* node::node(value), and memory not in use.                               *)
NewNode(v) == [parent |-> NULL, lmc |-> NULL, sibling |-> NULL, data |-> v, degree |-> 0]
Garbage == NewNode(NULL)

(* The data of a node made by node::node().                                *)
SUPER == -1

Init ==
    /\ root = [h \in Heap |-> NULL]
    /\ node = [n \in Node |-> Garbage]
    /\ option = <<>>

(* The local heap object of insert() and delete_max() is "new".            *)
Mem(first) == [root |-> [h \in Heap \cup {"new"} |-> IF h = "new" THEN first ELSE root[h]],
               node |-> node]

-----------------------------------------------------------------------------
(* Walks.                                                                  *)

RECURSIVE List(_, _), Preorder(_, _)

(* n and the siblings after it.                                            *)
List(m, n) == IF n = NULL THEN <<>> ELSE <<n>> \o List(m, m.node[n].sibling)

Position(list, n) == SelectInSeq(list, LAMBDA x : x = n)

(* search() visits a list of trees in this order.                          *)
Preorder(m, n) ==
    IF n = NULL THEN <<>>
    ELSE <<n>> \o Preorder(m, m.node[n].lmc) \o Preorder(m, m.node[n].sibling)

-----------------------------------------------------------------------------
(* binheap::merge() and binheap::meld().                                   *)

(* Mutant (ImplementsBag): drops what is left of the second list.          *)
RECURSIVE Mut_DropRest(_, _, _)
Mut_DropRest(m, a, b) ==
    LET next == m.node[a].sibling IN
    IF b = NULL \/ next = NULL THEN m
    ELSE IF m.node[next].degree <= m.node[b].degree THEN Mut_DropRest(m, next, b)
    ELSE Mut_DropRest([m EXCEPT !.node[b].sibling = next, !.node[a].sibling = b], b, m.node[b].sibling)

(* The loop of merge(): puts the list b into the list from a on, by degree. *)
RECURSIVE Splice(_, _, _)
Splice(m, a, b) ==
    LET next == m.node[a].sibling IN
    IF b = NULL THEN m
    ELSE IF next = NULL THEN [m EXCEPT !.node[a].sibling = b]
    ELSE IF m.node[next].degree <= m.node[b].degree THEN Splice(m, next, b)
    ELSE Splice([m EXCEPT !.node[b].sibling = next, !.node[a].sibling = b], b, m.node[b].sibling)

(* g is left with its nodes when h was empty.                              *)
merge(m, h, g) ==
    LET s == IF m.node[m.root[g]].degree < m.node[m.root[h]].degree
             THEN [m EXCEPT !.root[h] = m.root[g], !.root[g] = m.root[h]]
             ELSE m
    IN  IF m.root[g] = NULL THEN m
        ELSE IF m.root[h] = NULL THEN [m EXCEPT !.root[h] = m.root[g]]
        ELSE [Splice(s, s.root[h], s.root[g]) EXCEPT !.root[g] = NULL]

Link(m, child, p) ==
    [m EXCEPT !.node[child].parent = p, !.node[child].sibling = m.node[p].lmc,
              !.node[p].lmc = child, !.node[p].degree = @ + 1]

(* Mutant (BinomialTrees): links the first two.                            *)
Mut_LinkFirst(m, n) == m.node[n].degree = m.node[m.node[n].sibling].degree

(* Three roots of one degree: the first stays, the next two are linked.    *)
LinkNext(m, n) ==
    LET next == m.node[n].sibling
        third == m.node[next].sibling
    IN  /\ m.node[n].degree = m.node[next].degree
        /\ third # NULL => m.node[third].degree # m.node[n].degree

SetNext(m, h, prev, n) ==
    IF prev = NULL THEN [m EXCEPT !.root[h] = n] ELSE [m EXCEPT !.node[prev].sibling = n]

(* The loop of meld(), at root n after root prev.                          *)
RECURSIVE Consolidate(_, _, _, _)
Consolidate(m, h, prev, n) ==
    LET next == m.node[n].sibling IN
    IF n = NULL \/ next = NULL THEN m
    ELSE IF ~LinkNext(m, n) THEN Consolidate(m, h, n, next)
    ELSE IF m.node[n].data <= m.node[next].data
         THEN Consolidate(Link(SetNext(m, h, prev, next), n, next), h, prev, next)
    ELSE Consolidate(Link([m EXCEPT !.node[n].sibling = m.node[next].sibling], next, n), h, prev, n)

meld(m, h, g) == LET s == merge(m, h, g) IN Consolidate(s, h, NULL, s.root[h])

-----------------------------------------------------------------------------
(* The other methods.                                                      *)

insert(m, h, n, value) == meld([m EXCEPT !.node[n] = NewNode(value)], h, "new")

(* The first of the largest roots.                                         *)
find_max(m, h) ==
    LET roots == List(m, m.root[h])
    IN  SelectInSeq(roots, LAMBDA n : \A i \in DOMAIN roots : m.node[roots[i]].data <= m.node[n].data)

(* Makes the children a list of roots, in the opposite order.              *)
Detach(m, children) ==
    [m EXCEPT !.node = [n \in Node |->
        LET i == Position(children, n) IN
        IF i = 0 THEN @[n]
        ELSE [@[n] EXCEPT !.parent = NULL, !.sibling = IF i = 1 THEN NULL ELSE children[i - 1]]]]

delete_max(m, h) ==
    LET roots == List(m, m.root[h])
        i == find_max(m, h)
        children == List(m, m.node[roots[i]].lmc)
        cut == [SetNext(m, h, IF i = 1 THEN NULL ELSE roots[i - 1], m.node[roots[i]].sibling)
                   EXCEPT !.node[roots[i]].sibling = NULL]
    IN  IF children = <<>> THEN cut
        ELSE meld([Detach(cut, children) EXCEPT !.root["new"] = Last(children)], h, "new")

(* search() from a node above the roots, itself with SUPER as its data.    *)
search(m, h, value) ==
    LET order == Preorder(m, m.root[h])
        i == SelectInSeq(order, LAMBDA n : m.node[n].data = value)
    IN  IF value = SUPER THEN "supernode" ELSE IF i = 0 THEN NULL ELSE order[i]

RECURSIVE Raise(_, _)
Raise(m, n) ==
    LET p == m.node[n].parent
        up == m.node[n].data
    IN  IF p = NULL \/ m.node[p].data >= up THEN m
        ELSE Raise([m EXCEPT !.node[n].data = m.node[p].data, !.node[p].data = up], p)

increase_key(m, h, value, amount) ==
    LET key == search(m, h, value)
    IN  IF amount < 0 \/ key \notin Node THEN m
        ELSE Raise([m EXCEPT !.node[key].data = value + amount], key)

-----------------------------------------------------------------------------
(* The menu.  The runs do not follow it once the heaps share nodes (Apart). *)

Used(m) == UNION {ToSet(Preorder(m, m.root[h])) : h \in Heap}

(* The memory after an option: "new" is gone, and so are the nodes that    *)
(* no heap reaches.                                                        *)
Commit(m) ==
    LET used == Used(m) IN
    /\ root' = [h \in Heap |-> m.root[h]]
    /\ node' = [n \in Node |-> IF n \in used THEN m.node[n] ELSE Garbage]

Insert(h, value) ==
    /\ \E n \in Node \ Used(Mem(NULL)) : Commit(insert(Mem(n), h, n, value))
    /\ option' = <<"insert", h, value>>

DeleteMax(h) ==
    /\ root[h] # NULL
    /\ Commit(delete_max(Mem(NULL), h))
    /\ option' = <<"delete", h, node[List(Mem(NULL), root[h])[find_max(Mem(NULL), h)]].data>>

IncreaseKey(h, value, amount) ==
    /\ root[h] # NULL
    /\ value + amount \in Value
    /\ Commit(increase_key(Mem(NULL), h, value, amount))
    /\ option' = <<"increase", h, value, amount>>

(* Heap b into heap a.                                                     *)
Meld ==
    /\ Commit(meld(Mem(NULL), "A", "B"))
    /\ option' = <<"meld">>

Next ==
    \/ \E h \in Heap, value \in Value :
          \/ Insert(h, value)
          \/ \E amount \in Amount : IncreaseKey(h, value, amount)
    \/ \E h \in Heap : DeleteMax(h)
    \/ Meld

Spec == Init /\ [][Next]_vars

-----------------------------------------------------------------------------
(* Properties.                                                             *)

Nodes(h) == ToSet(Preorder(Mem(NULL), root[h]))
InUse == UNION {Nodes(h) : h \in Heap}
Children(n) == List(Mem(NULL), node[n].lmc)
Degrees(list) == [i \in DOMAIN list |-> node[list[i]].degree]

TypeOK ==
    /\ root \in [Heap -> Node \cup {NULL}]
    /\ node \in [Node -> [parent : Node \cup {NULL}, lmc : Node \cup {NULL}, sibling : Node \cup {NULL},
                          data : Value \cup {NULL}, degree : 0 .. Cardinality(Node)]]
    /\ \A n \in InUse : node[n].data # NULL
    /\ option = <<>> \/ option[1] \in {"insert", "delete", "increase", "meld"}

(* No key is larger than its parent's: what find_max() relies on when it   *)
(* looks at roots only, through every link, deletion and increase.         *)
HeapOrdered ==
    \A n \in InUse : \A c \in ToSet(Children(n)) : node[c].data <= node[n].data

(* The children of a node of degree k are binomial trees of degrees        *)
(* k-1 .. 0 in this order, and roots have increasing degrees: merge() and  *)
(* the reversal in delete_max() keep both lists sorted.                    *)
BinomialTrees ==
    /\ \A n \in InUse : Degrees(Children(n)) = [i \in 1 .. node[n].degree |-> node[n].degree - i]
    /\ \A h \in Heap :
          LET d == Degrees(List(Mem(NULL), root[h])) IN \A i, j \in DOMAIN d : i < j => d[i] < d[j]

(* The two ways to walk the trees agree: a parent is the node that has one *)
(* among its children, and roots have none.                                *)
ParentPointers ==
    /\ \A n \in InUse : \A c \in ToSet(Children(n)) : node[c].parent = n
    /\ \A h \in Heap : \A r \in ToSet(List(Mem(NULL), root[h])) : node[r].parent = NULL

(* The two lists of trees are binomial heaps with consistent links.        *)
WellFormed == HeapOrdered /\ BinomialTrees /\ ParentPointers

(* "Meld Heap A and Heap B" (main.cpp:18) makes one heap of two: no node   *)
(* is in both.                                                             *)
Apart == Nodes("A") \cap Nodes("B") = {}

BagOf(h) == LET nodes == Nodes(h) IN [v \in Value |-> Cardinality({n \in nodes : node[n].data = v})]

Bags == INSTANCE MaxBag WITH
    Reserved <- SUPER, apart <- Apart, bag <- [h \in Heap |-> BagOf(h)]

(* What the user sees is two bags, as long as the heaps share no node:     *)
(* every option does what it was asked, nothing is lost or invented, and   *)
(* every maximum printed is the largest key there is, once.                *)
ImplementsBag == Bags!Spec

AllKeys == INSTANCE MaxBag WITH
    Reserved <- NULL, apart <- Apart, bag <- [h \in Heap |-> BagOf(h)]

(* The same of all keys, that of the node search() starts from included:   *)
(* "enter the value and amount to be increased" (main.cpp:102).            *)
EveryKeyIncreases == AllKeys!Spec
=============================================================================
