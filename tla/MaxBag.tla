------------------------------- MODULE MaxBag -------------------------------
(* What the two heaps of assign7/main.cpp are for: two bags of values, from *)
(* which the largest can be taken.                                          *)
EXTENDS Integers

CONSTANTS
    Value,
    Amount,
    Reserved    \* the value that is never increased

VARIABLES
    bag,       \* bag[h][v]: how often h contains v
    option,    \* the option chosen, what it was given and what it printed
    apart      \* the heaps share nothing

Heap == {"A", "B"}

Init ==
    /\ bag = [h \in Heap |-> [v \in Value |-> 0]]
    /\ option = <<>>
    /\ apart = TRUE

(* Every operation is a relation between the bags b before it and the bags *)
(* c after it (\E in Next lets TLC evaluate them once).                    *)
insert(b, c, h, v) ==
    /\ option' = <<"insert", h, v>>
    /\ c = [b EXCEPT ![h][v] = @ + 1]

delete_max(b, c, h, v) ==
    /\ option' = <<"delete", h, v>>
    /\ b[h][v] > 0 /\ \A w \in Value : b[h][w] > 0 => w <= v
    /\ c = [b EXCEPT ![h][v] = @ - 1]

(* A key that is not there, or that is asked to decrease, stays.           *)
increase_key(b, c, h, v, amount) ==
    /\ option' = <<"increase", h, v, amount>>
    /\ c = IF b[h][v] > 0 /\ v # Reserved /\ amount > 0
           THEN [b EXCEPT ![h][v] = @ - 1, ![h][v + amount] = @ + 1]
           ELSE b

meld(b, c) ==
    /\ option' = <<"meld">>
    /\ c = [h \in Heap |-> [v \in Value |-> IF h = "A" THEN b["A"][v] + b["B"][v] ELSE 0]]

(* Melding into an empty heap leaves two names for one heap: nothing is    *)
(* promised from then on.                                                  *)
share(b) ==
    /\ option' = <<"meld">>
    /\ \A v \in Value : b["A"][v] = 0
    /\ apart' = FALSE

Next ==
    apart = TRUE => \E b \in {bag}, c \in {bag'} :
        \/ share(b)
        \/ /\ apart' = TRUE
           /\ \/ \E h \in Heap, v \in Value : insert(b, c, h, v) \/ delete_max(b, c, h, v)
              \/ \E h \in Heap, v \in Value, amount \in Amount : increase_key(b, c, h, v, amount)
              \/ meld(b, c)

Spec == Init /\ [][Next]_<<bag, option, apart>>
=============================================================================
