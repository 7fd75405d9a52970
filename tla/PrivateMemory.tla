-------------------------- MODULE PrivateMemory --------------------------
(***************************************************************************)
(* What fork() promises the programs that use it: each environment has     *)
(* memory of its own, which nobody else's writes change, and a child       *)
(* starts with a copy of its parent's, made page by page.  Module Fork     *)
(* implements it with shared pages.                                        *)
(***************************************************************************)
CONSTANTS ENVS, ADDR, Value, NULL

VARIABLES
    image,     \* image[e][va]: what e reads at va, NULL before it has va
    forking    \* the child that e is making, or NULL

Init ==
    /\ image \in [ENVS -> [ADDR -> Value \cup {NULL}]]
    /\ forking = [e \in ENVS |-> NULL]

Made(child) == \E e \in ENVS : forking[e] = child

Write(e, va, v) ==
    /\ ~Made(e) /\ image[e][va] # NULL
    /\ image' = [image EXCEPT ![e][va] = v]
    /\ UNCHANGED forking

Fork(e, child) ==
    /\ forking[e] = NULL /\ ~Made(child)
    /\ \A va \in ADDR : image[child][va] = NULL
    /\ forking' = [forking EXCEPT ![e] = child]
    /\ UNCHANGED image

Copy(e, va) ==
    /\ forking[e] # NULL /\ image[forking[e]][va] = NULL
    /\ image' = [image EXCEPT ![forking[e]][va] = image[e][va]]
    /\ UNCHANGED forking

(* The child runs when it has everything.                                  *)
Start(e) ==
    /\ forking[e] # NULL
    /\ \A va \in ADDR : image[forking[e]][va] # NULL
    /\ forking' = [forking EXCEPT ![e] = NULL]
    /\ UNCHANGED image

Exit(e) ==
    /\ ~Made(e) /\ forking[e] = NULL
    /\ image' = [image EXCEPT ![e] = [va \in ADDR |-> NULL]]
    /\ UNCHANGED forking

Next == \E e \in ENVS :
    \/ \E va \in ADDR : Copy(e, va) \/ \E v \in Value : Write(e, va, v)
    \/ \E child \in ENVS : Fork(e, child)
    \/ Start(e) \/ Exit(e)

Spec == Init /\ [][Next]_<<image, forking>>
=============================================================================
