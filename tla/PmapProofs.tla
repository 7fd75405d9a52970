----------------------------- MODULE PmapProofs -----------------------------
(***************************************************************************)
(* The page allocator and the address spaces of module Pmap, for every     *)
(* number of pages, environments, processors and table entries.            *)
(*                                                                         *)
(* A handler takes the memory m from one state to the next through several *)
(* calls of pmap.c.  Between two of them a page may be in its hands: taken *)
(* off the free list and not yet referenced.  Sound(m, g, H) is what every *)
(* call keeps, with g the page directories of the environments and H the   *)
(* pages in hand.                                                          *)
(***************************************************************************)
EXTENDS Pmap, FiniteSetTheorems, TLAPS

(* An entry that names a page.                                             *)
PlainEntry == [pg : PAGE, perm : SUBSET DOMAIN WEIGHT]
PlainPte == {NULL} \cup PlainEntry

Memory == [ref : [PAGE -> 0 .. REFMOD - 1], free : Seq(PAGE),
           pd : [PAGE -> [Dir -> PlainPte]], pt : [PAGE -> [Table -> PlainPte]]]

Pgdirs == [ENVS -> PAGE \cup {NULL}]

(* A page has one use: it is the directory of one environment, or one page *)
(* table at one index of one directory, or mapped by programs.             *)
OneUse(m, g) ==
    /\ \A e, f \in ENVS : g[e] # NULL /\ g[e] = g[f] => e = f
    /\ \A e, f \in ENVS, i, k \in Dir :
          Pde(m, g, e, i) # NULL /\ Pde(m, g, f, k) # NULL /\ Pde(m, g, e, i).pg = Pde(m, g, f, k).pg
          => e = f /\ i = k
    /\ \A e, f \in ENVS, i \in Dir : Pde(m, g, e, i) # NULL => g[f] # Pde(m, g, e, i).pg
    /\ \A e, f \in ENVS, va \in VA : Mapping(m, g, e, va) # NULL => g[f] # Mapping(m, g, e, va).pg
    /\ \A e, f \in ENVS, i \in Dir, va \in VA :
          Pde(m, g, e, i) # NULL /\ Mapping(m, g, f, va) # NULL
          => Pde(m, g, e, i).pg # Mapping(m, g, f, va).pg

(* A page that is no directory (no table) reads as an empty one.           *)
Zeroed(m, g) ==
    \A p \in PAGE :
       /\ (\A e \in ENVS : g[e] # p) => m.pd[p] = NoEntries(Dir)
       /\ (\A e \in ENVS, i \in Dir : Pde(m, g, e, i) # NULL => Pde(m, g, e, i).pg # p)
          => m.pt[p] = NoEntries(Table)

Counted(m, g) == \A p \in PAGE : m.ref[p] = References(m, g, p)

OnList(list, p) == \E i \in DOMAIN list : list[i] = p

(* The list has the pages of count 0 that are in nobody's hands, each once. *)
FreeExact(m, H) ==
    /\ \A i, j \in DOMAIN m.free : m.free[i] = m.free[j] => i = j
    /\ \A p \in PAGE : OnList(m.free, p) <=> m.ref[p] = 0 /\ p \notin H

Sound(m, g, H) ==
    /\ m \in Memory /\ g \in Pgdirs
    /\ OneUse(m, g) /\ Zeroed(m, g) /\ Counted(m, g) /\ FreeExact(m, H)

-----------------------------------------------------------------------------
(* Counting.                                                               *)

LEMMA Finite ==
    ASSUME NEW m, NEW g, NEW p
    PROVE  /\ IsFiniteSet(DirRefs(g, p)) /\ Cardinality(DirRefs(g, p)) \in Nat
           /\ IsFiniteSet(TableRefs(m, g, p)) /\ Cardinality(TableRefs(m, g, p)) \in Nat
           /\ IsFiniteSet(UserRefs(m, g, p)) /\ Cardinality(UserRefs(m, g, p)) \in Nat
<1>1. IsFiniteSet(ENVS) /\ IsFiniteSet(Dir) /\ IsFiniteSet(Table)
  BY PmapAssumption, FS_Interval DEF Dir, Table
<1>2. IsFiniteSet(VA)
  BY <1>1, FS_Product DEF VA
<1>3. IsFiniteSet(ENVS \X Dir) /\ IsFiniteSet(ENVS \X VA)
  BY <1>1, <1>2, FS_Product
<1>4. /\ DirRefs(g, p) \in SUBSET ENVS
      /\ TableRefs(m, g, p) \in SUBSET (ENVS \X Dir)
      /\ UserRefs(m, g, p) \in SUBSET (ENVS \X VA)
  BY DEF DirRefs, TableRefs, UserRefs
<1>5. IsFiniteSet(DirRefs(g, p)) /\ IsFiniteSet(TableRefs(m, g, p)) /\ IsFiniteSet(UserRefs(m, g, p))
  BY <1>1, <1>3, <1>4, FS_Subset
<1> QED BY <1>5, FS_CardinalityType

(* A page that nothing points to.                                          *)
LEMMA NoReferences ==
    ASSUME NEW m, NEW g, NEW p
    PROVE  /\ References(m, g, p) \in Nat
           /\ References(m, g, p) = 0 <=>
                /\ \A e \in ENVS : g[e] # p
                /\ \A e \in ENVS, i \in Dir : Pde(m, g, e, i) # NULL => Pde(m, g, e, i).pg # p
                /\ \A e \in ENVS, va \in VA : Mapping(m, g, e, va) # NULL => Mapping(m, g, e, va).pg # p
<1>1. References(m, g, p) \in Nat
  BY Finite DEF References
<1>2. References(m, g, p) = 0 <=> /\ Cardinality(DirRefs(g, p)) = 0
                                  /\ Cardinality(TableRefs(m, g, p)) = 0
                                  /\ Cardinality(UserRefs(m, g, p)) = 0
  BY Finite DEF References
<1>3. References(m, g, p) = 0 <=> DirRefs(g, p) = {} /\ TableRefs(m, g, p) = {} /\ UserRefs(m, g, p) = {}
  BY <1>2, Finite, FS_EmptySet
<1>4. DirRefs(g, p) = {} <=> \A e \in ENVS : g[e] # p
  BY DEF DirRefs
<1>5. TableRefs(m, g, p) = {} <=>
      \A e \in ENVS, i \in Dir : Pde(m, g, e, i) # NULL => Pde(m, g, e, i).pg # p
  <2>1. ASSUME NEW e \in ENVS, NEW i \in Dir
        PROVE  <<e, i>> \in TableRefs(m, g, p) <=> Pde(m, g, e, i) # NULL /\ Pde(m, g, e, i).pg = p
    BY DEF TableRefs
  <2>2. \A x \in TableRefs(m, g, p) : \E e \in ENVS, i \in Dir : x = <<e, i>>
    BY DEF TableRefs
  <2> QED BY <2>1, <2>2
<1>6. UserRefs(m, g, p) = {} <=>
      \A e \in ENVS, va \in VA : Mapping(m, g, e, va) # NULL => Mapping(m, g, e, va).pg # p
  <2>1. ASSUME NEW e \in ENVS, NEW va \in VA
        PROVE  <<e, va>> \in UserRefs(m, g, p) <=> Mapping(m, g, e, va) # NULL /\ Mapping(m, g, e, va).pg = p
    BY DEF UserRefs
  <2>2. \A x \in UserRefs(m, g, p) : \E e \in ENVS, va \in VA : x = <<e, va>>
    BY DEF UserRefs
  <2> QED BY <2>1, <2>2
<1> QED BY <1>1, <1>3, <1>4, <1>5, <1>6

-----------------------------------------------------------------------------
(* The free list.                                                          *)

LEMMA ListPush ==
    ASSUME NEW list \in Seq(PAGE), NEW p \in PAGE, ~OnList(list, p),
           \A i, j \in DOMAIN list : list[i] = list[j] => i = j
    PROVE  LET new == <<p>> \o list IN
           /\ new \in Seq(PAGE)
           /\ \A i, j \in DOMAIN new : new[i] = new[j] => i = j
           /\ \A q \in PAGE : OnList(new, q) <=> q = p \/ OnList(list, q)
<1> DEFINE new == <<p>> \o list
<1>1. /\ new \in Seq(PAGE) /\ Len(new) = Len(list) + 1 /\ Len(list) \in Nat
      /\ new[1] = p /\ \A i \in 2 .. Len(list) + 1 : new[i] = list[i - 1]
      /\ DOMAIN list = 1 .. Len(list) /\ DOMAIN new = 1 .. Len(list) + 1
  OBVIOUS
<1> HIDE DEF new
<1>2. \A i \in DOMAIN list : list[i] # p
  BY DEF OnList
<1>3. ASSUME NEW i \in DOMAIN new, NEW j \in DOMAIN new, new[i] = new[j] PROVE i = j
  <2>1. i \in Int /\ j \in Int /\ (i = 1 \/ i - 1 \in DOMAIN list) /\ (j = 1 \/ j - 1 \in DOMAIN list)
    BY <1>1
  <2>2. (i # 1 => new[i] = list[i - 1]) /\ (j # 1 => new[j] = list[j - 1])
    BY <1>1
  <2>3. i # 1 /\ j # 1 => i - 1 = j - 1
    BY <1>3, <2>1, <2>2
  <2> QED BY <1>1, <1>2, <1>3, <2>1, <2>2, <2>3
<1>4. ASSUME NEW q \in PAGE PROVE OnList(new, q) <=> q = p \/ OnList(list, q)
  <2>1. ASSUME NEW i \in DOMAIN list, list[i] = q PROVE i + 1 \in DOMAIN new /\ new[i + 1] = q
    BY <1>1, <2>1
  <2>2. ASSUME NEW i \in DOMAIN new, new[i] = q, i # 1 PROVE i - 1 \in DOMAIN list /\ list[i - 1] = q
    BY <1>1, <2>2
  <2>3. 1 \in DOMAIN new /\ new[1] = p
    BY <1>1
  <2> QED BY <2>1, <2>2, <2>3 DEF OnList
<1> QED BY <1>1, <1>3, <1>4 DEF new

LEMMA ListTail ==
    ASSUME NEW list \in Seq(PAGE), list # <<>>,
           \A i, j \in DOMAIN list : list[i] = list[j] => i = j
    PROVE  LET new == Tail(list) p == Head(list) IN
           /\ new \in Seq(PAGE) /\ p \in PAGE /\ OnList(list, p)
           /\ \A i, j \in DOMAIN new : new[i] = new[j] => i = j
           /\ \A q \in PAGE : OnList(new, q) <=> q # p /\ OnList(list, q)
<1> DEFINE new == Tail(list)
           p == Head(list)
<1>1. /\ new \in Seq(PAGE) /\ p = list[1] /\ p \in PAGE /\ Len(list) \in Nat \ {0}
      /\ \A i \in 1 .. Len(list) - 1 : new[i] = list[i + 1]
      /\ DOMAIN list = 1 .. Len(list) /\ DOMAIN new = 1 .. Len(list) - 1
  OBVIOUS
<1> HIDE DEF new, p
<1>2. OnList(list, p)
  BY <1>1 DEF OnList
<1>3. ASSUME NEW i \in DOMAIN new, NEW j \in DOMAIN new, new[i] = new[j] PROVE i = j
  <2>1. i \in Int /\ j \in Int /\ i + 1 \in DOMAIN list /\ j + 1 \in DOMAIN list
    BY <1>1
  <2>2. list[i + 1] = list[j + 1]
    BY <1>1, <1>3
  <2>3. i + 1 = j + 1
    BY <2>1, <2>2
  <2> QED BY <2>1, <2>3
<1>4. ASSUME NEW q \in PAGE PROVE OnList(new, q) <=> q # p /\ OnList(list, q)
  <2>1. ASSUME NEW i \in DOMAIN list, list[i] = q, q # p PROVE i - 1 \in DOMAIN new /\ new[i - 1] = q
    BY <1>1, <2>1
  <2>2. ASSUME NEW i \in DOMAIN new, new[i] = q PROVE i + 1 \in DOMAIN list /\ list[i + 1] = q /\ q # p
    BY <1>1, <2>2
  <2> QED BY <2>1, <2>2 DEF OnList
<1> QED BY <1>1, <1>2, <1>3, <1>4 DEF new, p

LEMMA ListUnlink ==
    ASSUME NEW list \in Seq(PAGE), NEW p \in PAGE,
           \A i, j \in DOMAIN list : list[i] = list[j] => i = j
    PROVE  LET new == Unlink(list, p) IN
           /\ new \in Seq(PAGE)
           /\ \A i, j \in DOMAIN new : new[i] = new[j] => i = j
           /\ \A q \in PAGE : OnList(new, q) <=> q # p /\ OnList(list, q)
           /\ ~OnList(list, p) => new = list
<1>1. p \in ToSet(list) <=> OnList(list, p)
  BY DEF ToSet, OnList
<1>2. CASE ~OnList(list, p)
  <2>1. Unlink(list, p) = list
    BY <1>1, <1>2 DEF Unlink
  <2>2. \A q \in PAGE : OnList(list, q) => q # p
    BY <1>2
  <2> QED BY <2>1, <2>2
<1>3. CASE OnList(list, p)
  <2> DEFINE k == CHOOSE i \in DOMAIN list : list[i] = p
             new == [i \in 1 .. Len(list) - 1 |-> IF i < k THEN list[i] ELSE list[i + 1]]
  <2>1. k \in DOMAIN list /\ list[k] = p
    BY <1>3 DEF OnList
  <2>2. Unlink(list, p) = new
    BY <1>1, <1>3 DEF Unlink
  <2> HIDE DEF k
  <2>3. DOMAIN list = 1 .. Len(list) /\ Len(list) \in Nat /\ \A i \in DOMAIN list : list[i] \in PAGE
    OBVIOUS
  <2>4. new \in Seq(PAGE) /\ DOMAIN new = 1 .. Len(list) - 1
    <3>1. Len(list) - 1 \in Nat /\ new \in [1 .. Len(list) - 1 -> PAGE]
      BY <2>1, <2>3
    <3> QED BY <3>1
  <2>5. \A i \in DOMAIN new : new[i] = IF i < k THEN list[i] ELSE list[i + 1]
    BY <2>4
  <2> HIDE DEF new
  <2>6. \A i, j \in DOMAIN new : new[i] = new[j] => i = j
    <3> SUFFICES ASSUME NEW i \in DOMAIN new, NEW j \in DOMAIN new, new[i] = new[j] PROVE i = j
      OBVIOUS
    <3> DEFINE s(x) == IF x < k THEN x ELSE x + 1
    <3>1. s(i) \in DOMAIN list /\ s(j) \in DOMAIN list /\ list[s(i)] = list[s(j)]
      BY <2>1, <2>3, <2>4, <2>5
    <3>2. s(i) = s(j)
      BY <3>1
    <3> QED BY <2>1, <2>3, <2>4, <3>2
  <2>7. ASSUME NEW q \in PAGE PROVE OnList(new, q) <=> q # p /\ OnList(list, q)
    <3>1. ASSUME NEW i \in DOMAIN new, new[i] = q PROVE q # p /\ OnList(list, q)
      <4> DEFINE x == IF i < k THEN i ELSE i + 1
      <4>1. x \in DOMAIN list /\ list[x] = q /\ x # k
        BY <2>1, <2>3, <2>4, <2>5, <3>1
      <4> QED BY <2>1, <4>1 DEF OnList
    <3>2. ASSUME NEW i \in DOMAIN list, list[i] = q, q # p PROVE OnList(new, q)
      <4> DEFINE x == IF i < k THEN i ELSE i - 1
      <4>1. i # k
        BY <2>1, <3>2
      <4>2. x \in DOMAIN new /\ new[x] = list[i]
        BY <2>1, <2>3, <2>4, <2>5, <4>1
      <4> QED BY <3>2, <4>2 DEF OnList
    <3> QED BY <3>1, <3>2 DEF OnList
  <2> QED BY <1>3, <2>2, <2>4, <2>6, <2>7
<1> QED BY <1>2, <1>3
-----------------------------------------------------------------------------
(* Giving up a reference: page_decref() of a page that has one.            *)

LEMMA Decref ==
    ASSUME NEW m \in Memory, NEW H, NEW q \in PAGE, m.ref[q] # 0, q \notin H, FreeExact(m, H)
    PROVE  LET n == page_decref(m, q) IN
           /\ n \in Memory /\ FreeExact(n, H) /\ n.pd = m.pd /\ n.pt = m.pt
           /\ n.ref[q] = m.ref[q] - 1 /\ \A p \in PAGE \ {q} : n.ref[p] = m.ref[p]
<1> DEFINE m1 == [m EXCEPT !.ref[q] = Decr(@)]
<1>1. /\ m.ref \in [PAGE -> 0 .. REFMOD - 1] /\ m.free \in Seq(PAGE)
      /\ m.pd \in [PAGE -> [Dir -> PlainPte]] /\ m.pt \in [PAGE -> [Table -> PlainPte]]
      /\ REFMOD \in Nat \ {0, 1}
  BY PmapAssumption DEF Memory
<1>2. /\ m1.ref = [m.ref EXCEPT ![q] = m.ref[q] - 1]
      /\ m1.free = m.free /\ m1.pd = m.pd /\ m1.pt = m.pt
  BY DEF Decr, Memory
<1>3. m1 \in Memory
  <2>1. m.ref[q] - 1 \in 0 .. REFMOD - 1
    BY <1>1
  <2>2. m1.ref \in [PAGE -> 0 .. REFMOD - 1]
    BY <1>1, <1>2, <2>1
  <2> QED BY <1>1, <1>2, <2>2 DEF Memory
<1>4. /\ m1.ref[q] = m.ref[q] - 1 /\ \A p \in PAGE \ {q} : m1.ref[p] = m.ref[p]
  BY <1>1, <1>2
<1> HIDE DEF m1
<1>5. ~OnList(m.free, q)
  BY DEF FreeExact
<1>6. CASE m1.ref[q] = 0
  <2> DEFINE n == page_free(m1, q)
  <2>1. page_decref(m, q) = n
    BY <1>6 DEF page_decref, m1
  <2>2. n.free = <<q>> \o m.free /\ n.ref = m1.ref /\ n.pd = m.pd /\ n.pt = m.pt
    BY <1>2, <1>3 DEF page_free, Memory
  <2>3. /\ <<q>> \o m.free \in Seq(PAGE)
        /\ \A i, j \in DOMAIN (<<q>> \o m.free) : (<<q>> \o m.free)[i] = (<<q>> \o m.free)[j] => i = j
        /\ \A p \in PAGE : OnList(<<q>> \o m.free, p) <=> p = q \/ OnList(m.free, p)
    BY <1>1, <1>5, ListPush DEF FreeExact
  <2>4. n \in Memory
    BY <1>3, <2>2, <2>3 DEF page_free, Memory
  <2> HIDE DEF n
  <2>5. FreeExact(n, H)
    BY <1>4, <1>6, <2>2, <2>3 DEF FreeExact
  <2> QED BY <1>4, <2>1, <2>2, <2>4, <2>5
<1>7. CASE m1.ref[q] # 0
  <2>1. page_decref(m, q) = m1
    BY <1>7 DEF page_decref, m1
  <2>2. FreeExact(m1, H)
    BY <1>2, <1>4, <1>5, <1>7 DEF FreeExact
  <2> QED BY <1>2, <1>3, <1>4, <2>1, <2>2
<1> QED BY <1>6, <1>7
-----------------------------------------------------------------------------
(* What one changed pointer does to the counts.                            *)

Points(pte, p) == pte # NULL /\ pte.pg = p
Heads(g, e, p) == g[e] = p
One(b) == IF b THEN 1 ELSE 0

LEMMA CountChange ==
    ASSUME NEW S, IsFiniteSet(S), NEW T, IsFiniteSet(T), NEW x, S \ {x} = T \ {x}
    PROVE  Cardinality(T) = Cardinality(S) - One(x \in S) + One(x \in T)
<1>1. /\ Cardinality(S \ {x}) = IF x \in S THEN Cardinality(S) - 1 ELSE Cardinality(S)
      /\ Cardinality(T \ {x}) = IF x \in T THEN Cardinality(T) - 1 ELSE Cardinality(T)
      /\ Cardinality(S) \in Nat /\ Cardinality(T) \in Nat
  BY FS_RemoveElement, FS_CardinalityType
<1> QED BY <1>1 DEF One

SameDirs(g, h)        == \A e \in ENVS : h[e] = g[e]
SameTables(m, g, n, h) == \A e \in ENVS, i \in Dir : Pde(n, h, e, i) = Pde(m, g, e, i)
SameMaps(m, g, n, h)  == \A e \in ENVS, va \in VA : Mapping(n, h, e, va) = Mapping(m, g, e, va)

(* All mappings but the one at va of e are the same.                       *)
OtherMaps(m, g, n, h, e, va) ==
    \A f \in ENVS, wa \in VA : f # e \/ wa # va => Mapping(n, h, f, wa) = Mapping(m, g, f, wa)

LEMMA SameSets ==
    ASSUME NEW m, NEW g, NEW n, NEW h, NEW p
    PROVE  /\ SameDirs(g, h) => DirRefs(h, p) = DirRefs(g, p)
           /\ SameTables(m, g, n, h) => TableRefs(n, h, p) = TableRefs(m, g, p)
           /\ SameMaps(m, g, n, h) => UserRefs(n, h, p) = UserRefs(m, g, p)
<1>1. SameDirs(g, h) => DirRefs(h, p) = DirRefs(g, p)
  BY DEF SameDirs, DirRefs
<1>2. ASSUME SameTables(m, g, n, h) PROVE TableRefs(n, h, p) = TableRefs(m, g, p)
  <2>1. \A x \in ENVS \X Dir : Pde(n, h, x[1], x[2]) = Pde(m, g, x[1], x[2])
    BY <1>2 DEF SameTables
  <2> QED BY <2>1 DEF TableRefs
<1>3. ASSUME SameMaps(m, g, n, h) PROVE UserRefs(n, h, p) = UserRefs(m, g, p)
  <2>1. \A x \in ENVS \X VA : Mapping(n, h, x[1], x[2]) = Mapping(m, g, x[1], x[2])
    BY <1>3 DEF SameMaps
  <2> QED BY <2>1 DEF UserRefs
<1> QED BY <1>1, <1>2, <1>3

LEMMA SameCounts ==
    ASSUME NEW m, NEW g, NEW n, NEW h, NEW p,
           SameDirs(g, h), SameTables(m, g, n, h), SameMaps(m, g, n, h)
    PROVE  References(n, h, p) = References(m, g, p)
BY SameSets DEF References

(* Only the entry at va of environment e differs.                          *)
LEMMA MapCounts ==
    ASSUME NEW m, NEW g, NEW n, NEW h, NEW p, NEW e \in ENVS, NEW va \in VA,
           SameDirs(g, h), SameTables(m, g, n, h),
           OtherMaps(m, g, n, h, e, va)
    PROVE  References(n, h, p) = References(m, g, p) - One(Points(Mapping(m, g, e, va), p))
                                                     + One(Points(Mapping(n, h, e, va), p))
<1> DEFINE x == <<e, va>>
           S == UserRefs(m, g, p)
           T == UserRefs(n, h, p)
<1>1. x[1] = e /\ x[2] = va /\ x \in ENVS \X VA
  OBVIOUS
<1>2. (x \in S <=> Points(Mapping(m, g, e, va), p)) /\ (x \in T <=> Points(Mapping(n, h, e, va), p))
  BY <1>1 DEF UserRefs, Points
<1>3. S \ {x} = T \ {x}
  <2>1. ASSUME NEW y \in ENVS \X VA, y # x PROVE Mapping(n, h, y[1], y[2]) = Mapping(m, g, y[1], y[2])
    <3>1. y[1] \in ENVS /\ y[2] \in VA /\ (y[1] # e \/ y[2] # va)
      BY <2>1
    <3> QED BY <3>1 DEF OtherMaps
  <2> QED BY <2>1 DEF UserRefs
<1>4. /\ IsFiniteSet(S) /\ IsFiniteSet(T) /\ Cardinality(S) \in Nat /\ Cardinality(T) \in Nat
      /\ Cardinality(DirRefs(g, p)) \in Nat /\ Cardinality(TableRefs(m, g, p)) \in Nat
      /\ DirRefs(h, p) = DirRefs(g, p) /\ TableRefs(n, h, p) = TableRefs(m, g, p)
  BY Finite, SameSets
<1> HIDE DEF x, S, T
<1>5. Cardinality(T) = Cardinality(S) - One(x \in S) + One(x \in T)
  BY <1>3, <1>4, CountChange
<1>6. One(x \in S) \in Int /\ One(x \in T) \in Int
  BY DEF One
<1> QED BY <1>2, <1>4, <1>5, <1>6 DEF References, S, T, One

(* Only entry i of the directory of environment e differs.                 *)
LEMMA TableCounts ==
    ASSUME NEW m, NEW g, NEW n, NEW h, NEW p, NEW e \in ENVS, NEW i \in Dir,
           SameDirs(g, h), SameMaps(m, g, n, h),
           \A f \in ENVS, k \in Dir : f # e \/ k # i => Pde(n, h, f, k) = Pde(m, g, f, k)
    PROVE  References(n, h, p) = References(m, g, p) - One(Points(Pde(m, g, e, i), p))
                                                     + One(Points(Pde(n, h, e, i), p))
<1> DEFINE x == <<e, i>>
           S == TableRefs(m, g, p)
           T == TableRefs(n, h, p)
<1>1. x[1] = e /\ x[2] = i /\ x \in ENVS \X Dir
  OBVIOUS
<1>2. (x \in S <=> Points(Pde(m, g, e, i), p)) /\ (x \in T <=> Points(Pde(n, h, e, i), p))
  BY <1>1 DEF TableRefs, Points
<1>3. S \ {x} = T \ {x}
  <2>1. ASSUME NEW y \in ENVS \X Dir, y # x PROVE Pde(n, h, y[1], y[2]) = Pde(m, g, y[1], y[2])
    <3>1. y[1] \in ENVS /\ y[2] \in Dir /\ (y[1] # e \/ y[2] # i)
      BY <2>1
    <3> QED BY <3>1
  <2> QED BY <2>1 DEF TableRefs
<1>4. /\ IsFiniteSet(S) /\ IsFiniteSet(T) /\ Cardinality(S) \in Nat /\ Cardinality(T) \in Nat
      /\ Cardinality(DirRefs(g, p)) \in Nat /\ Cardinality(UserRefs(m, g, p)) \in Nat
      /\ DirRefs(h, p) = DirRefs(g, p) /\ UserRefs(n, h, p) = UserRefs(m, g, p)
  BY Finite, SameSets
<1> HIDE DEF x, S, T
<1>5. Cardinality(T) = Cardinality(S) - One(x \in S) + One(x \in T)
  BY <1>3, <1>4, CountChange
<1>6. One(x \in S) \in Int /\ One(x \in T) \in Int
  BY DEF One
<1> QED BY <1>2, <1>4, <1>5, <1>6 DEF References, S, T, One

(* Only the directory of environment e differs, and it maps nothing.       *)
LEMMA DirCounts ==
    ASSUME NEW m, NEW g, NEW n, NEW h, NEW p, NEW e \in ENVS,
           SameTables(m, g, n, h), SameMaps(m, g, n, h),
           \A f \in ENVS \ {e} : h[f] = g[f]
    PROVE  References(n, h, p) = References(m, g, p) - One(Heads(g, e, p)) + One(Heads(h, e, p))
<1> DEFINE S == DirRefs(g, p)
           T == DirRefs(h, p)
<1>1. (e \in S <=> Heads(g, e, p)) /\ (e \in T <=> Heads(h, e, p)) /\ S \ {e} = T \ {e}
  BY DEF DirRefs, Heads
<1>2. /\ IsFiniteSet(S) /\ IsFiniteSet(T) /\ Cardinality(S) \in Nat /\ Cardinality(T) \in Nat
      /\ Cardinality(TableRefs(m, g, p)) \in Nat /\ Cardinality(UserRefs(m, g, p)) \in Nat
      /\ TableRefs(n, h, p) = TableRefs(m, g, p) /\ UserRefs(n, h, p) = UserRefs(m, g, p)
  BY Finite, SameSets
<1> HIDE DEF S, T
<1>3. Cardinality(T) = Cardinality(S) - One(e \in S) + One(e \in T)
  BY <1>1, <1>2, CountChange
<1>4. One(e \in S) \in Int /\ One(e \in T) \in Int
  BY DEF One
<1> QED BY <1>1, <1>2, <1>3, <1>4 DEF References, S, T, One

-----------------------------------------------------------------------------
(* Lookups.                                                                *)

LEMMA Addresses ==
    ASSUME NEW va \in VA
    PROVE  /\ va[1] \in Dir /\ va[2] \in Table
           /\ \A wa \in VA : wa[1] = va[1] /\ wa[2] = va[2] => wa = va
BY DEF VA

LEMMA NotNull == \A v \in PlainEntry : v # NULL
BY PmapAssumption DEF PlainEntry, Entry

LEMMA Tables ==
    ASSUME NEW m \in Memory, NEW g \in Pgdirs, NEW e \in ENVS, NEW i \in Dir
    PROVE  /\ Pde(m, g, e, i) \in PlainPte
           /\ Pde(m, g, e, i) # NULL => /\ Pde(m, g, e, i).pg \in PAGE
                                       /\ Pde(m, g, e, i) = m.pd[g[e]][i]
                                       /\ g[e] # NULL /\ g[e] \in PAGE
<1>1. m.pd \in [PAGE -> [Dir -> PlainPte]] /\ g[e] \in PAGE \cup {NULL} /\ NULL \in PlainPte
  BY DEF Memory, Pgdirs, PlainPte
<1>2. \A x \in PlainPte : x # NULL => x.pg \in PAGE
  BY DEF PlainPte, PlainEntry
<1> QED BY <1>1, <1>2 DEF Pde

LEMMA Lookups ==
    ASSUME NEW m \in Memory, NEW g \in Pgdirs, NEW e \in ENVS, NEW va \in VA
    PROVE  /\ Mapping(m, g, e, va) = IF Pde(m, g, e, va[1]) = NULL THEN NULL
                                     ELSE m.pt[Pde(m, g, e, va[1]).pg][va[2]]
           /\ Mapping(m, g, e, va) \in PlainPte
           /\ Mapping(m, g, e, va) # NULL => /\ Mapping(m, g, e, va).pg \in PAGE
                                            /\ Pde(m, g, e, va[1]) # NULL
<1>1. m.pt \in [PAGE -> [Table -> PlainPte]] /\ NULL \in PlainPte
  BY DEF Memory, PlainPte
<1>2. \A x \in PlainPte : x # NULL => x.pg \in PAGE
  BY DEF PlainPte, PlainEntry
<1>3. va[1] \in Dir /\ va[2] \in Table
  BY Addresses
<1>5. Pde(m, g, e, va[1]) # NULL => Pde(m, g, e, va[1]).pg \in PAGE
  BY <1>3, Tables
<1>4. Mapping(m, g, e, va) = IF Pde(m, g, e, va[1]) = NULL THEN NULL
                             ELSE m.pt[Pde(m, g, e, va[1]).pg][va[2]]
  BY <1>3, <1>5, PmapAssumption DEF Mapping, Pde, page_lookup, Astray, PDX, PTX
<1>6. Mapping(m, g, e, va) \in PlainPte
  BY <1>1, <1>3, <1>4, <1>5
<1> QED BY <1>2, <1>4, <1>6

-----------------------------------------------------------------------------
(* The calls of pmap.c.                                                    *)

(* What the stores of the calls do to the memory: one entry changes, in    *)
(* table t or in directory d, or one count goes up.                        *)
PteStored(m, n, t, j, v) ==
    /\ n.pt[t][j] = v
    /\ \A p \in PAGE, k \in Table : p # t \/ k # j => n.pt[p][k] = m.pt[p][k]
    /\ \A p \in PAGE \ {t} : n.pt[p] = m.pt[p]

PdeStored(m, n, d, i, w) ==
    /\ n.pd[d][i] = w
    /\ \A p \in PAGE, k \in Dir : p # d \/ k # i => n.pd[p][k] = m.pd[p][k]
    /\ \A p \in PAGE \ {d} : n.pd[p] = m.pd[p]

RefAdded(m, n, p) ==
    n.ref[p] = Incr(m.ref[p]) /\ \A q \in PAGE \ {p} : n.ref[q] = m.ref[q]

SetPte(m, t, j, v) == [m EXCEPT !.pt[t][j] = v]

LEMMA SetPteFacts ==
    ASSUME NEW m \in Memory, NEW t \in PAGE, NEW j \in Table, NEW v \in PlainPte
    PROVE  LET n == SetPte(m, t, j, v) IN
           /\ n \in Memory /\ n.ref = m.ref /\ n.free = m.free /\ n.pd = m.pd
           /\ PteStored(m, n, t, j, v)
<1> DEFINE x == [m.pt EXCEPT ![t] = [m.pt[t] EXCEPT ![j] = v]]
           n == [m EXCEPT !.pt = x]
<1>1. m.pt \in [PAGE -> [Table -> PlainPte]]
  BY DEF Memory
<1>2. /\ x \in [PAGE -> [Table -> PlainPte]]
      /\ x[t][j] = v
      /\ \A p \in PAGE, k \in Table : p # t \/ k # j => x[p][k] = m.pt[p][k]
      /\ \A p \in PAGE \ {t} : x[p] = m.pt[p]
  BY <1>1
<1> HIDE DEF x
<1>3. n \in Memory /\ n.ref = m.ref /\ n.free = m.free /\ n.pd = m.pd /\ n.pt = x
  BY <1>2 DEF Memory
<1> QED BY <1>2, <1>3 DEF x, SetPte, PteStored

(* Storing into one page table entry changes one mapping of one            *)
(* environment.                                                            *)
LEMMA StoreEntry ==
    ASSUME NEW m, NEW g, NEW H, Sound(m, g, H), NEW e \in ENVS, NEW va \in VA,
           Pde(m, g, e, va[1]) # NULL,
           NEW t, t = m.pd[g[e]][va[1]].pg,
           NEW n \in Memory, n.pd = m.pd, NEW v, PteStored(m, n, t, va[2], v)
    PROVE  /\ SameTables(m, g, n, g)
           /\ Mapping(n, g, e, va) = v
           /\ OtherMaps(m, g, n, g, e, va)
           /\ Zeroed(n, g)
<1>1. m \in Memory /\ g \in Pgdirs /\ OneUse(m, g) /\ Zeroed(m, g)
  BY DEF Sound
<1>2. va[1] \in Dir /\ va[2] \in Table
  BY Addresses
<1>3. Pde(m, g, e, va[1]) # NULL
  OBVIOUS
<1>4. t = Pde(m, g, e, va[1]).pg /\ t \in PAGE
  BY <1>1, <1>2, <1>3, Tables
<1>5. \A f \in ENVS, i \in Dir : Pde(n, g, f, i) = Pde(m, g, f, i)
  BY DEF Pde
<1>6. Mapping(n, g, e, va) = v
  BY <1>1, <1>2, <1>3, <1>4, <1>5, Lookups DEF PteStored
<1>7. ASSUME NEW f \in ENVS, NEW wa \in VA, f # e \/ wa # va
      PROVE  Mapping(n, g, f, wa) = Mapping(m, g, f, wa)
  <2>1. wa[1] \in Dir /\ wa[2] \in Table
    BY Addresses
  <2>2. /\ Mapping(m, g, f, wa) = IF Pde(m, g, f, wa[1]) = NULL THEN NULL
                                  ELSE m.pt[Pde(m, g, f, wa[1]).pg][wa[2]]
        /\ Mapping(n, g, f, wa) = IF Pde(m, g, f, wa[1]) = NULL THEN NULL
                                  ELSE n.pt[Pde(m, g, f, wa[1]).pg][wa[2]]
    BY <1>1, <1>5, <2>1, Lookups
  <2>3. Pde(m, g, f, wa[1]) # NULL => Pde(m, g, f, wa[1]).pg \in PAGE
    BY <1>1, <2>1, Tables
  <2>4. ASSUME Pde(m, g, f, wa[1]) # NULL, Pde(m, g, f, wa[1]).pg = t PROVE wa[2] # va[2]
    <3>1. f = e /\ wa[1] = va[1]
      BY <1>1, <1>2, <1>3, <1>4, <2>1, <2>4 DEF OneUse
    <3> QED BY <1>7, <3>1, Addresses
  <2> QED BY <2>1, <2>2, <2>3, <2>4 DEF PteStored
<1>8. Zeroed(n, g)
  <2>1. ASSUME NEW p \in PAGE,
               \A f \in ENVS, i \in Dir : Pde(m, g, f, i) # NULL => Pde(m, g, f, i).pg # p
        PROVE  n.pt[p] = m.pt[p]
    BY <1>2, <1>3, <1>4, <2>1 DEF PteStored
  <2>2. ASSUME NEW p \in PAGE,
               \A f \in ENVS, i \in Dir : Pde(n, g, f, i) # NULL => Pde(n, g, f, i).pg # p
        PROVE  n.pt[p] = NoEntries(Table)
    <3>1. \A f \in ENVS, i \in Dir : Pde(m, g, f, i) # NULL => Pde(m, g, f, i).pg # p
      BY <1>5, <2>2
    <3> QED BY <1>1, <2>1, <3>1 DEF Zeroed
  <2>3. \A p \in PAGE : (\A f \in ENVS : g[f] # p) => n.pd[p] = NoEntries(Dir)
    BY <1>1 DEF Zeroed
  <2> QED BY <2>2, <2>3 DEF Zeroed
<1> QED BY <1>5, <1>6, <1>7, <1>8 DEF SameTables, OtherMaps

(* One use survives when mappings only disappear.                          *)
LEMMA OneUseFewer ==
    ASSUME NEW m, NEW g, NEW n, OneUse(m, g), SameTables(m, g, n, g),
           \A f \in ENVS, wa \in VA : Mapping(n, g, f, wa) \in {NULL, Mapping(m, g, f, wa)}
    PROVE  OneUse(n, g)
<1>1. \A e, f \in ENVS : g[e] # NULL /\ g[e] = g[f] => e = f
  BY DEF OneUse
<1>2. \A e, f \in ENVS, i, k \in Dir :
         Pde(n, g, e, i) # NULL /\ Pde(n, g, f, k) # NULL /\ Pde(n, g, e, i).pg = Pde(n, g, f, k).pg
         => e = f /\ i = k
  BY DEF OneUse, SameTables
<1>3. \A e, f \in ENVS, i \in Dir : Pde(n, g, e, i) # NULL => g[f] # Pde(n, g, e, i).pg
  BY DEF OneUse, SameTables
<1>4. \A e, f \in ENVS, va \in VA : Mapping(n, g, e, va) # NULL => g[f] # Mapping(n, g, e, va).pg
  BY DEF OneUse
<1>5. \A e, f \in ENVS, i \in Dir, va \in VA :
         Pde(n, g, e, i) # NULL /\ Mapping(n, g, f, va) # NULL
         => Pde(n, g, e, i).pg # Mapping(n, g, f, va).pg
  BY DEF OneUse, SameTables
<1> QED BY <1>1, <1>2, <1>3, <1>4, <1>5 DEF OneUse

(* A referenced page has a count.                                          *)
LEMMA Referenced ==
    ASSUME NEW m, NEW g, NEW H, Sound(m, g, H)
    PROVE  /\ \A e \in ENVS, va \in VA : Mapping(m, g, e, va) # NULL => m.ref[Mapping(m, g, e, va).pg] # 0
           /\ \A e \in ENVS, i \in Dir : Pde(m, g, e, i) # NULL => m.ref[Pde(m, g, e, i).pg] # 0
           /\ \A e \in ENVS : g[e] # NULL => m.ref[g[e]] # 0
<1>1. m \in Memory /\ g \in Pgdirs /\ \A p \in PAGE : m.ref[p] = References(m, g, p)
  BY DEF Sound, Counted
<1>2. ASSUME NEW e \in ENVS, NEW va \in VA, Mapping(m, g, e, va) # NULL
      PROVE  m.ref[Mapping(m, g, e, va).pg] # 0
  BY <1>1, <1>2, NoReferences, Lookups
<1>3. ASSUME NEW e \in ENVS, NEW i \in Dir, Pde(m, g, e, i) # NULL
      PROVE  m.ref[Pde(m, g, e, i).pg] # 0
  BY <1>1, <1>3, NoReferences, Tables
<1>4. ASSUME NEW e \in ENVS, g[e] # NULL PROVE m.ref[g[e]] # 0
  BY <1>1, <1>4, NoReferences DEF Pgdirs
<1> QED BY <1>2, <1>3, <1>4

LEMMA PageRemove ==
    ASSUME NEW m, NEW g, NEW H, Sound(m, g, H), \A h \in H \cap PAGE : m.ref[h] = 0,
           NEW e \in ENVS, g[e] # NULL, NEW va \in VA, NEW n, n = page_remove(m, g[e], va)
    PROVE  /\ Sound(n, g, H)
           /\ SameTables(m, g, n, g)
           /\ Mapping(n, g, e, va) = NULL
           /\ OtherMaps(m, g, n, g, e, va)
           /\ \A p \in PAGE : m.ref[p] = 0 => n.ref[p] = 0
           /\ Mapping(m, g, e, va) = NULL => n = m
<1>1. page_lookup(m, g[e], va) = Mapping(m, g, e, va)
  BY DEF Mapping
<1>2. CASE Mapping(m, g, e, va) = NULL
  <2>1. n = m
    BY <1>1, <1>2 DEF page_remove
  <2> QED BY <1>2, <2>1 DEF SameTables, OtherMaps
<1>3. CASE Mapping(m, g, e, va) # NULL
  <2> DEFINE pte == Mapping(m, g, e, va)
             q == pte.pg
             t == m.pd[g[e]][va[1]].pg
             n1 == SetPte(m, t, va[2], NULL)
  <2>1. n = page_decref(n1, q)
    BY <1>1, <1>3 DEF page_remove, PDX, PTX, SetPte
  <2>2. m \in Memory /\ g \in Pgdirs /\ OneUse(m, g) /\ Counted(m, g) /\ FreeExact(m, H)
    BY DEF Sound
  <2>3. q \in PAGE /\ m.ref[q] # 0 /\ q \notin H
    BY <1>3, <2>2, Lookups, Referenced
  <2> HIDE DEF n1, q, pte
  <2>14. t \in PAGE /\ va[2] \in Table /\ NULL \in PlainPte
    BY <1>3, <2>2, Addresses, Lookups, Tables DEF PlainPte
  <2> HIDE DEF t
  <2>15. Pde(m, g, e, va[1]) # NULL
    BY <1>3, <2>2, Lookups
  <2>0. /\ n1 \in Memory /\ n1.ref = m.ref /\ n1.free = m.free /\ n1.pd = m.pd
        /\ PteStored(m, n1, t, va[2], NULL)
    BY <2>2, <2>14, SetPteFacts DEF n1
  <2>4. /\ n1 \in Memory /\ n1.ref = m.ref /\ n1.free = m.free /\ n1.pd = m.pd
        /\ SameTables(m, g, n1, g)
        /\ Mapping(n1, g, e, va) = NULL
        /\ OtherMaps(m, g, n1, g, e, va)
        /\ Zeroed(n1, g)
    <3>1. t = m.pd[g[e]][va[1]].pg
      BY DEF t
    <3> QED BY <2>0, <2>15, <3>1, StoreEntry
  <2>5. FreeExact(n1, H)
    BY <2>2, <2>4 DEF FreeExact
  <2>6. /\ n \in Memory /\ FreeExact(n, H) /\ n.pd = m.pd /\ n.pt = n1.pt
        /\ n.ref[q] = m.ref[q] - 1 /\ \A p \in PAGE \ {q} : n.ref[p] = m.ref[p]
    BY <2>1, <2>3, <2>4, <2>5, Decref
  <2>7. /\ \A f \in ENVS, i \in Dir : Pde(n, g, f, i) = Pde(n1, g, f, i)
        /\ \A f \in ENVS, wa \in VA : Mapping(n, g, f, wa) = Mapping(n1, g, f, wa)
    BY <2>4, <2>6 DEF Pde, Mapping, page_lookup, Astray
  <2>8. SameTables(m, g, n, g)
    BY <2>4, <2>7 DEF SameTables
  <2>9. /\ Mapping(n, g, e, va) = NULL
        /\ OtherMaps(m, g, n, g, e, va)
    BY <2>4, <2>7 DEF OtherMaps
  <2>10. OneUse(n, g)
    <3>1. \A f \in ENVS, wa \in VA : Mapping(n, g, f, wa) \in {NULL, Mapping(m, g, f, wa)}
      BY <2>9 DEF OtherMaps
    <3> QED BY <2>2, <2>8, <3>1, OneUseFewer
  <2>11. Zeroed(n, g)
    BY <2>4, <2>6, <2>7 DEF Zeroed
  <2>12. Counted(n, g)
    <3> SUFFICES ASSUME NEW p \in PAGE PROVE n.ref[p] = References(n, g, p)
      BY DEF Counted
    <3>1. References(n, g, p) = References(m, g, p) - One(Points(pte, p)) + One(Points(NULL, p))
      BY <2>8, <2>9, MapCounts DEF SameDirs, pte
    <3>2. m.ref[p] = References(m, g, p) /\ References(m, g, p) \in Nat
      BY <2>2, NoReferences DEF Counted
    <3> QED BY <1>3, <2>6, <3>1, <3>2 DEF Points, One, pte, q
  <2>13. \A p \in PAGE : m.ref[p] = 0 => n.ref[p] = 0
    BY <2>3, <2>6
  <2> QED BY <1>3, <2>2, <2>6, <2>8, <2>9, <2>10, <2>11, <2>12, <2>13 DEF Sound, pte
<1> QED BY <1>2, <1>3
(* A call that moves pages between the list and the handler's hands.       *)
LEMMA SameMemory ==
    ASSUME NEW m \in Memory, NEW n \in Memory,
           n.ref = m.ref, n.free = m.free, n.pd = m.pd, n.pt = m.pt
    PROVE  n = m
<1>1. \A x \in Memory : x = [ref |-> x.ref, free |-> x.free, pd |-> x.pd, pt |-> x.pt]
  BY DEF Memory
<1>2. m = [ref |-> m.ref, free |-> m.free, pd |-> m.pd, pt |-> m.pt]
  BY <1>1
<1>3. n = [ref |-> n.ref, free |-> n.free, pd |-> n.pd, pt |-> n.pt]
  BY <1>1
<1> QED BY <1>2, <1>3

LEMMA SameContents ==
    ASSUME NEW m, NEW g, NEW n, n.pd = m.pd, n.pt = m.pt
    PROVE  SameTables(m, g, n, g) /\ SameMaps(m, g, n, g)
BY DEF SameTables, SameMaps, Pde, Mapping, page_lookup, Astray

LEMMA SoundSame ==
    ASSUME NEW m, NEW g, NEW H, Sound(m, g, H), NEW n \in Memory, NEW K, FreeExact(n, K),
           n.ref = m.ref, n.pd = m.pd, n.pt = m.pt
    PROVE  Sound(n, g, K)
<1>1. /\ \A f \in ENVS, i \in Dir : Pde(n, g, f, i) = Pde(m, g, f, i)
      /\ \A f \in ENVS, wa \in VA : Mapping(n, g, f, wa) = Mapping(m, g, f, wa)
  BY SameContents DEF SameTables, SameMaps
<1>2. OneUse(n, g)
  BY <1>1, OneUseFewer DEF Sound, SameTables
<1>3. Zeroed(n, g)
  BY <1>1 DEF Sound, Zeroed
<1>4. Counted(n, g)
  <2>1. \A p \in PAGE : References(n, g, p) = References(m, g, p)
    BY <1>1, SameCounts DEF SameDirs, SameTables, SameMaps
  <2> QED BY <2>1 DEF Sound, Counted
<1> QED BY <1>2, <1>3, <1>4 DEF Sound

(* Nothing points to p.                                                    *)
Unused(m, g, p) ==
    /\ \A e \in ENVS : g[e] # p
    /\ \A e \in ENVS, i \in Dir : Pde(m, g, e, i) # NULL => Pde(m, g, e, i).pg # p
    /\ \A e \in ENVS, va \in VA : Mapping(m, g, e, va) # NULL => Mapping(m, g, e, va).pg # p

(* The page page_alloc() returns: nothing points to it, so it is empty     *)
(* already, and clearing it changes nothing.                               *)
LEMMA PageAlloc ==
    ASSUME NEW m, NEW g, NEW H, Sound(m, g, H), m.free # <<>>,
           NEW p, p = Head(m.free), NEW n, n = page_alloc(m)
    PROVE  /\ p \in PAGE /\ p \notin H /\ m.ref[p] = 0
           /\ n.ref = m.ref /\ n.pd = m.pd /\ n.pt = m.pt /\ n.free = Tail(m.free) /\ n \in Memory
           /\ Sound(n, g, H \cup {p}) /\ Unused(m, g, p)
           /\ m.pd[p] = NoEntries(Dir) /\ m.pt[p] = NoEntries(Table)
<1>1. m \in Memory /\ g \in Pgdirs /\ Zeroed(m, g) /\ Counted(m, g) /\ FreeExact(m, H)
  BY DEF Sound
<1>2. /\ m.ref \in [PAGE -> 0 .. REFMOD - 1] /\ m.free \in Seq(PAGE)
      /\ m.pd \in [PAGE -> [Dir -> PlainPte]] /\ m.pt \in [PAGE -> [Table -> PlainPte]]
  BY <1>1 DEF Memory
<1>3. /\ Tail(m.free) \in Seq(PAGE) /\ p \in PAGE /\ OnList(m.free, p)
      /\ \A i, j \in DOMAIN Tail(m.free) : Tail(m.free)[i] = Tail(m.free)[j] => i = j
      /\ \A q \in PAGE : OnList(Tail(m.free), q) <=> q # p /\ OnList(m.free, q)
  BY <1>1, <1>2, ListTail DEF FreeExact
<1>4. m.ref[p] = 0 /\ p \notin H
  BY <1>1, <1>3 DEF FreeExact
<1>5. Unused(m, g, p)
  <2>1. References(m, g, p) = 0
    BY <1>1, <1>3, <1>4 DEF Counted
  <2> QED BY <2>1, NoReferences DEF Unused
<1>6. m.pd[p] = NoEntries(Dir) /\ m.pt[p] = NoEntries(Table)
  BY <1>1, <1>3, <1>5 DEF Zeroed, Unused
<1>7. [m.pd EXCEPT ![p] = NoEntries(Dir)] = m.pd /\ [m.pt EXCEPT ![p] = NoEntries(Table)] = m.pt
  BY <1>2, <1>3, <1>6
<1>8. /\ n.ref = m.ref /\ n.free = Tail(m.free) /\ n \in Memory
      /\ n.pd = [m.pd EXCEPT ![p] = NoEntries(Dir)] /\ n.pt = [m.pt EXCEPT ![p] = NoEntries(Table)]
  BY <1>1, <1>2, <1>3, <1>7 DEF page_alloc, Memory
<1>9. FreeExact(n, H \cup {p})
  BY <1>1, <1>3, <1>4, <1>8 DEF FreeExact
<1>10. Sound(n, g, H \cup {p})
  BY <1>7, <1>8, <1>9, SoundSame
<1> QED BY <1>3, <1>4, <1>5, <1>6, <1>7, <1>8, <1>10

(* pgdir_walk() puts a new, empty page table into the directory.           *)
LEMMA NewTable ==
    ASSUME NEW m, NEW g, NEW H, Sound(m, g, H), NEW e \in ENVS, g[e] # NULL, NEW va \in VA,
           Pde(m, g, e, va[1]) = NULL, m.free # <<>>,
           NEW n, n = pgdir_walk(m, g[e], va)
    PROVE  /\ Sound(n, g, H)
           /\ SameMaps(m, g, n, g)
           /\ Pde(n, g, e, va[1]) # NULL
           /\ \A f \in ENVS, k \in Dir : Pde(n, g, f, k) # NULL =>
                 \/ Pde(m, g, f, k) # NULL /\ Pde(n, g, f, k).pg = Pde(m, g, f, k).pg
                 \/ Pde(n, g, f, k).pg \notin H /\ m.ref[Pde(n, g, f, k).pg] = 0
           /\ \A q \in PAGE : m.ref[q] # 0 \/ q \in H => n.ref[q] = m.ref[q]
<1> DEFINE p == Head(m.free)
           i == va[1]
           v == [pg |-> p, perm |-> {"P"}]
           a == page_alloc(m)
<1>1. /\ m \in Memory /\ g \in Pgdirs /\ OneUse(m, g) /\ Zeroed(m, g) /\ Counted(m, g) /\ FreeExact(m, H)
      /\ i \in Dir /\ g[e] \in PAGE
  BY Addresses DEF Sound, Pgdirs
<1>2. /\ p \in PAGE /\ p \notin H /\ m.ref[p] = 0
      /\ a.ref = m.ref /\ a.pd = m.pd /\ a.pt = m.pt /\ a \in Memory
      /\ FreeExact(a, H \cup {p})
      /\ \A f \in ENVS : g[f] # p
      /\ \A f \in ENVS, k \in Dir : Pde(m, g, f, k) # NULL => Pde(m, g, f, k).pg # p
      /\ \A f \in ENVS, wa \in VA : Mapping(m, g, f, wa) # NULL => Mapping(m, g, f, wa).pg # p
      /\ m.pt[p] = NoEntries(Table)
  <2> HIDE DEF p, a
  <2>1. p = Head(m.free) /\ a = page_alloc(m)
    BY DEF p, a
  <2>2. Sound(a, g, H \cup {p}) /\ Unused(m, g, p) /\ p \in PAGE
    BY <2>1, PageAlloc
  <2>3. p \notin H /\ m.ref[p] = 0 /\ m.pt[p] = NoEntries(Table)
    BY <2>1, <2>2, PageAlloc
  <2>4. a.ref = m.ref /\ a.pd = m.pd /\ a.pt = m.pt /\ a \in Memory
    BY <2>1, <2>2, PageAlloc
  <2> QED BY <2>2, <2>3, <2>4 DEF Sound, Unused
<1>3. v \in PlainPte /\ v # NULL /\ v.pg = p
  <2>1. {"P"} \in SUBSET DOMAIN WEIGHT
    BY DEF WEIGHT
  <2>2. v \in PlainEntry
    BY <1>2, <2>1 DEF PlainEntry
  <2> QED BY <2>2, NotNull DEF PlainPte
<1>4. /\ n.ref = [m.ref EXCEPT ![p] = 1] /\ n.free = a.free /\ n.pt = m.pt
      /\ n.pd = [m.pd EXCEPT ![g[e]] = [m.pd[g[e]] EXCEPT ![i] = v]]
      /\ n \in Memory
  <2> DEFINE ref1 == [m.ref EXCEPT ![p] = 1]
             pd1  == [m.pd EXCEPT ![g[e]] = [m.pd[g[e]] EXCEPT ![i] = v]]
  <2>1. m.pd[g[e]][i] = NULL
    BY DEF Pde
  <2>2. Incr(a.ref[p]) = 1
    BY <1>2, PmapAssumption DEF Incr
  <2>3. n = [a EXCEPT !.ref[p] = Incr(@), !.pd[g[e]][i] = v]
    BY <2>1 DEF pgdir_walk, PDX
  <2>4. ref1 \in [PAGE -> 0 .. REFMOD - 1] /\ pd1 \in [PAGE -> [Dir -> PlainPte]]
    BY <1>1, <1>2, <1>3, PmapAssumption DEF Memory
  <2> HIDE DEF v, a
  <2>5. n = [a EXCEPT !.ref = ref1, !.pd = pd1]
    BY <1>2, <2>2, <2>3
  <2> HIDE DEF ref1, pd1
  <2>6. n.ref = ref1 /\ n.pd = pd1 /\ n.free = a.free /\ n.pt = a.pt /\ n \in Memory
    BY <1>2, <2>4, <2>5 DEF Memory
  <2> QED BY <1>2, <2>6 DEF ref1, pd1
<1> HIDE DEF p, i, v, a
<1>5. /\ n.pd[g[e]][i] = v
      /\ \A d \in PAGE, k \in Dir : d # g[e] \/ k # i => n.pd[d][k] = m.pd[d][k]
      /\ \A d \in PAGE \ {g[e]} : n.pd[d] = m.pd[d]
      /\ n.ref[p] = 1 /\ \A q \in PAGE \ {p} : n.ref[q] = m.ref[q]
  BY <1>1, <1>2, <1>4 DEF Memory
<1>6. /\ Pde(n, g, e, i) = v
      /\ \A f \in ENVS, k \in Dir : f # e \/ k # i => Pde(n, g, f, k) = Pde(m, g, f, k)
  <2>1. Pde(n, g, e, i) = v
    BY <1>5 DEF Pde
  <2>2. ASSUME NEW f \in ENVS, NEW k \in Dir, f # e \/ k # i PROVE Pde(n, g, f, k) = Pde(m, g, f, k)
    <3>1. g[f] # NULL => g[f] \in PAGE /\ (g[f] = g[e] => f = e)
      BY <1>1 DEF OneUse, Pgdirs
    <3> QED BY <1>5, <2>2, <3>1 DEF Pde
  <2> QED BY <2>1, <2>2
<1>7. ASSUME NEW f \in ENVS, NEW wa \in VA PROVE Mapping(n, g, f, wa) = Mapping(m, g, f, wa)
  <2>1. wa[1] \in Dir /\ wa[2] \in Table
    BY Addresses
  <2>2. /\ Mapping(m, g, f, wa) = IF Pde(m, g, f, wa[1]) = NULL THEN NULL
                                  ELSE m.pt[Pde(m, g, f, wa[1]).pg][wa[2]]
        /\ Mapping(n, g, f, wa) = IF Pde(n, g, f, wa[1]) = NULL THEN NULL
                                  ELSE n.pt[Pde(n, g, f, wa[1]).pg][wa[2]]
    BY <1>1, <1>4, Lookups
  <2>3. CASE f = e /\ wa[1] = i
    <3>1. Mapping(m, g, f, wa) = NULL
      BY <2>2, <2>3 DEF i
    <3>2. Mapping(n, g, f, wa) = m.pt[p][wa[2]]
      BY <1>3, <1>4, <1>6, <2>2, <2>3
    <3>3. m.pt[p][wa[2]] = NULL
      BY <1>2, <2>1 DEF NoEntries
    <3> QED BY <3>1, <3>2, <3>3
  <2>4. CASE f # e \/ wa[1] # i
    BY <1>4, <1>6, <2>1, <2>2, <2>4
  <2> QED BY <2>3, <2>4
<1>8. OneUse(n, g)
  <2>1. \A f, h \in ENVS : g[f] # NULL /\ g[f] = g[h] => f = h
    BY <1>1 DEF OneUse
  <2>2. ASSUME NEW f \in ENVS, NEW h \in ENVS, NEW k \in Dir, NEW l \in Dir,
               Pde(n, g, f, k) # NULL, Pde(n, g, h, l) # NULL, Pde(n, g, f, k).pg = Pde(n, g, h, l).pg
        PROVE  f = h /\ k = l
    <3>1. CASE (f # e \/ k # i) /\ (h # e \/ l # i)
      BY <1>1, <1>6, <2>2, <3>1 DEF OneUse
    <3>2. CASE f = e /\ k = i
      BY <1>2, <1>3, <1>6, <2>2, <3>2
    <3>3. CASE h = e /\ l = i
      BY <1>2, <1>3, <1>6, <2>2, <3>3
    <3> QED BY <3>1, <3>2, <3>3
  <2>3. ASSUME NEW f \in ENVS, NEW h \in ENVS, NEW k \in Dir, Pde(n, g, f, k) # NULL
        PROVE  g[h] # Pde(n, g, f, k).pg
    BY <1>1, <1>2, <1>3, <1>6, <2>3 DEF OneUse
  <2>4. \A f, h \in ENVS, wa \in VA : Mapping(n, g, f, wa) # NULL => g[h] # Mapping(n, g, f, wa).pg
    BY <1>1, <1>7 DEF OneUse
  <2>5. ASSUME NEW f \in ENVS, NEW h \in ENVS, NEW k \in Dir, NEW wa \in VA,
               Pde(n, g, f, k) # NULL, Mapping(n, g, h, wa) # NULL
        PROVE  Pde(n, g, f, k).pg # Mapping(n, g, h, wa).pg
    <3>1. Mapping(n, g, h, wa) = Mapping(m, g, h, wa)
      BY <1>7
    <3>2. CASE f = e /\ k = i
      BY <1>2, <1>3, <1>6, <2>5, <3>1, <3>2
    <3>3. CASE f # e \/ k # i
      BY <1>1, <1>6, <2>5, <3>1, <3>3 DEF OneUse
    <3> QED BY <3>2, <3>3
  <2> QED BY <2>1, <2>2, <2>3, <2>4, <2>5 DEF OneUse
<1>9. Zeroed(n, g)
  <2>1. ASSUME NEW q \in PAGE, \A f \in ENVS : g[f] # q PROVE n.pd[q] = NoEntries(Dir)
    BY <1>1, <1>5, <2>1 DEF Zeroed
  <2>2. ASSUME NEW q \in PAGE,
               \A f \in ENVS, k \in Dir : Pde(n, g, f, k) # NULL => Pde(n, g, f, k).pg # q
        PROVE  n.pt[q] = NoEntries(Table)
    <3>1. \A f \in ENVS, k \in Dir : Pde(m, g, f, k) # NULL => Pde(m, g, f, k).pg # q
      BY <1>6, <2>2 DEF i
    <3> QED BY <1>1, <1>4, <3>1 DEF Zeroed
  <2> QED BY <2>1, <2>2 DEF Zeroed
<1>10. Counted(n, g)
  <2> SUFFICES ASSUME NEW q \in PAGE PROVE n.ref[q] = References(n, g, q)
    BY DEF Counted
  <2>1. References(n, g, q) = References(m, g, q) - One(Points(NULL, q)) + One(Points(v, q))
    <3>1. SameDirs(g, g) /\ SameMaps(m, g, n, g)
      BY <1>7 DEF SameDirs, SameMaps
    <3>2. References(n, g, q) = References(m, g, q) - One(Points(Pde(m, g, e, i), q))
                                                   + One(Points(Pde(n, g, e, i), q))
      BY <1>1, <1>6, <3>1, TableCounts
    <3> QED BY <1>6, <3>2 DEF i
  <2>2. m.ref[q] = References(m, g, q) /\ References(m, g, q) \in Nat
    BY <1>1, NoReferences DEF Counted
  <2> QED BY <1>2, <1>3, <1>5, <2>1, <2>2 DEF Points, One
<1>11. FreeExact(n, H)
  BY <1>2, <1>4, <1>5 DEF FreeExact
<1>12. Sound(n, g, H)
  BY <1>1, <1>4, <1>8, <1>9, <1>10, <1>11 DEF Sound
<1>13. /\ SameMaps(m, g, n, g)
       /\ Pde(n, g, e, va[1]) # NULL
       /\ \A q \in PAGE : m.ref[q] # 0 \/ q \in H => n.ref[q] = m.ref[q]
  BY <1>2, <1>3, <1>5, <1>6, <1>7 DEF SameMaps, i
<1>14. \A f \in ENVS, k \in Dir : Pde(n, g, f, k) # NULL =>
         \/ Pde(m, g, f, k) # NULL /\ Pde(n, g, f, k).pg = Pde(m, g, f, k).pg
         \/ Pde(n, g, f, k).pg \notin H /\ m.ref[Pde(n, g, f, k).pg] = 0
  BY <1>2, <1>3, <1>6
<1> QED BY <1>12, <1>13, <1>14
(* page_insert() also widens the permissions in the directory entry.       *)
LEMMA Widen ==
    ASSUME NEW m, NEW g, NEW H, Sound(m, g, H), NEW e \in ENVS, NEW i \in Dir,
           Pde(m, g, e, i) # NULL, NEW w, w # NULL, w.pg = Pde(m, g, e, i).pg,
           NEW n \in Memory, n.ref = m.ref, n.free = m.free, n.pt = m.pt,
           PdeStored(m, n, g[e], i, w)
    PROVE  /\ Sound(n, g, H) /\ SameMaps(m, g, n, g)
           /\ \A f \in ENVS, k \in Dir :
                 /\ Pde(n, g, f, k) = NULL <=> Pde(m, g, f, k) = NULL
                 /\ Pde(m, g, f, k) # NULL => Pde(n, g, f, k).pg = Pde(m, g, f, k).pg
<1>1. m \in Memory /\ g \in Pgdirs /\ OneUse(m, g) /\ Zeroed(m, g) /\ Counted(m, g) /\ FreeExact(m, H)
  BY DEF Sound
<1>2. g[e] # NULL /\ g[e] \in PAGE
  BY <1>1, Tables
<1>3. /\ Pde(n, g, e, i) = w
      /\ \A f \in ENVS, k \in Dir : f # e \/ k # i => Pde(n, g, f, k) = Pde(m, g, f, k)
  <2>1. Pde(n, g, e, i) = w
    BY <1>2 DEF Pde, PdeStored
  <2>2. ASSUME NEW f \in ENVS, NEW k \in Dir, f # e \/ k # i PROVE Pde(n, g, f, k) = Pde(m, g, f, k)
    <3>1. g[f] # NULL => g[f] \in PAGE /\ (g[f] = g[e] => f = e)
      BY <1>1 DEF OneUse, Pgdirs
    <3> QED BY <2>2, <3>1 DEF Pde, PdeStored
  <2> QED BY <2>1, <2>2
<1>4. ASSUME NEW f \in ENVS, NEW k \in Dir
      PROVE  /\ Pde(n, g, f, k) = NULL <=> Pde(m, g, f, k) = NULL
             /\ Pde(m, g, f, k) # NULL => Pde(n, g, f, k).pg = Pde(m, g, f, k).pg
  BY <1>3
<1>5. ASSUME NEW f \in ENVS, NEW wa \in VA PROVE Mapping(n, g, f, wa) = Mapping(m, g, f, wa)
  <2>1. wa[1] \in Dir
    BY Addresses
  <2>2. /\ Mapping(m, g, f, wa) = IF Pde(m, g, f, wa[1]) = NULL THEN NULL
                                  ELSE m.pt[Pde(m, g, f, wa[1]).pg][wa[2]]
        /\ Mapping(n, g, f, wa) = IF Pde(n, g, f, wa[1]) = NULL THEN NULL
                                  ELSE n.pt[Pde(n, g, f, wa[1]).pg][wa[2]]
    BY <1>1, Lookups
  <2> QED BY <1>4, <2>1, <2>2
<1>6. OneUse(n, g)
  <2>1. \A f, h \in ENVS : g[f] # NULL /\ g[f] = g[h] => f = h
    BY <1>1 DEF OneUse
  <2>2. ASSUME NEW f \in ENVS, NEW h \in ENVS, NEW k \in Dir, NEW l \in Dir,
               Pde(n, g, f, k) # NULL, Pde(n, g, h, l) # NULL, Pde(n, g, f, k).pg = Pde(n, g, h, l).pg
        PROVE  f = h /\ k = l
    <3>1. Pde(m, g, f, k) # NULL /\ Pde(m, g, h, l) # NULL /\ Pde(m, g, f, k).pg = Pde(m, g, h, l).pg
      BY <1>4, <2>2
    <3> QED BY <1>1, <3>1 DEF OneUse
  <2>3. ASSUME NEW f \in ENVS, NEW h \in ENVS, NEW k \in Dir, Pde(n, g, f, k) # NULL
        PROVE  g[h] # Pde(n, g, f, k).pg
    BY <1>1, <1>4, <2>3 DEF OneUse
  <2>4. \A f, h \in ENVS, wa \in VA : Mapping(n, g, f, wa) # NULL => g[h] # Mapping(n, g, f, wa).pg
    BY <1>1, <1>5 DEF OneUse
  <2>5. ASSUME NEW f \in ENVS, NEW h \in ENVS, NEW k \in Dir, NEW wa \in VA,
               Pde(n, g, f, k) # NULL, Mapping(n, g, h, wa) # NULL
        PROVE  Pde(n, g, f, k).pg # Mapping(n, g, h, wa).pg
    <3>1. Pde(m, g, f, k) # NULL /\ Pde(n, g, f, k).pg = Pde(m, g, f, k).pg
      BY <1>4, <2>5
    <3>2. Mapping(n, g, h, wa) = Mapping(m, g, h, wa)
      BY <1>5
    <3> QED BY <1>1, <2>5, <3>1, <3>2 DEF OneUse
  <2> QED BY <2>1, <2>2, <2>3, <2>4, <2>5 DEF OneUse
<1>7. Zeroed(n, g)
  <2>1. ASSUME NEW q \in PAGE, \A f \in ENVS : g[f] # q PROVE n.pd[q] = NoEntries(Dir)
    BY <1>1, <1>2, <2>1 DEF Zeroed, PdeStored
  <2>2. ASSUME NEW q \in PAGE,
               \A f \in ENVS, k \in Dir : Pde(n, g, f, k) # NULL => Pde(n, g, f, k).pg # q
        PROVE  n.pt[q] = NoEntries(Table)
    <3>1. \A f \in ENVS, k \in Dir : Pde(m, g, f, k) # NULL => Pde(m, g, f, k).pg # q
      BY <1>4, <2>2
    <3> QED BY <1>1, <3>1 DEF Zeroed
  <2> QED BY <2>1, <2>2 DEF Zeroed
<1>8. SameMaps(m, g, n, g) /\ SameDirs(g, g)
  BY <1>5 DEF SameMaps, SameDirs
<1>9. Counted(n, g)
  <2> SUFFICES ASSUME NEW q \in PAGE PROVE n.ref[q] = References(n, g, q)
    BY DEF Counted
  <2>1. References(n, g, q) = References(m, g, q) - One(Points(Pde(m, g, e, i), q))
                                                 + One(Points(Pde(n, g, e, i), q))
    BY <1>3, <1>8, TableCounts
  <2>2. Points(Pde(n, g, e, i), q) <=> Points(Pde(m, g, e, i), q)
    BY <1>3 DEF Points
  <2>3. m.ref[q] = References(m, g, q) /\ References(m, g, q) \in Nat
    BY <1>1, NoReferences DEF Counted
  <2> QED BY <2>1, <2>2, <2>3 DEF One
<1>10. FreeExact(n, H)
  BY <1>1 DEF FreeExact
<1> QED BY <1>1, <1>4, <1>6, <1>7, <1>8, <1>9, <1>10 DEF Sound

(* p is neither a directory nor a page table.                              *)
Plain(m, g, p) ==
    /\ \A f \in ENVS : g[f] # p
    /\ \A f \in ENVS, k \in Dir : Pde(m, g, f, k) # NULL => Pde(m, g, f, k).pg # p

(* The last store of page_insert(): the page in hand gets its mapping.     *)
LEMMA MapPage ==
    ASSUME NEW m, NEW g, NEW p \in PAGE, Sound(m, g, {p}), Plain(m, g, p),
           NEW e \in ENVS, NEW va \in VA, Pde(m, g, e, va[1]) # NULL, Mapping(m, g, e, va) = NULL,
           NEW t, t = m.pd[g[e]][va[1]].pg, NEW v, v # NULL, v.pg = p,
           NEW n \in Memory, n.pd = m.pd, n.free = m.free,
           RefAdded(m, n, p), PteStored(m, n, t, va[2], v),
           References(n, g, p) < REFMOD
    PROVE  /\ Sound(n, g, {}) /\ SameTables(m, g, n, g)
           /\ Mapping(n, g, e, va) = v
           /\ OtherMaps(m, g, n, g, e, va)
<1>1. m \in Memory /\ g \in Pgdirs /\ OneUse(m, g) /\ Counted(m, g) /\ FreeExact(m, {p})
  BY DEF Sound
<1>2. /\ SameTables(m, g, n, g)
      /\ Mapping(n, g, e, va) = v
      /\ OtherMaps(m, g, n, g, e, va)
      /\ Zeroed(n, g)
  BY StoreEntry
<1>3. OneUse(n, g)
  <2>1. ASSUME NEW f \in ENVS, NEW wa \in VA, Mapping(n, g, f, wa) # NULL
        PROVE  \/ Mapping(n, g, f, wa).pg = p
               \/ Mapping(m, g, f, wa) # NULL /\ Mapping(n, g, f, wa).pg = Mapping(m, g, f, wa).pg
    BY <1>2, <2>1 DEF OtherMaps
  <2>2. \A f, h \in ENVS : g[f] # NULL /\ g[f] = g[h] => f = h
    BY <1>1 DEF OneUse
  <2>3. \A f, h \in ENVS, k, l \in Dir :
           Pde(n, g, f, k) # NULL /\ Pde(n, g, h, l) # NULL /\ Pde(n, g, f, k).pg = Pde(n, g, h, l).pg
           => f = h /\ k = l
    BY <1>1, <1>2 DEF OneUse, SameTables
  <2>4. \A f, h \in ENVS, k \in Dir : Pde(n, g, f, k) # NULL => g[h] # Pde(n, g, f, k).pg
    BY <1>1, <1>2 DEF OneUse, SameTables
  <2>5. ASSUME NEW f \in ENVS, NEW h \in ENVS, NEW wa \in VA, Mapping(n, g, f, wa) # NULL
        PROVE  g[h] # Mapping(n, g, f, wa).pg
    BY <1>1, <2>1, <2>5 DEF OneUse, Plain
  <2>6. ASSUME NEW f \in ENVS, NEW h \in ENVS, NEW k \in Dir, NEW wa \in VA,
               Pde(n, g, f, k) # NULL, Mapping(n, g, h, wa) # NULL
        PROVE  Pde(n, g, f, k).pg # Mapping(n, g, h, wa).pg
    <3>1. Pde(m, g, f, k) # NULL /\ Pde(n, g, f, k) = Pde(m, g, f, k)
      BY <1>2, <2>6 DEF SameTables
    <3>2. CASE Mapping(n, g, h, wa).pg = p
      BY <3>1, <3>2 DEF Plain
    <3>3. CASE Mapping(m, g, h, wa) # NULL /\ Mapping(n, g, h, wa).pg = Mapping(m, g, h, wa).pg
      BY <1>1, <3>1, <3>3 DEF OneUse
    <3> QED BY <2>1, <2>6, <3>2, <3>3
  <2> QED BY <2>2, <2>3, <2>4, <2>5, <2>6 DEF OneUse
<1>4. ASSUME NEW q \in PAGE
      PROVE  /\ References(n, g, q) = References(m, g, q) + One(q = p)
             /\ m.ref[q] = References(m, g, q) /\ References(m, g, q) \in Nat
             /\ m.ref[q] \in 0 .. REFMOD - 1
  <2>1. References(n, g, q) = References(m, g, q) - One(Points(NULL, q)) + One(Points(v, q))
    BY <1>2, MapCounts DEF SameDirs
  <2>2. m.ref[q] = References(m, g, q) /\ References(m, g, q) \in Nat
    BY <1>1, NoReferences DEF Counted
  <2>3. m.ref[q] \in 0 .. REFMOD - 1
    BY <1>1 DEF Memory
  <2> QED BY <2>1, <2>2, <2>3 DEF One, Points
<1>5. m.ref[p] # REFMOD - 1 /\ n.ref[p] = m.ref[p] + 1
  BY <1>4, PmapAssumption DEF Incr, One, RefAdded
<1>6. Counted(n, g)
  BY <1>4, <1>5 DEF Counted, One, RefAdded
<1>7. FreeExact(n, {})
  <2>1. \A q \in PAGE : OnList(n.free, q) <=> n.ref[q] = 0
    BY <1>1, <1>4, <1>5 DEF FreeExact, RefAdded
  <2> QED BY <1>1, <2>1 DEF FreeExact
<1> QED BY <1>1, <1>2, <1>3, <1>6, <1>7 DEF Sound
(* The stores that page_insert() ends with: the count, the entry v in      *)
(* table t, and the directory entry, whose permissions become wider.       *)
Insert(m, d, i, p, j, perm) ==
    [m EXCEPT !.ref[p] = Incr(@),
              !.pt[m.pd[d][i].pg][j] = Entitle(p, {}, perm),
              !.pd[d][i] = Entitle(@.pg, @.perm, perm)]

LEMMA InsertFacts ==
    ASSUME NEW m \in Memory, NEW d \in PAGE, NEW i \in Dir, m.pd[d][i] # NULL,
           NEW t, t = m.pd[d][i].pg, NEW p \in PAGE, NEW j \in Table,
           NEW perm \in SUBSET DOMAIN WEIGHT, "SIGN" \notin perm,
           NEW n, n = Insert(m, d, i, p, j, perm)
    PROVE  /\ n \in Memory /\ n.free = m.free
           /\ RefAdded(m, n, p)
           /\ [pg |-> p, perm |-> perm] # NULL
           /\ PteStored(m, n, t, j, [pg |-> p, perm |-> perm])
           /\ \E w \in PlainEntry : w.pg = t /\ w # NULL /\ PdeStored(m, n, d, i, w)
<1> DEFINE v == [pg |-> p, perm |-> perm]
           w == [pg |-> t, perm |-> m.pd[d][i].perm \cup perm]
           ref1 == [m.ref EXCEPT ![p] = Incr(m.ref[p])]
           pt1 == [m.pt EXCEPT ![t] = [m.pt[t] EXCEPT ![j] = v]]
           pd1 == [m.pd EXCEPT ![d] = [m.pd[d] EXCEPT ![i] = w]]
<1>1. /\ m.ref \in [PAGE -> 0 .. REFMOD - 1] /\ m.free \in Seq(PAGE)
      /\ m.pd \in [PAGE -> [Dir -> PlainPte]] /\ m.pt \in [PAGE -> [Table -> PlainPte]]
      /\ REFMOD \in Nat \ {0, 1}
  BY PmapAssumption DEF Memory
<1>2. m.pd[d][i] \in PlainEntry
  BY <1>1 DEF PlainPte
<1>3. t \in PAGE /\ v \in PlainEntry /\ w \in PlainEntry /\ v.pg = p /\ w.pg = t
  BY <1>2 DEF PlainEntry
<1>4. v \in PlainPte /\ w \in PlainPte /\ v # NULL /\ w # NULL
  BY <1>3, NotNull DEF PlainPte
<1>5. Entitle(m.pd[d][i].pg, m.pd[d][i].perm, perm) = w /\ Entitle(p, {}, perm) = v
  BY DEF Entitle
<1>6. Incr(m.ref[p]) \in 0 .. REFMOD - 1
  <2>1. m.ref[p] \in 0 .. REFMOD - 1 /\ REFMOD \in Nat \ {0, 1}
    BY <1>1
  <2> HIDE DEF v, w
  <2> QED BY <2>1 DEF Incr
<1> HIDE DEF v, w
<1>7. ref1 \in [PAGE -> 0 .. REFMOD - 1]
  BY <1>1, <1>6
<1>8. pt1 \in [PAGE -> [Table -> PlainPte]] /\ pt1[t][j] = v
  BY <1>1, <1>3, <1>4
<1>9. pd1 \in [PAGE -> [Dir -> PlainPte]] /\ pd1[d][i] = w
  BY <1>1, <1>4
<1>10. n = [m EXCEPT !.ref = ref1, !.pt = pt1, !.pd = pd1]
  BY <1>5 DEF Insert, v
<1>11. /\ ref1[p] = Incr(m.ref[p]) /\ \A q \in PAGE \ {p} : ref1[q] = m.ref[q]
  BY <1>1
<1>12. /\ \A q \in PAGE, k \in Table : q # t \/ k # j => pt1[q][k] = m.pt[q][k]
       /\ \A q \in PAGE \ {t} : pt1[q] = m.pt[q]
  BY <1>1, <1>3
<1>13. /\ \A q \in PAGE, k \in Dir : q # d \/ k # i => pd1[q][k] = m.pd[q][k]
       /\ \A q \in PAGE \ {d} : pd1[q] = m.pd[q]
  BY <1>1
<1> HIDE DEF ref1, pt1, pd1
<1>14. n.ref = ref1 /\ n.pt = pt1 /\ n.pd = pd1 /\ n.free = m.free /\ n \in Memory
  BY <1>7, <1>8, <1>9, <1>10 DEF Memory
<1>15. PteStored(m, n, t, j, v) /\ PdeStored(m, n, d, i, w) /\ RefAdded(m, n, p)
  BY <1>8, <1>9, <1>11, <1>12, <1>13, <1>14 DEF PteStored, PdeStored, RefAdded
<1> QED BY <1>3, <1>4, <1>14, <1>15 DEF v
(* page_insert() of a page that is in hand or mapped already: one mapping  *)
(* changes, or there was no page for a page table and nothing does.        *)
InHand(m, p) == IF m.ref[p] = 0 THEN {p} ELSE {}

Inserted(m, g, e, va, p, perm, n) ==
    /\ Sound(n, g, {})
    /\ Mapping(n, g, e, va) = [pg |-> p, perm |-> perm \cup {"P"}]
    /\ OtherMaps(m, g, n, g, e, va)

LEMMA PageInsert ==
    ASSUME NEW m, NEW g, NEW p \in PAGE, Sound(m, g, InHand(m, p)), Plain(m, g, p),
           NEW e \in ENVS, g[e] # NULL, NEW va \in VA, NEW perm \in SUBSET DOMAIN WEIGHT,
           NEW r, r = page_insert(m, g[e], p, va, perm),
           r.ok => References(r.mem, g, p) < REFMOD
    PROVE  /\ r.ok \in BOOLEAN /\ (~r.ok => r.mem = m)
           /\ r.ok => \/ Inserted(m, g, e, va, p, perm, r.mem)
                      \/ "SIGN" \in perm /\ Astray(r.mem, g[e], va)
<1>0. PICK H : H = InHand(m, p) /\ Sound(m, g, H)
  OBVIOUS
<1> DEFINE full == perm \cup {"P"}
           m1 == page_remove(m, g[e], va)
           m2 == [m1 EXCEPT !.free = Unlink(@, p)]
           m3 == pgdir_walk(m2, g[e], va)
           n == Insert(m3, g[e], va[1], p, va[2], full)
<1>1. /\ m \in Memory /\ g \in Pgdirs /\ FreeExact(m, H) /\ g[e] \in PAGE
      /\ va[1] \in Dir /\ va[2] \in Table /\ full \in SUBSET DOMAIN WEIGHT
  BY <1>0, Addresses DEF Sound, Pgdirs, WEIGHT
<1>2. r = IF NoTable(m2, g[e], va) THEN [ok |-> FALSE, mem |-> m2] ELSE [ok |-> TRUE, mem |-> n]
  BY DEF page_insert, Insert, PDX, PTX
<1> HIDE DEF m1, n, full
<1>3. /\ Sound(m1, g, H) /\ SameTables(m, g, m1, g) /\ Mapping(m1, g, e, va) = NULL
      /\ OtherMaps(m, g, m1, g, e, va)
      /\ Mapping(m, g, e, va) = NULL => m1 = m
  <2>1. \A h \in H \cap PAGE : m.ref[h] = 0
    BY <1>0 DEF InHand
  <2> QED BY <1>0, <2>1, PageRemove DEF m1
<1>4. ~OnList(m.free, p) /\ m1 \in Memory /\ FreeExact(m1, H) /\ m1.free \in Seq(PAGE)
  BY <1>0, <1>1, <1>3 DEF FreeExact, Sound, Memory, InHand
<1>5. /\ Unlink(m1.free, p) \in Seq(PAGE)
      /\ \A i, j \in DOMAIN Unlink(m1.free, p) : Unlink(m1.free, p)[i] = Unlink(m1.free, p)[j] => i = j
      /\ \A q \in PAGE : OnList(Unlink(m1.free, p), q) <=> q # p /\ OnList(m1.free, q)
      /\ ~OnList(m1.free, p) => Unlink(m1.free, p) = m1.free
  BY <1>4, ListUnlink DEF FreeExact
<1>6. /\ m2 \in Memory /\ m2.ref = m1.ref /\ m2.pd = m1.pd /\ m2.pt = m1.pt
      /\ m2.free = Unlink(m1.free, p)
  BY <1>4, <1>5 DEF Memory
<1>7. Unlink(m1.free, p) = m1.free => m2 = m1
  BY <1>4 DEF Memory
<1> HIDE DEF m2
<1>8. FreeExact(m2, {p})
  BY <1>0, <1>4, <1>5, <1>6 DEF FreeExact, InHand
<1>9. Sound(m2, g, {p}) /\ SameTables(m1, g, m2, g) /\ SameMaps(m1, g, m2, g)
  BY <1>3, <1>6, <1>8, SoundSame, SameContents
<1>10. m2.pd[g[e]][va[1]] = Pde(m2, g, e, va[1])
  BY DEF Pde
<1>11. Mapping(m, g, e, va) # NULL => Pde(m2, g, e, va[1]) # NULL
  BY <1>1, <1>3, <1>9, Lookups DEF SameTables
<1>12. CASE NoTable(m2, g[e], va)
  <2>1. Mapping(m, g, e, va) = NULL
    BY <1>10, <1>11, <1>12 DEF NoTable, PDX
  <2>2. m2 = m
    BY <1>3, <1>4, <1>5, <1>7, <2>1
  <2> QED BY <1>2, <1>12, <2>2
<1>13. CASE ~NoTable(m2, g[e], va)
  <2>1. r.ok = TRUE /\ r.mem = n
    BY <1>2, <1>13
  <2>2. /\ Sound(m3, g, {p}) /\ SameMaps(m2, g, m3, g) /\ Pde(m3, g, e, va[1]) # NULL
        /\ Plain(m3, g, p)
    <3>1. Plain(m2, g, p)
      BY <1>3, <1>9 DEF Plain, SameTables
    <3>2. CASE Pde(m2, g, e, va[1]) # NULL
      <4>1. m3 = m2
        BY <1>10, <3>2 DEF pgdir_walk, PDX
      <4> QED BY <1>9, <3>1, <3>2, <4>1 DEF SameMaps
    <3>3. CASE Pde(m2, g, e, va[1]) = NULL
      <4>1. m2.free # <<>>
        BY <1>10, <1>13, <3>3 DEF NoTable, PDX
      <4> HIDE DEF m3
      <4>2. m3 = pgdir_walk(m2, g[e], va)
        BY DEF m3
      <4>3. /\ Sound(m3, g, {p}) /\ SameMaps(m2, g, m3, g) /\ Pde(m3, g, e, va[1]) # NULL
            /\ \A f \in ENVS, k \in Dir : Pde(m3, g, f, k) # NULL =>
                 \/ Pde(m2, g, f, k) # NULL /\ Pde(m3, g, f, k).pg = Pde(m2, g, f, k).pg
                 \/ Pde(m3, g, f, k).pg \notin {p} /\ m2.ref[Pde(m3, g, f, k).pg] = 0
        BY <1>9, <3>3, <4>1, <4>2, NewTable
      <4> QED BY <3>1, <4>3 DEF Plain
    <3> QED BY <3>2, <3>3
  <2> HIDE DEF m3
  <2> DEFINE t == m3.pd[g[e]][va[1]].pg
             x == [m3 EXCEPT !.pd = n.pd]
             v == [pg |-> p, perm |-> full]
  <2>3. m3 \in Memory /\ m3.pd[g[e]][va[1]] # NULL /\ t = Pde(m3, g, e, va[1]).pg
    BY <2>2 DEF Sound, Pde
  <2> HIDE DEF t
  <2>0. CASE "SIGN" \in perm
    <3> DEFINE w == Entitle(m3.pd[g[e]][va[1]].pg, m3.pd[g[e]][va[1]].perm, full)
    <3>1. n.pd = [m3.pd EXCEPT ![g[e]] = [m3.pd[g[e]] EXCEPT ![va[1]] = w]]
      BY <2>3 DEF n, Insert, Memory
    <3>2. n.pd[g[e]][va[1]] = w
      BY <1>1, <2>3, <3>1 DEF Memory
    <3>3. w.pg = NULL /\ w \in Entry
      <4>1. m3.pd[g[e]][va[1]] \in PlainEntry
        BY <1>1, <2>3 DEF Memory, PlainPte
      <4> QED BY <1>1, <2>0, <4>1 DEF Entitle, full, PlainEntry, Entry
    <3>4. w # NULL
      BY <3>3, PmapAssumption
    <3> HIDE DEF w
    <3> QED BY <2>0, <2>1, <3>2, <3>3, <3>4 DEF Astray, PDX
  <2>4. CASE "SIGN" \notin perm
    <3>4. /\ n \in Memory /\ n.free = m3.free
          /\ RefAdded(m3, n, p) /\ v # NULL /\ PteStored(m3, n, t, va[2], v)
          /\ \E w \in PlainEntry : w.pg = t /\ w # NULL /\ PdeStored(m3, n, g[e], va[1], w)
      <4>1. t = m3.pd[g[e]][va[1]].pg /\ n = Insert(m3, g[e], va[1], p, va[2], full)
        BY DEF t, n
      <4>2. "SIGN" \notin full
        BY <2>4 DEF full
      <4> QED BY <1>1, <2>3, <4>1, <4>2, InsertFacts DEF v
    <3>5. PICK w \in PlainEntry : w.pg = t /\ w # NULL /\ PdeStored(m3, n, g[e], va[1], w)
      BY <3>4
    <3>6. /\ x \in Memory /\ x.ref = m3.ref /\ x.free = m3.free /\ x.pt = m3.pt /\ x.pd = n.pd
          /\ PdeStored(m3, x, g[e], va[1], w)
      BY <2>3, <3>4, <3>5 DEF Memory, PdeStored
    <3> HIDE DEF x
    <3>12. /\ Sound(x, g, {p}) /\ SameMaps(m3, g, x, g)
          /\ \A f \in ENVS, k \in Dir :
                /\ Pde(x, g, f, k) = NULL <=> Pde(m3, g, f, k) = NULL
                /\ Pde(m3, g, f, k) # NULL => Pde(x, g, f, k).pg = Pde(m3, g, f, k).pg
      BY <1>1, <2>2, <2>3, <3>5, <3>6, Widen
    <3>7. Plain(x, g, p) /\ Pde(x, g, e, va[1]) # NULL
      BY <1>1, <2>2, <3>12 DEF Plain
    <3>8. /\ Mapping(x, g, e, va) = NULL
          /\ \A f \in ENVS, wa \in VA : Mapping(x, g, f, wa) = Mapping(m1, g, f, wa)
      BY <1>3, <1>9, <2>2, <3>12 DEF SameMaps
    <3>9. t = x.pd[g[e]][va[1]].pg
      BY <3>5, <3>6 DEF PdeStored
    <3>10. RefAdded(x, n, p) /\ PteStored(x, n, t, va[2], v) /\ v.pg = p
      BY <3>4, <3>6 DEF RefAdded, PteStored, v
    <3>11. /\ Sound(n, g, {}) /\ Mapping(n, g, e, va) = v
           /\ OtherMaps(x, g, n, g, e, va)
      <4>1. References(n, g, p) < REFMOD
        BY <2>1
      <4> HIDE DEF v
      <4> QED BY <3>4, <3>6, <3>7, <3>8, <3>9, <3>10, <3>12, <4>1, MapPage
    <3> QED BY <1>3, <2>1, <3>8, <3>11 DEF v, full, OtherMaps, Inserted
  <2> QED BY <2>0, <2>4
<1> QED BY <1>12, <1>13
-----------------------------------------------------------------------------
(* Address spaces come and go.                                             *)

(* sys_exofork(): a new, empty directory.                                  *)
LEMMA SetupVm ==
    ASSUME NEW m, NEW g, Sound(m, g, {}), m.free # <<>>, NEW e \in ENVS, g[e] = NULL,
           NEW p, p = Head(m.free), NEW n, n = env_setup_vm(m),
           NEW h \in Pgdirs, h[e] = p, \A f \in ENVS \ {e} : h[f] = g[f]
    PROVE  Sound(n, h, {}) /\ SameTables(m, g, n, h) /\ SameMaps(m, g, n, h)
<1> DEFINE a == page_alloc(m)
<1>0. a = page_alloc(m)
  OBVIOUS
<1>1. /\ m \in Memory /\ g \in Pgdirs /\ OneUse(m, g) /\ Zeroed(m, g) /\ Counted(m, g)
  BY DEF Sound
<1> HIDE DEF a
<1>2. Sound(a, g, {} \cup {p}) /\ Unused(m, g, p) /\ p \in PAGE
  BY <1>0, PageAlloc
<1>3. m.ref[p] = 0 /\ m.pd[p] = NoEntries(Dir)
  BY <1>0, <1>2, PageAlloc
<1>4. a.ref = m.ref /\ a.pd = m.pd /\ a.pt = m.pt /\ a \in Memory
  BY <1>0, <1>2, PageAlloc
<1>5. FreeExact(a, {p})
  BY <1>2 DEF Sound
<1>6. /\ n \in Memory /\ n.pd = m.pd /\ n.pt = m.pt /\ n.free = a.free
      /\ n.ref[p] = 1 /\ \A q \in PAGE \ {p} : n.ref[q] = m.ref[q]
  <2> DEFINE ref1 == [m.ref EXCEPT ![p] = 1]
  <2>1. m.ref \in [PAGE -> 0 .. REFMOD - 1] /\ Incr(m.ref[p]) = 1
    BY <1>1, <1>3, PmapAssumption DEF Memory, Incr
  <2>2. ref1 \in [PAGE -> 0 .. REFMOD - 1] /\ ref1[p] = 1 /\ \A q \in PAGE \ {p} : ref1[q] = m.ref[q]
    BY <1>2, <2>1, PmapAssumption
  <2>3. n = [a EXCEPT !.ref = ref1]
    BY <1>0, <1>4, <2>1 DEF env_setup_vm
  <2> HIDE DEF ref1
  <2> QED BY <1>4, <2>2, <2>3 DEF Memory
<1>7. h \in Pgdirs /\ h[e] = p /\ \A f \in ENVS \ {e} : h[f] = g[f]
  OBVIOUS
<1>8. p # NULL
  BY <1>2, PmapAssumption
<1>9. ASSUME NEW f \in ENVS, NEW k \in Dir PROVE Pde(n, h, f, k) = Pde(m, g, f, k)
  <2>1. CASE f = e
    BY <1>3, <1>6, <1>7, <1>8, <2>1 DEF Pde, NoEntries
  <2>2. CASE f # e
    BY <1>6, <1>7, <2>2 DEF Pde
  <2> QED BY <2>1, <2>2
<1>10. ASSUME NEW f \in ENVS, NEW wa \in VA PROVE Mapping(n, h, f, wa) = Mapping(m, g, f, wa)
  <2>1. wa[1] \in Dir
    BY Addresses
  <2> QED BY <1>1, <1>6, <1>7, <1>9, <2>1, Lookups
<1>11. SameTables(m, g, n, h) /\ SameMaps(m, g, n, h)
  BY <1>9, <1>10 DEF SameTables, SameMaps
<1>12. OneUse(n, h)
  <2>1. \A f, k \in ENVS : h[f] # NULL /\ h[f] = h[k] => f = k
    BY <1>1, <1>2, <1>7 DEF OneUse, Unused
  <2>2. \A f, l \in ENVS, i, k \in Dir :
           Pde(n, h, f, i) # NULL /\ Pde(n, h, l, k) # NULL /\ Pde(n, h, f, i).pg = Pde(n, h, l, k).pg
           => f = l /\ i = k
    BY <1>1, <1>9 DEF OneUse
  <2>3. \A f, l \in ENVS, i \in Dir : Pde(n, h, f, i) # NULL => h[l] # Pde(n, h, f, i).pg
    BY <1>1, <1>2, <1>7, <1>9 DEF OneUse, Unused
  <2>4. \A f, l \in ENVS, va \in VA : Mapping(n, h, f, va) # NULL => h[l] # Mapping(n, h, f, va).pg
    BY <1>1, <1>2, <1>7, <1>10 DEF OneUse, Unused
  <2>5. \A f, l \in ENVS, i \in Dir, va \in VA :
           Pde(n, h, f, i) # NULL /\ Mapping(n, h, l, va) # NULL
           => Pde(n, h, f, i).pg # Mapping(n, h, l, va).pg
    BY <1>1, <1>9, <1>10 DEF OneUse
  <2> QED BY <2>1, <2>2, <2>3, <2>4, <2>5 DEF OneUse
<1>13. Zeroed(n, h)
  <2>1. ASSUME NEW q \in PAGE, \A f \in ENVS : h[f] # q PROVE n.pd[q] = NoEntries(Dir)
    <3>1. \A f \in ENVS : g[f] # q
      BY <1>7, <1>8, <2>1, PmapAssumption
    <3> QED BY <1>1, <1>6, <3>1 DEF Zeroed
  <2>2. ASSUME NEW q \in PAGE,
               \A f \in ENVS, k \in Dir : Pde(n, h, f, k) # NULL => Pde(n, h, f, k).pg # q
        PROVE  n.pt[q] = NoEntries(Table)
    BY <1>1, <1>6, <1>9, <2>2 DEF Zeroed
  <2> QED BY <2>1, <2>2 DEF Zeroed
<1>14. Counted(n, h)
  <2> SUFFICES ASSUME NEW q \in PAGE PROVE n.ref[q] = References(n, h, q)
    BY DEF Counted
  <2>1. References(n, h, q) = References(m, g, q) - One(Heads(g, e, q)) + One(Heads(h, e, q))
    BY <1>7, <1>11, DirCounts
  <2>2. m.ref[q] = References(m, g, q) /\ References(m, g, q) \in Nat
    BY <1>1, NoReferences DEF Counted
  <2>3. g[e] # q
    BY PmapAssumption
  <2> QED BY <1>3, <1>6, <1>7, <2>1, <2>2, <2>3 DEF One, Heads
<1>15. FreeExact(n, {})
  BY <1>3, <1>4, <1>5, <1>6 DEF FreeExact
<1> QED BY <1>6, <1>7, <1>11, <1>12, <1>13, <1>14, <1>15 DEF Sound
(* env_free(): an empty page table goes.                                   *)
ClearPde(m, d, i) == [m EXCEPT !.pd[d][i] = NULL]

LEMMA ClearPdeFacts ==
    ASSUME NEW m \in Memory, NEW d \in PAGE, NEW i \in Dir
    PROVE  LET n == ClearPde(m, d, i) IN
           /\ n \in Memory /\ n.ref = m.ref /\ n.free = m.free /\ n.pt = m.pt
           /\ PdeStored(m, n, d, i, NULL)
<1> DEFINE x == [m.pd EXCEPT ![d] = [m.pd[d] EXCEPT ![i] = NULL]]
           n == [m EXCEPT !.pd = x]
<1>1. m.pd \in [PAGE -> [Dir -> PlainPte]] /\ NULL \in PlainPte
  BY DEF Memory, PlainPte
<1>2. /\ x \in [PAGE -> [Dir -> PlainPte]]
      /\ x[d][i] = NULL
      /\ \A p \in PAGE, k \in Dir : p # d \/ k # i => x[p][k] = m.pd[p][k]
      /\ \A p \in PAGE \ {d} : x[p] = m.pd[p]
  BY <1>1
<1> HIDE DEF x
<1>3. n \in Memory /\ n.ref = m.ref /\ n.free = m.free /\ n.pt = m.pt /\ n.pd = x
  BY <1>2 DEF Memory
<1> QED BY <1>2, <1>3 DEF x, ClearPde, PdeStored

LEMMA ReleaseTable ==
    ASSUME NEW m, NEW g, Sound(m, g, {}), NEW e \in ENVS, NEW i \in Dir,
           Pde(m, g, e, i) # NULL, \A j \in Table : Mapping(m, g, e, <<i, j>>) = NULL,
           NEW t, t = m.pd[g[e]][i].pg,
           NEW n, n = page_decref(ClearPde(m, g[e], i), t)
    PROVE  /\ Sound(n, g, {}) /\ SameMaps(m, g, n, g)
           /\ Pde(n, g, e, i) = NULL
           /\ \A f \in ENVS, k \in Dir : f # e \/ k # i => Pde(n, g, f, k) = Pde(m, g, f, k)
<1> DEFINE c == ClearPde(m, g[e], i)
<1>1. m \in Memory /\ g \in Pgdirs /\ OneUse(m, g) /\ Zeroed(m, g) /\ Counted(m, g) /\ FreeExact(m, {})
  BY DEF Sound
<1>2. g[e] # NULL /\ g[e] \in PAGE /\ t = Pde(m, g, e, i).pg /\ t \in PAGE
  BY <1>1, Tables
<1>3. /\ c \in Memory /\ c.ref = m.ref /\ c.free = m.free /\ c.pt = m.pt
      /\ PdeStored(m, c, g[e], i, NULL)
  BY <1>1, <1>2, ClearPdeFacts
<1> HIDE DEF c
<1>4. m.ref[t] # 0
  BY <1>2, Referenced
<1>5. /\ n \in Memory /\ FreeExact(n, {}) /\ n.pd = c.pd /\ n.pt = m.pt
      /\ n.ref[t] = m.ref[t] - 1 /\ \A p \in PAGE \ {t} : n.ref[p] = m.ref[p]
  <2>1. FreeExact(c, {})
    BY <1>1, <1>3 DEF FreeExact
  <2>2. n = page_decref(c, t)
    BY DEF c
  <2>3. PICK H : H = {}
    OBVIOUS
  <2>4. c.ref[t] # 0 /\ t \notin H /\ FreeExact(c, H)
    BY <1>3, <1>4, <2>1, <2>3
  <2>5. /\ n \in Memory /\ FreeExact(n, H) /\ n.pd = c.pd /\ n.pt = c.pt
        /\ n.ref[t] = c.ref[t] - 1 /\ \A p \in PAGE \ {t} : n.ref[p] = c.ref[p]
    BY <1>2, <1>3, <2>2, <2>4, Decref
  <2> QED BY <1>3, <2>3, <2>5
<1>6. PdeStored(m, n, g[e], i, NULL)
  BY <1>3, <1>5 DEF PdeStored
<1>7. /\ Pde(n, g, e, i) = NULL
      /\ \A f \in ENVS, k \in Dir : f # e \/ k # i => Pde(n, g, f, k) = Pde(m, g, f, k)
  <2>1. Pde(n, g, e, i) = NULL
    BY <1>2, <1>6 DEF Pde, PdeStored
  <2>2. ASSUME NEW f \in ENVS, NEW k \in Dir, f # e \/ k # i PROVE Pde(n, g, f, k) = Pde(m, g, f, k)
    <3>1. g[f] # NULL => g[f] \in PAGE /\ (g[f] = g[e] => f = e)
      BY <1>1 DEF OneUse, Pgdirs
    <3> QED BY <1>6, <2>2, <3>1 DEF Pde, PdeStored
  <2> QED BY <2>1, <2>2
<1>8. ASSUME NEW f \in ENVS, NEW wa \in VA PROVE Mapping(n, g, f, wa) = Mapping(m, g, f, wa)
  <2>1. wa[1] \in Dir /\ wa[2] \in Table /\ wa = <<wa[1], wa[2]>>
    BY DEF VA
  <2>2. /\ Mapping(m, g, f, wa) = IF Pde(m, g, f, wa[1]) = NULL THEN NULL
                                  ELSE m.pt[Pde(m, g, f, wa[1]).pg][wa[2]]
        /\ Mapping(n, g, f, wa) = IF Pde(n, g, f, wa[1]) = NULL THEN NULL
                                  ELSE n.pt[Pde(n, g, f, wa[1]).pg][wa[2]]
    BY <1>1, <1>5, Lookups
  <2>3. CASE f = e /\ wa[1] = i
    <3>1. Mapping(m, g, e, <<i, wa[2]>>) = NULL
      BY <2>1
    <3>2. Mapping(m, g, f, wa) = NULL
      BY <2>1, <2>3, <3>1
    <3> QED BY <1>7, <2>2, <2>3, <3>2
  <2>4. CASE f # e \/ wa[1] # i
    BY <1>5, <1>7, <2>1, <2>2, <2>4
  <2> QED BY <2>3, <2>4
<1>9. SameMaps(m, g, n, g) /\ SameDirs(g, g)
  BY <1>8 DEF SameMaps, SameDirs
<1>10. OneUse(n, g)
  <2>1. ASSUME NEW f \in ENVS, NEW k \in Dir, Pde(n, g, f, k) # NULL PROVE Pde(n, g, f, k) = Pde(m, g, f, k)
    BY <1>7, <2>1
  <2>2. \A f, h \in ENVS : g[f] # NULL /\ g[f] = g[h] => f = h
    BY <1>1 DEF OneUse
  <2>3. \A f, h \in ENVS, k, l \in Dir :
           Pde(n, g, f, k) # NULL /\ Pde(n, g, h, l) # NULL /\ Pde(n, g, f, k).pg = Pde(n, g, h, l).pg
           => f = h /\ k = l
    BY <1>1, <2>1 DEF OneUse
  <2>4. \A f, h \in ENVS, k \in Dir : Pde(n, g, f, k) # NULL => g[h] # Pde(n, g, f, k).pg
    BY <1>1, <2>1 DEF OneUse
  <2>5. \A f, h \in ENVS, wa \in VA : Mapping(n, g, f, wa) # NULL => g[h] # Mapping(n, g, f, wa).pg
    BY <1>1, <1>8 DEF OneUse
  <2>6. \A f, h \in ENVS, k \in Dir, wa \in VA :
           Pde(n, g, f, k) # NULL /\ Mapping(n, g, h, wa) # NULL
           => Pde(n, g, f, k).pg # Mapping(n, g, h, wa).pg
    BY <1>1, <1>8, <2>1 DEF OneUse
  <2> QED BY <2>2, <2>3, <2>4, <2>5, <2>6 DEF OneUse
<1>11. m.pt[t] = NoEntries(Table)
  <2>1. ASSUME NEW j \in Table PROVE m.pt[t][j] = NULL
    <3>1. <<i, j>> \in VA /\ <<i, j>>[1] = i /\ <<i, j>>[2] = j /\ Mapping(m, g, e, <<i, j>>) = NULL
      BY DEF VA
    <3> QED BY <1>1, <1>2, <3>1, Lookups
  <2>2. m.pt[t] \in [Table -> PlainPte]
    BY <1>1, <1>2 DEF Memory
  <2> QED BY <2>1, <2>2 DEF NoEntries
<1>12. Zeroed(n, g)
  <2>1. ASSUME NEW q \in PAGE, \A f \in ENVS : g[f] # q PROVE n.pd[q] = NoEntries(Dir)
    BY <1>1, <1>2, <1>6, <2>1 DEF Zeroed, PdeStored
  <2>2. ASSUME NEW q \in PAGE,
               \A f \in ENVS, k \in Dir : Pde(n, g, f, k) # NULL => Pde(n, g, f, k).pg # q
        PROVE  n.pt[q] = NoEntries(Table)
    <3>1. CASE q = t
      BY <1>5, <1>11, <3>1
    <3>2. CASE q # t
      <4>1. \A f \in ENVS, k \in Dir : Pde(m, g, f, k) # NULL => Pde(m, g, f, k).pg # q
        BY <1>2, <1>7, <2>2, <3>2
      <4> QED BY <1>1, <1>5, <4>1 DEF Zeroed
    <3> QED BY <3>1, <3>2
  <2> QED BY <2>1, <2>2 DEF Zeroed
<1>13. Counted(n, g)
  <2> SUFFICES ASSUME NEW q \in PAGE PROVE n.ref[q] = References(n, g, q)
    BY DEF Counted
  <2>1. References(n, g, q) = References(m, g, q) - One(Points(Pde(m, g, e, i), q))
                                                 + One(Points(Pde(n, g, e, i), q))
    BY <1>7, <1>9, TableCounts
  <2>2. m.ref[q] = References(m, g, q) /\ References(m, g, q) \in Nat
    BY <1>1, NoReferences DEF Counted
  <2> QED BY <1>2, <1>5, <1>7, <2>1, <2>2 DEF One, Points
<1> QED BY <1>1, <1>5, <1>7, <1>9, <1>10, <1>12, <1>13 DEF Sound
(* env_free(): the directory goes, with no page table left in it.          *)
LEMMA ReleaseDirectory ==
    ASSUME NEW m, NEW g, Sound(m, g, {}), NEW e \in ENVS, g[e] # NULL,
           \A i \in Dir : Pde(m, g, e, i) = NULL,
           NEW n, n = page_decref(m, g[e]),
           NEW h \in Pgdirs, h[e] = NULL, \A f \in ENVS \ {e} : h[f] = g[f]
    PROVE  Sound(n, h, {}) /\ SameTables(m, g, n, h) /\ SameMaps(m, g, n, h)
<1>1. m \in Memory /\ g \in Pgdirs /\ OneUse(m, g) /\ Zeroed(m, g) /\ Counted(m, g) /\ FreeExact(m, {})
  BY DEF Sound
<1> DEFINE d == g[e]
<1>2. d # NULL /\ d \in PAGE /\ d = g[e]
  BY <1>1 DEF Pgdirs
<1>3. m.ref[d] # 0
  BY <1>2, Referenced
<1> HIDE DEF d
<1>4. /\ n \in Memory /\ FreeExact(n, {}) /\ n.pd = m.pd /\ n.pt = m.pt
      /\ n.ref[d] = m.ref[d] - 1 /\ \A p \in PAGE \ {d} : n.ref[p] = m.ref[p]
  <2>1. PICK H : H = {}
    OBVIOUS
  <2>2. d \notin H /\ FreeExact(m, H) /\ n = page_decref(m, d)
    BY <1>1, <1>2, <2>1
  <2>3. /\ n \in Memory /\ FreeExact(n, H) /\ n.pd = m.pd /\ n.pt = m.pt
        /\ n.ref[d] = m.ref[d] - 1 /\ \A p \in PAGE \ {d} : n.ref[p] = m.ref[p]
    BY <1>1, <1>2, <1>3, <2>2, Decref
  <2> QED BY <2>1, <2>3
<1>5. ASSUME NEW f \in ENVS, NEW k \in Dir PROVE Pde(n, h, f, k) = Pde(m, g, f, k)
  <2>1. CASE f = e
    BY <2>1 DEF Pde
  <2>2. CASE f # e
    BY <1>4, <2>2 DEF Pde
  <2> QED BY <2>1, <2>2
<1>6. ASSUME NEW f \in ENVS, NEW wa \in VA PROVE Mapping(n, h, f, wa) = Mapping(m, g, f, wa)
  <2>1. wa[1] \in Dir
    BY Addresses
  <2> QED BY <1>1, <1>4, <1>5, <2>1, Lookups
<1>7. SameTables(m, g, n, h) /\ SameMaps(m, g, n, h)
  BY <1>5, <1>6 DEF SameTables, SameMaps
<1>8. OneUse(n, h)
  <2>1. \A f, k \in ENVS : h[f] # NULL /\ h[f] = h[k] => f = k
    BY <1>1 DEF OneUse
  <2>2. \A f, l \in ENVS, i, k \in Dir :
           Pde(n, h, f, i) # NULL /\ Pde(n, h, l, k) # NULL /\ Pde(n, h, f, i).pg = Pde(n, h, l, k).pg
           => f = l /\ i = k
    BY <1>1, <1>5 DEF OneUse
  <2>3. ASSUME NEW f \in ENVS, NEW l \in ENVS, NEW i \in Dir, Pde(n, h, f, i) # NULL
        PROVE  h[l] # Pde(n, h, f, i).pg
    <3>1. Pde(m, g, f, i) # NULL /\ Pde(n, h, f, i) = Pde(m, g, f, i)
      BY <1>5, <2>3
    <3>2. Pde(m, g, f, i).pg \in PAGE /\ g[l] # Pde(m, g, f, i).pg
      BY <1>1, <3>1, Tables DEF OneUse
    <3> QED BY <3>1, <3>2, PmapAssumption
  <2>4. ASSUME NEW f \in ENVS, NEW l \in ENVS, NEW va \in VA, Mapping(n, h, f, va) # NULL
        PROVE  h[l] # Mapping(n, h, f, va).pg
    <3>1. Mapping(m, g, f, va) # NULL /\ Mapping(n, h, f, va) = Mapping(m, g, f, va)
      BY <1>6, <2>4
    <3>2. Mapping(m, g, f, va).pg \in PAGE /\ g[l] # Mapping(m, g, f, va).pg
      BY <1>1, <3>1, Lookups DEF OneUse
    <3> QED BY <3>1, <3>2, PmapAssumption
  <2>5. \A f, l \in ENVS, i \in Dir, va \in VA :
           Pde(n, h, f, i) # NULL /\ Mapping(n, h, l, va) # NULL
           => Pde(n, h, f, i).pg # Mapping(n, h, l, va).pg
    BY <1>1, <1>5, <1>6 DEF OneUse
  <2> QED BY <2>1, <2>2, <2>3, <2>4, <2>5 DEF OneUse
<1>9. m.pd[d] = NoEntries(Dir)
  <2>1. m.pd[d] \in [Dir -> PlainPte] /\ \A i \in Dir : m.pd[d][i] = NULL
    BY <1>1, <1>2 DEF Memory, Pde
  <2> QED BY <2>1 DEF NoEntries
<1>10. Zeroed(n, h)
  <2>1. ASSUME NEW q \in PAGE, \A f \in ENVS : h[f] # q PROVE n.pd[q] = NoEntries(Dir)
    <3>1. CASE q = d
      BY <1>4, <1>9, <3>1
    <3>2. CASE q # d
      <4>1. \A f \in ENVS : g[f] # q
        BY <1>2, <2>1, <3>2
      <4> QED BY <1>1, <1>4, <4>1 DEF Zeroed
    <3> QED BY <3>1, <3>2
  <2>2. ASSUME NEW q \in PAGE,
               \A f \in ENVS, k \in Dir : Pde(n, h, f, k) # NULL => Pde(n, h, f, k).pg # q
        PROVE  n.pt[q] = NoEntries(Table)
    BY <1>1, <1>4, <1>5, <2>2 DEF Zeroed
  <2> QED BY <2>1, <2>2 DEF Zeroed
<1>11. Counted(n, h)
  <2> SUFFICES ASSUME NEW q \in PAGE PROVE n.ref[q] = References(n, h, q)
    BY DEF Counted
  <2>1. References(n, h, q) = References(m, g, q) - One(Heads(g, e, q)) + One(Heads(h, e, q))
    BY <1>7, DirCounts
  <2>2. m.ref[q] = References(m, g, q) /\ References(m, g, q) \in Nat
    BY <1>1, NoReferences DEF Counted
  <2>3. h[e] # q
    BY PmapAssumption
  <2> QED BY <1>2, <1>4, <2>1, <2>2, <2>3 DEF One, Heads
<1> QED BY <1>4, <1>7, <1>8, <1>10, <1>11 DEF Sound
-----------------------------------------------------------------------------
(* The two ways system calls insert pages.                                 *)

(* sys_page_alloc(): a new page, which goes back when it cannot be mapped. *)
Sane(perm, m, dir, va) == "SIGN" \notin perm \/ ~Astray(m, dir, va)

AfterAlloc(r, p) == IF r.ok THEN r.mem ELSE page_free(r.mem, p)

Taken(m, p, a) == m.free # <<>> /\ p = Head(m.free) /\ a = page_alloc(m)

LEMMA AllocInsert ==
    ASSUME NEW m, NEW g, Sound(m, g, {}), NEW p, NEW a, Taken(m, p, a),
           NEW e \in ENVS, g[e] # NULL, NEW va \in VA, NEW perm \in SUBSET DOMAIN WEIGHT,
           NEW r, r = page_insert(a, g[e], p, va, perm),
           NEW n, n = AfterAlloc(r, p),
           References(n, g, p) < REFMOD, r.ok => Sane(perm, r.mem, g[e], va)
    PROVE  /\ Sound(n, g, {}) /\ Unused(m, g, p) /\ p \in PAGE /\ (~r.ok => n = m)
           /\ r.ok => Inserted(m, g, e, va, p, perm, n)
<1>1. r = page_insert(a, g[e], p, va, perm)
  OBVIOUS
<1>2. m.free # <<>> /\ p = Head(m.free) /\ a = page_alloc(m)
  BY DEF Taken
<1>3. Sound(a, g, {} \cup {p}) /\ Unused(m, g, p) /\ p \in PAGE /\ m.ref[p] = 0
  BY <1>2, PageAlloc
<1>4. m.ref[p] = 0
  BY <1>3
<1>5. /\ a.ref = m.ref /\ a.pd = m.pd /\ a.pt = m.pt /\ a.free = Tail(m.free) /\ a \in Memory
      /\ m.free # <<>> /\ p = Head(m.free)
  BY <1>3, PageAlloc DEF Taken
<1>6. Sound(a, g, InHand(a, p))
  BY <1>3, <1>4, <1>5 DEF InHand
<1>7. SameTables(m, g, a, g) /\ SameMaps(m, g, a, g)
  BY <1>5, SameContents
<1>8. Plain(a, g, p)
  BY <1>3, <1>7 DEF Plain, Unused, SameTables
<1>9. r.ok => References(r.mem, g, p) < REFMOD
  BY DEF AfterAlloc
<1>10. /\ r.ok \in BOOLEAN /\ (~r.ok => r.mem = a)
       /\ r.ok => Inserted(a, g, e, va, p, perm, r.mem)
  <2>1. p \in PAGE /\ r = page_insert(a, g[e], p, va, perm)
    BY <1>1, <1>3
  <2> QED BY <1>6, <1>8, <1>9, <2>1, PageInsert DEF Sane
<1>11. CASE r.ok
  <2>1. n = r.mem /\ Inserted(a, g, e, va, p, perm, n)
    BY <1>10, <1>11 DEF AfterAlloc
  <2>2. Inserted(m, g, e, va, p, perm, n)
    BY <1>7, <2>1 DEF Inserted, OtherMaps, SameMaps
  <2> QED BY <1>3, <1>11, <2>1, <2>2 DEF Inserted
<1>12. CASE ~r.ok
  <2>1. m.free \in Seq(PAGE) /\ m \in Memory
    BY DEF Sound, Memory
  <2>2. <<p>> \o Tail(m.free) = m.free
    BY <1>5, <2>1
  <2>3. n = page_free(a, p)
    BY <1>10, <1>12 DEF AfterAlloc
  <2>4. n.ref = m.ref /\ n.free = m.free /\ n.pd = m.pd /\ n.pt = m.pt
    BY <1>5, <2>2, <2>3 DEF page_free, Memory
  <2>5. n \in Memory
    BY <1>5, <2>1, <2>2, <2>3 DEF page_free, Memory
  <2>6. n = m
    BY <2>1, <2>4, <2>5, SameMemory
  <2> QED BY <1>3, <1>12, <2>6
<1> QED BY <1>11, <1>12

(* Share(): a page that is mapped already.                                 *)
LEMMA MapInsert ==
    ASSUME NEW m, NEW g, Sound(m, g, {}), NEW s \in ENVS, NEW sva \in VA,
           NEW pte, pte = Mapping(m, g, s, sva), pte # NULL,
           NEW e \in ENVS, g[e] # NULL, NEW va \in VA, NEW perm \in SUBSET DOMAIN WEIGHT,
           NEW r, r = page_insert(m, g[e], pte.pg, va, perm),
           r.ok => References(r.mem, g, pte.pg) < REFMOD /\ Sane(perm, r.mem, g[e], va)
    PROVE  /\ Sound(r.mem, g, {}) /\ r.ok \in BOOLEAN /\ (~r.ok => r.mem = m)
           /\ r.ok => Inserted(m, g, e, va, pte.pg, perm, r.mem)
<1> DEFINE p == pte.pg
<1>1. m \in Memory /\ g \in Pgdirs /\ OneUse(m, g)
  BY DEF Sound
<1>2. p \in PAGE /\ m.ref[p] # 0
  BY <1>1, Lookups, Referenced
<1>3. Plain(m, g, p)
  BY <1>1 DEF OneUse, Plain
<1>4. p = pte.pg
  OBVIOUS
<1> HIDE DEF p
<1>6. Sound(m, g, InHand(m, p))
  BY <1>2 DEF InHand
<1>7. /\ r = page_insert(m, g[e], p, va, perm)
      /\ r.ok => References(r.mem, g, p) < REFMOD /\ Sane(perm, r.mem, g[e], va)
  BY <1>4
<1>8. /\ r.ok \in BOOLEAN /\ (~r.ok => r.mem = m)
      /\ r.ok => Inserted(m, g, e, va, p, perm, r.mem)
  BY <1>2, <1>3, <1>6, <1>7, PageInsert DEF Sane
<1> QED BY <1>4, <1>8 DEF Inserted
-----------------------------------------------------------------------------
(* The inductive invariant.  Besides the memory: a CPU runs a live         *)
(* environment and no other CPU runs the same; env_free() has emptied what *)
(* lies before i and j, and nobody else has the address space it frees.    *)
Cpus(g, cur) ==
    /\ \A c \in CPU : cur[c] # NULL => g[cur[c]] # NULL
    /\ \A c, d \in CPU : cur[c] # NULL /\ cur[c] = cur[d] => c = d

Teardown(m, g, cur, f) ==
    f # NULL =>
       /\ g[f.env] # NULL /\ cur[f.cpu] # NULL
       /\ \A c \in CPU : cur[c] = f.env => c = f.cpu
       /\ \A k \in Dir : k < f.i => Pde(m, g, f.env, k) = NULL
       /\ \A l \in Table : l < f.j => /\ f.i \in Dir /\ Pde(m, g, f.env, f.i) # NULL
                                      /\ Mapping(m, g, f.env, <<f.i, l>>) = NULL

Others ==
    /\ env_parent \in [ENVS -> ENVS \cup {NULL}]
    /\ curenv \in [CPU -> ENVS \cup {NULL}]
    /\ freeing \in {NULL} \cup Freeing
    /\ ret \in {"OK", "E_INVAL", "E_NO_MEM"} /\ (freeing # NULL => ret = "OK")

IInv ==
    /\ Others
    /\ Sound(Mem, env_pgdir, {})
    /\ Cpus(env_pgdir, curenv)
    /\ Teardown(Mem, env_pgdir, curenv, freeing)

(* No more pointers to a page than pp_ref can count, and no negative       *)
(* permission in an entry, or none that programs could ask for.            *)
Tame == NoWrap /\ (NoneAstray \/ \A perm \in PERMS : "SIGN" \notin perm)

(* page_init(): every page but the kernel's is on the list, once.          *)
LEMMA PageInit ==
    ASSUME NEW S, IsFiniteSet(S), NEW list \in SetToSeqs(S)
    PROVE  /\ list \in Seq(S)
           /\ \A i, j \in DOMAIN list : list[i] = list[j] => i = j
           /\ \A q : OnList(list, q) <=> q \in S
<1> DEFINE n == Cardinality(S)
           D == 1 .. n
<1>1. list \in [D -> S] /\ \A i, j \in D : i # j => list[i] # list[j]
  BY DEF SetToSeqs
<1>2. n \in Nat
  BY FS_CardinalityType
<1>3. Cardinality(D) = n
  <2>1. Cardinality(1 .. n) = IF 1 > n THEN 0 ELSE n - 1 + 1
    BY <1>2, FS_Interval
  <2> QED BY <1>2, <2>1
<1> HIDE DEF n
<1>4. list \in Injection(D, S)
  BY <1>1 DEF Injection, IsInjective
<1>5. list \in Surjection(D, S)
  <2>1. Cardinality(D) = Cardinality(S)
    BY <1>3 DEF n
  <2> HIDE DEF D
  <2> QED BY <1>4, <2>1, FS_Injection
<1>6. list \in Seq(S) /\ DOMAIN list = D
  BY <1>1, <1>2
<1>7. \A q \in S : \E i \in D : list[i] = q
  BY <1>5 DEF Surjection
<1> QED BY <1>1, <1>6, <1>7 DEF OnList

LEMMA InitInvariant ==
    ASSUME Init
    PROVE  IInv
<1> DEFINE m == Mem
           g == env_pgdir
           none == [e \in ENVS |-> NULL]
<1>1. PICK root \in PAGE :
        /\ page_free_list \in SetToSeqs(PAGE \ {root})
        /\ pp_ref = [p \in PAGE |-> IF p = root THEN 1 ELSE 0]
        /\ pd = [p \in PAGE |-> NoEntries(Dir)]
        /\ pt = [p \in PAGE |-> NoEntries(Table)]
        /\ env_pgdir = [e \in ENVS |-> IF e = FIRST THEN root ELSE NULL]
        /\ env_parent = [e \in ENVS |-> NULL]
        /\ curenv = [c \in CPU |-> NULL]
        /\ freeing = NULL
        /\ ret = "OK"
  BY DEF Init
<1>2. IsFiniteSet(PAGE \ {root})
  BY PmapAssumption, FS_Subset
<1>3. /\ page_free_list \in Seq(PAGE \ {root})
      /\ \A i, j \in DOMAIN page_free_list : page_free_list[i] = page_free_list[j] => i = j
      /\ \A q : OnList(page_free_list, q) <=> q \in PAGE \ {root}
  BY <1>1, <1>2, PageInit
<1>4. m.ref = pp_ref /\ m.free = page_free_list /\ m.pd = pd /\ m.pt = pt /\ m \in Memory
  <2>1. m.ref = pp_ref /\ m.free = page_free_list /\ m.pd = pd /\ m.pt = pt
    BY DEF Mem
  <2>2. page_free_list \in Seq(PAGE)
    BY <1>3
  <2>3. NoEntries(Dir) \in [Dir -> PlainPte] /\ NoEntries(Table) \in [Table -> PlainPte]
    BY DEF NoEntries, PlainPte
  <2>4. pd \in [PAGE -> [Dir -> PlainPte]] /\ pt \in [PAGE -> [Table -> PlainPte]]
    BY <1>1, <2>3
  <2>5. pp_ref \in [PAGE -> 0 .. REFMOD - 1]
    BY <1>1, PmapAssumption
  <2> QED BY <2>1, <2>2, <2>4, <2>5 DEF Memory, Mem
<1>5. /\ g \in Pgdirs /\ g[FIRST] = root /\ root # NULL /\ FIRST \in ENVS
      /\ \A e \in ENVS \ {FIRST} : g[e] = NULL
  BY <1>1, PmapAssumption DEF Pgdirs
<1>6. /\ \A q \in PAGE : m.pd[q] = NoEntries(Dir) /\ m.pt[q] = NoEntries(Table)
      /\ m.ref[root] = 1 /\ \A q \in PAGE \ {root} : m.ref[q] = 0
  BY <1>1, <1>4
<1>7. none \in Pgdirs /\ \A e \in ENVS : none[e] = NULL
  BY DEF Pgdirs
<1> HIDE DEF m, g, none
<1>8. ASSUME NEW e \in ENVS, NEW i \in Dir PROVE Pde(m, g, e, i) = NULL /\ Pde(m, none, e, i) = NULL
  BY <1>5, <1>6, <1>7 DEF Pde, NoEntries, Pgdirs
<1>9. ASSUME NEW e \in ENVS, NEW va \in VA
      PROVE  Mapping(m, g, e, va) = NULL /\ Mapping(m, none, e, va) = NULL
  <2>1. va[1] \in Dir
    BY Addresses
  <2> QED BY <1>4, <1>5, <1>7, <1>8, <2>1, Lookups
<1>10. OneUse(m, g)
  BY <1>5, <1>8, <1>9 DEF OneUse
<1>11. Zeroed(m, g)
  BY <1>6 DEF Zeroed
<1>12. Counted(m, g)
  <2> SUFFICES ASSUME NEW q \in PAGE PROVE m.ref[q] = References(m, g, q)
    BY DEF Counted
  <2>1. SameTables(m, none, m, g) /\ SameMaps(m, none, m, g)
    BY <1>8, <1>9 DEF SameTables, SameMaps
  <2>2. \A e \in ENVS \ {FIRST} : g[e] = none[e]
    BY <1>5, <1>7
  <2>3. References(m, g, q) = References(m, none, q) - One(Heads(none, FIRST, q))
                                                     + One(Heads(g, FIRST, q))
    BY <1>5, <2>1, <2>2, DirCounts
  <2>4. References(m, none, q) = 0
    <3>1. q # NULL
      BY PmapAssumption
    <3> QED BY <1>7, <1>8, <1>9, <3>1, NoReferences
  <2> QED BY <1>5, <1>6, <1>7, <2>3, <2>4, PmapAssumption DEF One, Heads
<1>13. FreeExact(m, {})
  BY <1>3, <1>4, <1>6 DEF FreeExact
<1>14. Sound(Mem, env_pgdir, {})
  BY <1>4, <1>5, <1>10, <1>11, <1>12, <1>13 DEF Sound, m, g
<1>15. Others
  BY <1>1 DEF Others
<1> QED BY <1>1, <1>14, <1>15 DEF IInv, Cpus, Teardown
-----------------------------------------------------------------------------
(* Every step keeps the invariant.                                         *)

LEMMA Committed ==
    ASSUME NEW n \in Memory, Commit(n)
    PROVE  Mem' = n
<1>1. Mem' = [ref |-> n.ref, free |-> n.free, pd |-> n.pd, pt |-> n.pt]
  BY DEF Mem, Commit
<1>2. \A x \in Memory : x = [ref |-> x.ref, free |-> x.free, pd |-> x.pd, pt |-> x.pt]
  BY DEF Memory
<1> QED BY <1>1, <1>2

(* What the invariant says of the memory where no teardown is under way.   *)
LEMMA Settled ==
    ASSUME NEW m, NEW g, NEW cur, NEW f, f = NULL
    PROVE  Teardown(m, g, cur, f)
BY DEF Teardown

(* A system call that changed at most one mapping, of environment e.       *)
LEMMA Changed ==
    ASSUME IInv, freeing = NULL, freeing' = NULL, NEW c \in CPU, NEW e \in ENVS, NEW va \in VA,
           NEW n, Commit(n), NEW r \in {"OK", "E_INVAL", "E_NO_MEM"}, Return(r),
           UNCHANGED envvars, Sound(n, env_pgdir, {}), OtherMaps(Mem, env_pgdir, n, env_pgdir, e, va)
    PROVE  IInv'
<1>1. n \in Memory
  BY DEF Sound
<1>2. Mem' = n /\ env_pgdir' = env_pgdir /\ env_parent' = env_parent /\ curenv' = curenv
  BY <1>1, Committed DEF envvars, Return
<1>3. Sound(Mem', env_pgdir', {})
  BY <1>2
<1>4. Cpus(env_pgdir', curenv')
  BY <1>2 DEF IInv
<1>5. Teardown(Mem', env_pgdir', curenv', freeing')
  BY Settled
<1>6. Others'
  BY <1>2 DEF IInv, Others, Return
<1> QED BY <1>3, <1>4, <1>5, <1>6 DEF IInv

(* One that changed no mapping.                                            *)
LEMMA Unchanged ==
    ASSUME IInv, freeing = NULL, freeing' = NULL, NEW c \in CPU,
           NEW r \in {"OK", "E_INVAL", "E_NO_MEM"}, Return(r),
           Sound(Mem', env_pgdir', {}), SameMaps(Mem, env_pgdir, Mem', env_pgdir'),
           \A e \in ENVS : env_pgdir[e] # NULL => env_pgdir'[e] # NULL,
           env_parent' \in [ENVS -> ENVS \cup {NULL}]
    PROVE  IInv'
<1>1. curenv \in [CPU -> ENVS \cup {NULL}]
  BY DEF IInv, Others
<1>2. curenv' = curenv
  BY DEF Return
<1>3. Cpus(env_pgdir', curenv')
  BY <1>1, <1>2 DEF IInv, Cpus
<1>4. Teardown(Mem', env_pgdir', curenv', freeing')
  BY Settled
<1>5. Others'
  BY <1>2 DEF IInv, Others, Return
<1> QED BY <1>3, <1>4, <1>5 DEF IInv
(* A read-only page stays one.                                             *)
MappedIn(m, g, p) == \E e \in ENVS, va \in VA : Points(Mapping(m, g, e, va), p)

WritableIn(m, g, p) ==
    \E e \in ENVS, va \in VA : Points(Mapping(m, g, e, va), p) /\ "W" \in Mapping(m, g, e, va).perm

NoGain(m, g, n, h) ==
    \A p \in PAGE : MappedIn(m, g, p) /\ ~WritableIn(m, g, p) => ~WritableIn(n, h, p)

FailsCleanly == ret' # "OK" => UNCHANGED <<memvars, envvars>>

LEMMA FewerMaps ==
    ASSUME NEW m, NEW g, NEW n, NEW h,
           \A e \in ENVS, va \in VA : Mapping(n, h, e, va) \in {NULL, Mapping(m, g, e, va)}
    PROVE  NoGain(m, g, n, h)
BY DEF NoGain, WritableIn, Points

LEMMA SameMapsNoGain ==
    ASSUME NEW m, NEW g, NEW n, NEW h, SameMaps(m, g, n, h)
    PROVE  NoGain(m, g, n, h)
BY FewerMaps DEF SameMaps

LEMMA Fits ==
    ASSUME Tame', NEW n, Commit(n), env_pgdir' = env_pgdir
    PROVE  \A p \in PAGE : References(n, env_pgdir, p) < REFMOD
<1> SUFFICES ASSUME NEW p \in PAGE PROVE References(n, env_pgdir, p) < REFMOD
  OBVIOUS
<1>1. n.pd = Mem'.pd /\ n.pt = Mem'.pt
  BY DEF Commit, Mem
<1>2. PICK x : x = Mem'
  OBVIOUS
<1>3. SameTables(x, env_pgdir, n, env_pgdir) /\ SameMaps(x, env_pgdir, n, env_pgdir)
  BY <1>1, <1>2, SameContents
<1>4. References(n, env_pgdir, p) = References(x, env_pgdir, p)
  BY <1>3, SameCounts DEF SameDirs
<1>5. References(Mem', env_pgdir', p) < REFMOD
  BY DEF Tame, NoWrap
<1> QED BY <1>2, <1>4, <1>5

LEMMA FailKeeps ==
    ASSUME IInv, freeing = NULL, freeing' = NULL, NEW c \in CPU,
           NEW r \in {"OK", "E_INVAL", "E_NO_MEM"}, Fail(r)
    PROVE  IInv' /\ NoGain(Mem, env_pgdir, Mem', env_pgdir')
<1>1. Mem' = Mem /\ env_pgdir' = env_pgdir /\ env_parent' = env_parent /\ Return(r)
  BY DEF Fail, Mem, memvars, envvars
<1>2. Sound(Mem', env_pgdir', {}) /\ SameMaps(Mem, env_pgdir, Mem', env_pgdir')
  BY <1>1 DEF IInv, SameMaps
<1>3. env_parent' \in [ENVS -> ENVS \cup {NULL}]
  BY <1>1 DEF IInv, Others
<1> QED BY <1>1, <1>2, <1>3, Unchanged, SameMapsNoGain

LEMMA Typed ==
    ASSUME IInv
    PROVE  /\ Mem \in Memory /\ Mem.ref = pp_ref /\ Mem.free = page_free_list /\ Mem.pd = pd /\ Mem.pt = pt
           /\ page_free_list \in Seq(PAGE) /\ env_pgdir \in Pgdirs
           /\ curenv \in [CPU -> ENVS \cup {NULL}] /\ env_parent \in [ENVS -> ENVS \cup {NULL}]
<1>1. Mem \in Memory /\ env_pgdir \in Pgdirs
  BY DEF IInv, Sound
<1>2. Mem.ref = pp_ref /\ Mem.free = page_free_list /\ Mem.pd = pd /\ Mem.pt = pt
  BY DEF Mem
<1>3. page_free_list \in Seq(PAGE)
  BY <1>1, <1>2 DEF Memory
<1> QED BY <1>1, <1>2, <1>3 DEF IInv, Others

(* No walk strays, and no step leads one astray.                           *)
LEMMA NotAstray ==
    ASSUME IInv, NEW d \in PAGE, NEW va \in VA
    PROVE  ~Astray(Mem, d, va)
<1>1. Mem.pd \in [PAGE -> [Dir -> PlainPte]] /\ va[1] \in Dir
  BY Typed, Addresses DEF Memory
<1>2. Mem.pd[d][va[1]] \in PlainPte
  BY <1>1
<1>3. Mem.pd[d][va[1]] # NULL => Mem.pd[d][va[1]].pg \in PAGE
  BY <1>2 DEF PlainPte, PlainEntry
<1> QED BY <1>3, PmapAssumption DEF Astray, PDX

LEMMA StaysSane ==
    ASSUME Tame', NEW n, Commit(n), NEW perm \in PERMS, NEW d \in PAGE, NEW va \in VA
    PROVE  Sane(perm, n, d, va)
<1>1. CASE \A x \in PERMS : "SIGN" \notin x
  BY <1>1 DEF Sane
<1>2. CASE NoneAstray'
  <2>1. pd' = n.pd /\ va[1] \in Dir
    BY Addresses DEF Commit
  <2> QED BY <1>2, <2>1 DEF NoneAstray, Sane, Astray, PDX
<1> QED BY <1>1, <1>2 DEF Tame

LEMMA PageAllocKeeps ==
    ASSUME IInv, Tame', freeing = NULL, freeing' = NULL, NEW c \in CPU, NEW e \in ENVS, NEW va \in VA,
           NEW perm \in PERMS, sys_page_alloc(c, e, va, perm)
    PROVE  IInv' /\ NoGain(Mem, env_pgdir, Mem', env_pgdir') /\ FailsCleanly
<1>1. env_pgdir[e] # NULL /\ perm \in SUBSET DOMAIN WEIGHT /\ env_pgdir[e] \in PAGE
  BY Typed, PmapAssumption DEF sys_page_alloc, MayChange, Live, Pgdirs
<1>4. ~Astray(Mem, env_pgdir[e], va)
  BY <1>1, NotAstray
<1>2. CASE Fail("E_INVAL") \/ Fail("E_NO_MEM")
  BY <1>2, FailKeeps DEF Fail, FailsCleanly
<1>3. CASE ~(Fail("E_INVAL") \/ Fail("E_NO_MEM"))
  <2> DEFINE p == Head(page_free_list)
             a == page_alloc(Mem)
             r == page_insert(a, env_pgdir[e], p, va, perm)
             n == AfterAlloc(r, p)
             ans == IF r.ok THEN "OK" ELSE "E_NO_MEM"
  <2>1. /\ page_free_list # <<>> /\ Commit(n) /\ Return(ans) /\ UNCHANGED envvars
    BY <1>3, <1>4 DEF sys_page_alloc, AfterAlloc
  <2>2. Taken(Mem, p, a) /\ r = page_insert(a, env_pgdir[e], p, va, perm) /\ n = AfterAlloc(r, p)
    BY <2>1 DEF Taken, Mem
  <2>3. ans \in {"OK", "E_INVAL", "E_NO_MEM"}
    OBVIOUS
  <2>4. p \in PAGE /\ Sound(Mem, env_pgdir, {})
    BY <2>1, Typed DEF IInv
  <2>5. ret' # "OK" => ~r.ok
    BY <2>1 DEF Return
  <2> HIDE DEF p, a, r, n, ans
  <2>6. References(n, env_pgdir, p) < REFMOD
    BY <2>1, <2>4, Fits DEF envvars
  <2>13. r.ok => Sane(perm, r.mem, env_pgdir[e], va)
    <3>1. r.ok => Commit(r.mem)
      BY <2>1, <2>2 DEF AfterAlloc
    <3> QED BY <1>1, <3>1, StaysSane
  <2>7. /\ Sound(n, env_pgdir, {}) /\ Unused(Mem, env_pgdir, p) /\ (~r.ok => n = Mem)
        /\ r.ok => Inserted(Mem, env_pgdir, e, va, p, perm, n)
    BY <1>1, <2>2, <2>4, <2>6, <2>13, AllocInsert
  <2>8. OtherMaps(Mem, env_pgdir, n, env_pgdir, e, va)
    BY <2>7 DEF Inserted, OtherMaps
  <2>9. IInv'
    BY <2>1, <2>3, <2>7, <2>8, Changed
  <2>10. Mem' = n /\ env_pgdir' = env_pgdir
    BY <2>1, <2>7, Committed DEF Sound, envvars
  <2>11. NoGain(Mem, env_pgdir, n, env_pgdir)
    <3> SUFFICES ASSUME NEW q \in PAGE, MappedIn(Mem, env_pgdir, q), WritableIn(n, env_pgdir, q)
                 PROVE  WritableIn(Mem, env_pgdir, q)
      BY DEF NoGain
    <3>1. q # p
      BY <2>7 DEF MappedIn, Points, Unused
    <3>2. PICK f \in ENVS, wa \in VA : /\ Points(Mapping(n, env_pgdir, f, wa), q)
                                       /\ "W" \in Mapping(n, env_pgdir, f, wa).perm
      BY DEF WritableIn
    <3>3. Mapping(n, env_pgdir, f, wa) = Mapping(Mem, env_pgdir, f, wa)
      <4>1. r.ok => Mapping(n, env_pgdir, e, va).pg = p
        BY <2>7 DEF Inserted
      <4> QED BY <2>7, <2>8, <3>1, <3>2, <4>1 DEF OtherMaps, Points
    <3> QED BY <3>2, <3>3 DEF WritableIn
  <2>12. FailsCleanly
    BY <2>1, <2>5, <2>7 DEF FailsCleanly, Commit, Mem, memvars
  <2> QED BY <2>9, <2>10, <2>11, <2>12
<1> QED BY <1>2, <1>3
LEMMA ShareKeeps ==
    ASSUME IInv, Tame', freeing = NULL, freeing' = NULL, NEW c \in CPU, NEW s \in ENVS, NEW sva \in VA,
           NEW d \in ENVS, NEW dva \in VA, NEW perm \in PERMS,
           env_pgdir[s] # NULL, env_pgdir[d] # NULL, Share(s, sva, d, dva, perm)
    PROVE  IInv' /\ NoGain(Mem, env_pgdir, Mem', env_pgdir') /\ FailsCleanly
<1> DEFINE pte == Mapping(Mem, env_pgdir, s, sva)
           r == page_insert(Mem, env_pgdir[d], pte.pg, dva, perm)
           ans == IF r.ok THEN "OK" ELSE "E_NO_MEM"
<1>1. pte = page_lookup(Mem, env_pgdir[s], sva) /\ perm \in SUBSET DOMAIN WEIGHT
  BY PmapAssumption DEF Mapping
<1>4. env_pgdir[d] \in PAGE /\ ~Astray(Mem, env_pgdir[s], sva) /\ ~Astray(Mem, env_pgdir[d], dva)
  <2>1. env_pgdir[s] \in PAGE /\ env_pgdir[d] \in PAGE
    BY Typed DEF Pgdirs
  <2> QED BY <2>1, NotAstray
<1>2. CASE ~MayShare(pte, perm)
  <2>1. Fail("E_INVAL")
    BY <1>1, <1>2, <1>4 DEF Share
  <2> QED BY <2>1, FailKeeps DEF Fail, FailsCleanly
<1>3. CASE MayShare(pte, perm)
  <2>1. /\ Commit(r.mem) /\ Return(ans) /\ UNCHANGED envvars
    BY <1>1, <1>3, <1>4 DEF Share
  <2>2. ans \in {"OK", "E_INVAL", "E_NO_MEM"} /\ pte = Mapping(Mem, env_pgdir, s, sva)
        /\ r = page_insert(Mem, env_pgdir[d], pte.pg, dva, perm)
    OBVIOUS
  <2>3. pte # NULL /\ ("W" \in perm => "W" \in pte.perm)
    BY <1>3 DEF MayShare
  <2>4. pte.pg \in PAGE /\ Sound(Mem, env_pgdir, {})
    BY <2>3, Typed, Lookups DEF IInv
  <2>5. ret' # "OK" => ~r.ok
    BY <2>1 DEF Return
  <2> HIDE DEF pte, r, ans
  <2>6. r.ok => /\ References(r.mem, env_pgdir, pte.pg) < REFMOD
                /\ Sane(perm, r.mem, env_pgdir[d], dva)
    BY <1>4, <2>1, <2>4, Fits, StaysSane DEF envvars
  <2>7. /\ Sound(r.mem, env_pgdir, {}) /\ (~r.ok => r.mem = Mem)
        /\ r.ok => Inserted(Mem, env_pgdir, d, dva, pte.pg, perm, r.mem)
    BY <1>1, <2>2, <2>3, <2>4, <2>6, MapInsert
  <2>8. OtherMaps(Mem, env_pgdir, r.mem, env_pgdir, d, dva)
    BY <2>7 DEF Inserted, OtherMaps
  <2>9. IInv'
    BY <2>1, <2>2, <2>7, <2>8, Changed
  <2>10. Mem' = r.mem /\ env_pgdir' = env_pgdir
    BY <2>1, <2>7, Committed DEF Sound, envvars
  <2>11. NoGain(Mem, env_pgdir, r.mem, env_pgdir)
    <3> SUFFICES ASSUME NEW q \in PAGE, WritableIn(r.mem, env_pgdir, q)
                 PROVE  WritableIn(Mem, env_pgdir, q)
      BY DEF NoGain
    <3>1. PICK f \in ENVS, wa \in VA : /\ Points(Mapping(r.mem, env_pgdir, f, wa), q)
                                       /\ "W" \in Mapping(r.mem, env_pgdir, f, wa).perm
      BY DEF WritableIn
    <3>2. CASE Mapping(r.mem, env_pgdir, f, wa) = Mapping(Mem, env_pgdir, f, wa)
      BY <3>1, <3>2 DEF WritableIn
    <3>3. CASE Mapping(r.mem, env_pgdir, f, wa) # Mapping(Mem, env_pgdir, f, wa)
      <4>1. r.ok /\ f = d /\ wa = dva
        BY <2>7, <2>8, <3>3 DEF OtherMaps
      <4>2. Mapping(r.mem, env_pgdir, d, dva) = [pg |-> pte.pg, perm |-> perm \cup {"P"}]
        BY <2>7, <4>1 DEF Inserted
      <4>3. q = pte.pg /\ "W" \in perm
        BY <3>1, <4>1, <4>2 DEF Points
      <4>4. Points(Mapping(Mem, env_pgdir, s, sva), q) /\ "W" \in Mapping(Mem, env_pgdir, s, sva).perm
        BY <2>2, <2>3, <4>3 DEF Points
      <4> QED BY <4>4 DEF WritableIn
    <3> QED BY <3>2, <3>3
  <2>12. FailsCleanly
    BY <2>1, <2>5, <2>7 DEF FailsCleanly, Commit, Mem, memvars
  <2> QED BY <2>9, <2>10, <2>11, <2>12
<1> QED BY <1>2, <1>3

LEMMA UnmapKeeps ==
    ASSUME IInv, freeing = NULL, freeing' = NULL, NEW c \in CPU, NEW e \in ENVS, NEW va \in VA,
           sys_page_unmap(c, e, va)
    PROVE  IInv' /\ NoGain(Mem, env_pgdir, Mem', env_pgdir')
<1> DEFINE n == page_remove(Mem, env_pgdir[e], va)
<1>0. env_pgdir[e] # NULL /\ env_pgdir[e] \in PAGE
  BY Typed DEF sys_page_unmap, MayChange, Live, Pgdirs
<1>1. /\ Commit(n) /\ Return("OK") /\ UNCHANGED envvars /\ env_pgdir[e] # NULL
      /\ n = page_remove(Mem, env_pgdir[e], va)
  BY <1>0, NotAstray DEF sys_page_unmap
<1> HIDE DEF n
<1>2. PICK H : H = {}
  OBVIOUS
<1>3. Sound(Mem, env_pgdir, H) /\ \A h \in H \cap PAGE : Mem.ref[h] = 0
  BY <1>2 DEF IInv
<1>4. /\ Sound(n, env_pgdir, H) /\ Mapping(n, env_pgdir, e, va) = NULL
      /\ OtherMaps(Mem, env_pgdir, n, env_pgdir, e, va)
  BY <1>1, <1>3, PageRemove
<1>5. IInv'
  BY <1>1, <1>2, <1>4, Changed
<1>6. Mem' = n /\ env_pgdir' = env_pgdir
  BY <1>1, <1>4, Committed DEF Sound, envvars
<1>7. NoGain(Mem, env_pgdir, n, env_pgdir)
  BY <1>4, FewerMaps DEF OtherMaps
<1> QED BY <1>5, <1>6, <1>7

LEMMA ForkKeeps ==
    ASSUME IInv, freeing = NULL, freeing' = NULL, NEW c \in CPU, NEW child \in ENVS,
           sys_exofork(c, child)
    PROVE  IInv' /\ NoGain(Mem, env_pgdir, Mem', env_pgdir')
<1>1. CASE Fail("E_NO_MEM")
  BY <1>1, FailKeeps
<1>2. CASE ~Fail("E_NO_MEM")
  <2> DEFINE p == Head(page_free_list)
             n == env_setup_vm(Mem)
             h == env_pgdir'
  <2>1. /\ page_free_list # <<>> /\ Commit(n) /\ Return("OK") /\ env_pgdir[child] = NULL
        /\ env_pgdir' = [env_pgdir EXCEPT ![child] = p]
        /\ env_parent' = [env_parent EXCEPT ![child] = curenv[c]]
    BY <1>2 DEF sys_exofork, Live
  <2>2. p \in PAGE /\ p = Head(Mem.free) /\ Mem.free # <<>> /\ n = env_setup_vm(Mem)
    BY <2>1, Typed DEF Mem
  <2> HIDE DEF p, n
  <2>3. h \in Pgdirs /\ h[child] = p /\ \A f \in ENVS \ {child} : h[f] = env_pgdir[f]
    BY <2>1, <2>2, Typed DEF Pgdirs
  <2>4. env_parent' \in [ENVS -> ENVS \cup {NULL}]
    BY <2>1, Typed
  <2>5. h = env_pgdir'
    OBVIOUS
  <2> HIDE DEF h
  <2>6. Sound(n, h, {}) /\ SameMaps(Mem, env_pgdir, n, h)
    BY <2>1, <2>2, <2>3, SetupVm DEF IInv
  <2>7. Mem' = n
    BY <2>1, <2>6, Committed DEF Sound
  <2>8. Sound(Mem', env_pgdir', {}) /\ SameMaps(Mem, env_pgdir, Mem', env_pgdir')
    BY <2>5, <2>6, <2>7
  <2>9. \A e \in ENVS : env_pgdir[e] # NULL => env_pgdir'[e] # NULL
    BY <2>1, <2>3, <2>5
  <2> QED BY <2>1, <2>4, <2>8, <2>9, Unchanged, SameMapsNoGain
<1> QED BY <1>1, <1>2

LEMMA YieldKeeps ==
    ASSUME IInv, freeing = NULL, freeing' = NULL, NEW c \in CPU, NEW e \in ENVS \cup {NULL},
           sched_yield(c, e)
    PROVE  IInv' /\ NoGain(Mem, env_pgdir, Mem', env_pgdir')
<1>1. /\ Mem' = Mem /\ env_pgdir' = env_pgdir /\ env_parent' = env_parent /\ ret' = ret
      /\ curenv' = [curenv EXCEPT ![c] = e]
      /\ e # NULL => env_pgdir[e] # NULL /\ \A d \in CPU : curenv[d] # e
  BY DEF sched_yield, Mem, memvars, envvars, Live, Loaded
<1>2. curenv \in [CPU -> ENVS \cup {NULL}]
  BY DEF IInv, Others
<1>3. /\ curenv'[c] = e /\ \A d \in CPU \ {c} : curenv'[d] = curenv[d]
      /\ curenv' \in [CPU -> ENVS \cup {NULL}]
  BY <1>1, <1>2
<1>4. Sound(Mem', env_pgdir', {}) /\ SameMaps(Mem, env_pgdir, Mem', env_pgdir')
  BY <1>1 DEF IInv, SameMaps
<1>5. Cpus(env_pgdir', curenv')
  BY <1>1, <1>3 DEF IInv, Cpus
<1>6. Teardown(Mem', env_pgdir', curenv', freeing')
  BY Settled
<1>7. Others'
  BY <1>1, <1>3 DEF IInv, Others
<1> QED BY <1>4, <1>5, <1>6, <1>7, SameMapsNoGain DEF IInv

LEMMA HandlerKeeps ==
    ASSUME IInv, Tame', freeing = NULL, UNCHANGED freeing, NEW c \in CPU, Handler(c)
    PROVE  IInv' /\ NoGain(Mem, env_pgdir, Mem', env_pgdir')
<1>1. freeing' = NULL
  OBVIOUS
<1>2. CASE \E e \in ENVS \cup {NULL} : sched_yield(c, e)
  BY <1>1, <1>2, YieldKeeps
<1>3. CASE \E e \in ENVS : sys_exofork(c, e)
  BY <1>1, <1>3, ForkKeeps
<1>4. CASE \E e \in ENVS, va \in VA : sys_page_unmap(c, e, va)
  BY <1>1, <1>4, UnmapKeeps
<1>5. CASE \E e \in ENVS, va \in VA, perm \in PERMS : sys_page_alloc(c, e, va, perm)
  BY <1>1, <1>5, PageAllocKeeps
<1>6. CASE \E d \in ENVS, sva, dva \in VA, perm \in PERMS : sys_ipc_try_send(c, d, sva, dva, perm)
  <2>1. PICK d \in ENVS, sva \in VA, dva \in VA, perm \in PERMS : sys_ipc_try_send(c, d, sva, dva, perm)
    BY <1>6
  <2>2. /\ curenv[c] \in ENVS /\ env_pgdir[curenv[c]] # NULL /\ env_pgdir[d] # NULL
        /\ Fail("E_INVAL") \/ Share(curenv[c], sva, d, dva, perm)
    BY <2>1, Typed DEF sys_ipc_try_send, Live, IInv, Cpus
  <2> QED BY <1>1, <2>2, ShareKeeps, FailKeeps
<1>7. CASE \E d \in ENVS, sva, dva \in VA, perm \in PERMS, s \in ENVS : sys_page_map(c, s, sva, d, dva, perm)
  <2>1. PICK d \in ENVS, sva \in VA, dva \in VA, perm \in PERMS, s \in ENVS :
          sys_page_map(c, s, sva, d, dva, perm)
    BY <1>7
  <2>2. env_pgdir[s] # NULL /\ env_pgdir[d] # NULL /\ Share(s, sva, d, dva, perm)
    BY <2>1 DEF sys_page_map, MayChange, Live
  <2> QED BY <1>1, <2>2, ShareKeeps
<1> QED BY <1>2, <1>3, <1>4, <1>5, <1>6, <1>7 DEF Handler
LEMMA DestroyKeeps ==
    ASSUME IInv, freeing = NULL, NEW c \in CPU, NEW e \in ENVS, sys_env_destroy(c, e)
    PROVE  IInv' /\ NoGain(Mem, env_pgdir, Mem', env_pgdir')
<1> DEFINE f == [cpu |-> c, env |-> e, i |-> 0, j |-> 0]
<1>1. /\ Mem' = Mem /\ env_pgdir' = env_pgdir /\ env_parent' = env_parent /\ ret' = "OK"
      /\ curenv' = curenv /\ freeing' = f /\ curenv[c] # NULL /\ env_pgdir[e] # NULL
      /\ e = curenv[c] \/ \A d \in CPU : curenv[d] # e
  BY DEF sys_env_destroy, Mem, memvars, envvars, MayChange, Live, Loaded
<1>2. f \in Freeing /\ f # NULL /\ f.cpu = c /\ f.env = e /\ f.i = 0 /\ f.j = 0
  <2>1. f \in Freeing
    BY PmapAssumption DEF Freeing
  <2> QED BY <2>1, PmapAssumption
<1> HIDE DEF f
<1>3. curenv \in [CPU -> ENVS \cup {NULL}]
  BY DEF IInv, Others
<1>5. Others'
  BY <1>1, <1>2 DEF IInv, Others
<1>7. Teardown(Mem', env_pgdir', curenv', freeing')
  <2>1. \A d \in CPU : curenv[d] = e => d = c
    BY <1>1, <1>3, PmapAssumption DEF IInv, Cpus
  <2>2. (\A k \in Dir : ~(k < 0)) /\ \A l \in Table : ~(l < 0)
    BY DEF Dir, Table
  <2> QED BY <1>1, <1>2, <2>1, <2>2 DEF Teardown
<1>8. Sound(Mem', env_pgdir', {}) /\ Cpus(env_pgdir', curenv') /\ SameMaps(Mem, env_pgdir, Mem', env_pgdir')
  BY <1>1 DEF IInv, SameMaps
<1> QED BY <1>5, <1>7, <1>8, SameMapsNoGain DEF IInv

(* A step of env_free() that leaves the CPUs alone and changes no mapping  *)
(* but those of the environment that goes.                                 *)
LEMMA Freed ==
    ASSUME IInv, freeing # NULL, NEW n, FreeStep(n), Sound(n, env_pgdir, {}),
           freeing' \in Freeing, freeing'.cpu = freeing.cpu, freeing'.env = freeing.env,
           Teardown(n, env_pgdir, curenv, freeing'),
           \A f \in ENVS \ {freeing.env}, wa \in VA :
              Mapping(n, env_pgdir, f, wa) = Mapping(Mem, env_pgdir, f, wa),
           \A wa \in VA : Mapping(n, env_pgdir, freeing.env, wa)
                             \in {NULL, Mapping(Mem, env_pgdir, freeing.env, wa)}
    PROVE  IInv' /\ NoGain(Mem, env_pgdir, Mem', env_pgdir')
<1>1. /\ Mem' = n /\ env_pgdir' = env_pgdir /\ env_parent' = env_parent
      /\ curenv' = curenv /\ ret' = ret
  BY Committed DEF Sound, FreeStep, envvars
<1>3. Others'
  BY <1>1 DEF IInv, Others
<1>5. Teardown(Mem', env_pgdir', curenv', freeing') /\ Sound(Mem', env_pgdir', {})
  BY <1>1
<1>6. Cpus(env_pgdir', curenv')
  BY <1>1 DEF IInv
<1>7. NoGain(Mem, env_pgdir, Mem', env_pgdir')
  <2>1. \A f \in ENVS, wa \in VA : Mapping(n, env_pgdir, f, wa) \in {NULL, Mapping(Mem, env_pgdir, f, wa)}
    OBVIOUS
  <2> QED BY <1>1, <2>1, FewerMaps
<1> QED BY <1>3, <1>5, <1>6, <1>7 DEF IInv

LEMMA Frees ==
    ASSUME IInv, freeing # NULL
    PROVE  /\ freeing \in Freeing /\ freeing.cpu \in CPU /\ freeing.env \in ENVS
           /\ freeing.i \in 0 .. NPD /\ freeing.j \in 0 .. NPT
           /\ env_pgdir[freeing.env] # NULL /\ env_pgdir[freeing.env] \in PAGE
           /\ NPD \in Nat \ {0} /\ NPT \in Nat \ {0}
BY PmapAssumption, Typed DEF IInv, Others, Freeing, Teardown, Pgdirs
LEMMA UnmapPageKeeps ==
    ASSUME IInv, freeing # NULL, NEW e, e = freeing.env, NEW i, i = freeing.i, NEW j, j = freeing.j,
           UnmapPage(env_pgdir[e], i, j)
    PROVE  IInv' /\ NoGain(Mem, env_pgdir, Mem', env_pgdir')
<1> DEFINE va == <<i, j>>
           n == page_remove(Mem, env_pgdir[e], va)
<1>2. e \in ENVS /\ env_pgdir[e] # NULL /\ env_pgdir[e] \in PAGE /\ i \in Dir /\ j \in Table
  <2>1. i < NPD /\ j < NPT
    BY DEF UnmapPage
  <2> QED BY <2>1, Frees DEF Dir, Table
<1>3. va \in VA /\ va[1] = i /\ va[2] = j
  BY <1>2 DEF VA
<1>1. /\ i < NPD /\ j < NPT /\ FreeStep(n) /\ n = page_remove(Mem, env_pgdir[e], va)
      /\ freeing' = [freeing EXCEPT !.j = j + 1]
  <2>1. ~Astray(Mem, env_pgdir[e], va)
    BY <1>2, <1>3, NotAstray
  <2> QED BY <2>1 DEF UnmapPage
<1>4. Pde(Mem, env_pgdir, e, i) # NULL
  BY <1>2 DEF UnmapPage, Pde, Mem
<1> HIDE DEF n, va
<1>5. PICK H : H = {}
  OBVIOUS
<1>6. Sound(Mem, env_pgdir, H) /\ \A h \in H \cap PAGE : Mem.ref[h] = 0
  BY <1>5 DEF IInv
<1>7. /\ Sound(n, env_pgdir, H) /\ Mapping(n, env_pgdir, e, va) = NULL
      /\ SameTables(Mem, env_pgdir, n, env_pgdir)
      /\ OtherMaps(Mem, env_pgdir, n, env_pgdir, e, va)
  BY <1>1, <1>2, <1>3, <1>6, PageRemove
<1>8. /\ freeing' \in Freeing /\ freeing'.cpu = freeing.cpu /\ freeing'.env = e
      /\ freeing'.i = i /\ freeing'.j = j + 1 /\ freeing' # NULL
  <2>1. j + 1 \in 0 .. NPT
    BY <1>2, Frees DEF Table
  <2>2. freeing' \in Freeing /\ freeing'.cpu = freeing.cpu /\ freeing'.env = e
        /\ freeing'.i = i /\ freeing'.j = j + 1
    BY <1>1, <2>1, Frees DEF Freeing
  <2> QED BY <2>2, PmapAssumption
<1>9. Teardown(n, env_pgdir, curenv, freeing')
  <2>1. ASSUME NEW l \in Table, l < j + 1
        PROVE  /\ i \in Dir /\ Pde(n, env_pgdir, e, i) # NULL
               /\ Mapping(n, env_pgdir, e, <<i, l>>) = NULL
    <3>1. Pde(n, env_pgdir, e, i) # NULL
      BY <1>2, <1>4, <1>7 DEF SameTables
    <3>2. CASE l = j
      BY <1>2, <1>7, <3>1, <3>2 DEF va
    <3>3. CASE l # j
      <4>1. l < j
        BY <1>2, <2>1, <3>3 DEF Table
      <4>2. Mapping(Mem, env_pgdir, e, <<i, l>>) = NULL
        BY <4>1 DEF IInv, Teardown
      <4>3. <<i, l>> \in VA /\ <<i, l>> # va
        BY <1>2, <3>3 DEF VA, va
      <4> QED BY <1>2, <1>7, <3>1, <4>2, <4>3 DEF OtherMaps
    <3> QED BY <3>2, <3>3
  <2>2. \A k \in Dir : k < i => Pde(n, env_pgdir, e, k) = NULL
    BY <1>2, <1>7 DEF IInv, Teardown, SameTables
  <2>3. /\ env_pgdir[e] # NULL /\ curenv[freeing.cpu] # NULL
        /\ \A c \in CPU : curenv[c] = e => c = freeing.cpu
    BY DEF IInv, Teardown
  <2> QED BY <1>8, <2>1, <2>2, <2>3 DEF Teardown
<1>10. \A f \in ENVS, wa \in VA : Mapping(n, env_pgdir, f, wa) \in {NULL, Mapping(Mem, env_pgdir, f, wa)}
  BY <1>7 DEF OtherMaps
<1>11. \A f \in ENVS \ {e}, wa \in VA : Mapping(n, env_pgdir, f, wa) = Mapping(Mem, env_pgdir, f, wa)
  BY <1>7 DEF OtherMaps
<1> QED BY <1>1, <1>2, <1>5, <1>7, <1>8, <1>9, <1>10, <1>11, Freed

LEMMA FreeTableKeeps ==
    ASSUME IInv, freeing # NULL, NEW e, e = freeing.env, NEW i, i = freeing.i, NEW j, j = freeing.j,
           FreeTable(env_pgdir[e], i, j)
    PROVE  IInv' /\ NoGain(Mem, env_pgdir, Mem', env_pgdir')
<1> DEFINE t == Mem.pd[env_pgdir[e]][i].pg
           n == page_decref(ClearPde(Mem, env_pgdir[e], i), t)
<1>1. /\ i < NPD /\ j = NPT /\ FreeStep(n)
      /\ n = page_decref(ClearPde(Mem, env_pgdir[e], i), t) /\ t = Mem.pd[env_pgdir[e]][i].pg
      /\ freeing' = [freeing EXCEPT !.i = i + 1, !.j = 0]
  BY DEF FreeTable, ClearPde, Mem
<1>2. e \in ENVS /\ env_pgdir[e] # NULL /\ env_pgdir[e] \in PAGE /\ i \in Dir
  BY <1>1, Frees DEF Dir
<1>3. Pde(Mem, env_pgdir, e, i) # NULL
  BY <1>2 DEF FreeTable, Pde, Mem
<1>4. \A l \in Table : Mapping(Mem, env_pgdir, e, <<i, l>>) = NULL
  <2>1. \A l \in Table : l < j
    BY <1>1, Frees DEF Table
  <2> QED BY <2>1 DEF IInv, Teardown
<1> HIDE DEF n, t
<1>5. /\ Sound(n, env_pgdir, {}) /\ SameMaps(Mem, env_pgdir, n, env_pgdir)
      /\ Pde(n, env_pgdir, e, i) = NULL
      /\ \A f \in ENVS, k \in Dir : f # e \/ k # i => Pde(n, env_pgdir, f, k) = Pde(Mem, env_pgdir, f, k)
  <2>1. Sound(Mem, env_pgdir, {})
    BY DEF IInv
  <2>2. t = Mem.pd[env_pgdir[e]][i].pg /\ n = page_decref(ClearPde(Mem, env_pgdir[e], i), t)
    BY <1>1
  <2>3. PICK g : g = env_pgdir
    OBVIOUS
  <2>4. PICK m : m = Mem
    OBVIOUS
  <2>5. /\ Sound(m, g, {}) /\ Pde(m, g, e, i) # NULL
        /\ \A l \in Table : Mapping(m, g, e, <<i, l>>) = NULL
        /\ t = m.pd[g[e]][i].pg /\ n = page_decref(ClearPde(m, g[e], i), t)
    BY <1>3, <1>4, <2>1, <2>2, <2>3, <2>4
  <2>6. /\ Sound(n, g, {}) /\ SameMaps(m, g, n, g) /\ Pde(n, g, e, i) = NULL
        /\ \A f \in ENVS, k \in Dir : f # e \/ k # i => Pde(n, g, f, k) = Pde(m, g, f, k)
    <3>1. e \in ENVS /\ i \in Dir
      BY <1>2
    <3> QED BY ONLY <2>5, <3>1, ReleaseTable
  <2> QED BY <2>3, <2>4, <2>6
<1>6. /\ freeing' \in Freeing /\ freeing'.cpu = freeing.cpu /\ freeing'.env = e
      /\ freeing'.i = i + 1 /\ freeing'.j = 0 /\ freeing' # NULL
  <2>1. i + 1 \in 0 .. NPD /\ 0 \in 0 .. NPT
    BY <1>2, Frees DEF Dir
  <2>2. freeing' \in Freeing /\ freeing'.cpu = freeing.cpu /\ freeing'.env = e
        /\ freeing'.i = i + 1 /\ freeing'.j = 0
    BY <1>1, <2>1, Frees DEF Freeing
  <2> QED BY <2>2, PmapAssumption
<1>7. Teardown(n, env_pgdir, curenv, freeing')
  <2>1. ASSUME NEW k \in Dir, k < i + 1 PROVE Pde(n, env_pgdir, e, k) = NULL
    <3>1. k # i => k < i
      BY <1>2, <2>1 DEF Dir
    <3>2. k < i => Pde(Mem, env_pgdir, e, k) = NULL
      BY DEF IInv, Teardown
    <3> QED BY <1>2, <1>5, <3>1, <3>2
  <2>2. \A l \in Table : ~(l < 0)
    BY DEF Table
  <2>3. /\ env_pgdir[e] # NULL /\ curenv[freeing.cpu] # NULL
        /\ \A c \in CPU : curenv[c] = e => c = freeing.cpu
    BY DEF IInv, Teardown
  <2> QED BY <1>6, <2>1, <2>2, <2>3 DEF Teardown
<1>8. \A f \in ENVS, wa \in VA : Mapping(n, env_pgdir, f, wa) = Mapping(Mem, env_pgdir, f, wa)
  BY <1>5 DEF SameMaps
<1> QED BY <1>1, <1>2, <1>5, <1>6, <1>7, <1>8, Freed

LEMMA SkipTableKeeps ==
    ASSUME IInv, freeing # NULL, NEW e, e = freeing.env, NEW i, i = freeing.i,
           SkipTable(env_pgdir[e], i)
    PROVE  IInv' /\ NoGain(Mem, env_pgdir, Mem', env_pgdir')
<1>1. /\ i < NPD /\ FreeStep(Mem) /\ freeing' = [freeing EXCEPT !.i = i + 1]
  BY DEF SkipTable
<1>2. e \in ENVS /\ env_pgdir[e] # NULL /\ env_pgdir[e] \in PAGE /\ i \in Dir
  BY <1>1, Frees DEF Dir
<1>3. Pde(Mem, env_pgdir, e, i) = NULL
  BY <1>2 DEF SkipTable, Pde, Mem
<1>4. \A l \in Table : ~(l < freeing.j)
  BY <1>3 DEF IInv, Teardown
<1>5. /\ freeing' \in Freeing /\ freeing'.cpu = freeing.cpu /\ freeing'.env = e
      /\ freeing'.i = i + 1 /\ freeing'.j = freeing.j /\ freeing' # NULL
  <2>1. i + 1 \in 0 .. NPD
    BY <1>2, Frees DEF Dir
  <2>2. freeing' \in Freeing /\ freeing'.cpu = freeing.cpu /\ freeing'.env = e
        /\ freeing'.i = i + 1 /\ freeing'.j = freeing.j
    BY <1>1, <2>1, Frees DEF Freeing
  <2> QED BY <2>2, PmapAssumption
<1>6. Teardown(Mem, env_pgdir, curenv, freeing')
  <2>1. ASSUME NEW k \in Dir, k < i + 1 PROVE Pde(Mem, env_pgdir, e, k) = NULL
    <3>1. k # i => k < i
      BY <1>2, <2>1 DEF Dir
    <3>2. k < i => Pde(Mem, env_pgdir, e, k) = NULL
      BY DEF IInv, Teardown
    <3> QED BY <1>3, <3>1, <3>2
  <2>2. /\ env_pgdir[e] # NULL /\ curenv[freeing.cpu] # NULL
        /\ \A c \in CPU : curenv[c] = e => c = freeing.cpu
    BY DEF IInv, Teardown
  <2> QED BY <1>4, <1>5, <2>1, <2>2 DEF Teardown
<1>7. Sound(Mem, env_pgdir, {})
  BY DEF IInv
<1> QED BY <1>1, <1>2, <1>5, <1>6, <1>7, Freed

LEMMA FreeDirectoryKeeps ==
    ASSUME IInv, freeing # NULL, NEW c, c = freeing.cpu, NEW e, e = freeing.env, NEW i, i = freeing.i,
           FreeDirectory(c, e, i)
    PROVE  IInv' /\ NoGain(Mem, env_pgdir, Mem', env_pgdir')
<1> DEFINE n == page_decref(Mem, env_pgdir[e])
           h == env_pgdir'
<1>1. /\ i = NPD /\ Commit(n) /\ n = page_decref(Mem, env_pgdir[e]) /\ h = env_pgdir'
      /\ env_pgdir' = [env_pgdir EXCEPT ![e] = NULL]
      /\ env_parent' = [f \in ENVS |-> IF f = e \/ env_parent[f] = e THEN NULL ELSE env_parent[f]]
      /\ curenv' = [curenv EXCEPT ![c] = IF e = @ THEN NULL ELSE @]
      /\ freeing' = NULL /\ ret' = ret
  BY DEF FreeDirectory
<1>2. e \in ENVS /\ c \in CPU /\ env_pgdir[e] # NULL /\ env_pgdir[e] \in PAGE
  BY Frees
<1>3. \A k \in Dir : Pde(Mem, env_pgdir, e, k) = NULL
  <2>1. \A k \in Dir : k < i
    BY <1>1, PmapAssumption DEF Dir
  <2> QED BY <2>1 DEF IInv, Teardown
<1>4. h \in Pgdirs /\ h[e] = NULL /\ \A f \in ENVS \ {e} : h[f] = env_pgdir[f]
  BY <1>1, <1>2, Typed DEF Pgdirs
<1> HIDE DEF n, h
<1>5. Sound(n, h, {}) /\ SameMaps(Mem, env_pgdir, n, h)
  <2>1. Sound(Mem, env_pgdir, {})
    BY DEF IInv
  <2>2. n = page_decref(Mem, env_pgdir[e])
    BY <1>1
  <2> QED BY <1>2, <1>3, <1>4, <2>1, <2>2, ReleaseDirectory
<1>6. Mem' = n /\ env_pgdir' = h
  BY <1>1, <1>5, Committed DEF Sound
<1>7. /\ curenv \in [CPU -> ENVS \cup {NULL}] /\ env_parent \in [ENVS -> ENVS \cup {NULL}]
  BY Typed DEF IInv, Others
<1>8. /\ curenv' \in [CPU -> ENVS \cup {NULL}] /\ \A d \in CPU : curenv'[d] # e
      /\ \A d \in CPU : curenv'[d] \in {NULL, curenv[d]} /\ (d # c => curenv'[d] = curenv[d])
  <2>1. \A d \in CPU \ {c} : curenv[d] # e
    BY DEF IInv, Teardown
  <2>2. e # NULL
    BY <1>2, PmapAssumption
  <2> QED BY <1>1, <1>2, <1>7, <2>1, <2>2
<1>10. Cpus(env_pgdir', curenv')
  <2>1. \A d \in CPU : curenv'[d] # NULL => h[curenv'[d]] # NULL
    BY <1>4, <1>7, <1>8 DEF IInv, Cpus
  <2>2. \A d, b \in CPU : curenv'[d] # NULL /\ curenv'[d] = curenv'[b] => d = b
    BY <1>8 DEF IInv, Cpus
  <2> QED BY <1>6, <2>1, <2>2 DEF Cpus
<1>11. Teardown(Mem', env_pgdir', curenv', freeing')
  BY <1>1, Settled
<1>12. Others'
  <2>1. env_parent' \in [ENVS -> ENVS \cup {NULL}]
    BY <1>1, <1>7
  <2> QED BY <1>1, <1>8, <2>1 DEF IInv, Others
<1>14. Sound(Mem', env_pgdir', {}) /\ SameMaps(Mem, env_pgdir, Mem', env_pgdir')
  BY <1>5, <1>6
<1> QED BY <1>10, <1>11, <1>12, <1>14, SameMapsNoGain DEF IInv

(* The invariant is inductive.                                             *)
LEMMA Inductive ==
    ASSUME IInv, Tame', Step
    PROVE  IInv' /\ NoGain(Mem, env_pgdir, Mem', env_pgdir')
<1>2. CASE freeing = NULL /\ UNCHANGED freeing /\ \E c \in CPU : Handler(c)
  BY <1>2, HandlerKeeps
<1>3. CASE freeing = NULL /\ \E c \in CPU, e \in ENVS : sys_env_destroy(c, e)
  BY <1>3, DestroyKeeps
<1>4. CASE env_free
  BY <1>4, UnmapPageKeeps, FreeTableKeeps, SkipTableKeeps, FreeDirectoryKeeps DEF env_free
<1> QED BY <1>2, <1>3, <1>4 DEF Step

LEMMA Stutters ==
    ASSUME IInv, UNCHANGED vars
    PROVE  IInv' /\ NoGain(Mem, env_pgdir, Mem', env_pgdir')
<1>1. /\ Mem' = Mem /\ env_pgdir' = env_pgdir /\ curenv' = curenv
      /\ freeing' = freeing /\ env_parent' = env_parent /\ ret' = ret
  BY DEF vars, memvars, envvars, Mem
<1>2. SameMaps(Mem, env_pgdir, Mem', env_pgdir')
  BY <1>1 DEF SameMaps
<1>3. Others'
  BY <1>1 DEF IInv, Others
<1> QED BY <1>1, <1>2, <1>3, SameMapsNoGain DEF IInv

(* No call that fails has changed anything: page_insert() may have built a *)
(* page table or dropped the old mapping only when it succeeds.            *)
LEMMA Failures ==
    ASSUME IInv, Tame', Step
    PROVE  FailsCleanly
<1>2. CASE freeing = NULL /\ UNCHANGED freeing /\ \E c \in CPU : Handler(c)
  <2>1. PICK c \in CPU : Handler(c)
    BY <1>2
  <2>2. freeing = NULL /\ freeing' = NULL
    BY <1>2
  <2>3. CASE \E e \in ENVS \cup {NULL} : sched_yield(c, e)
    BY <2>3 DEF sched_yield, FailsCleanly
  <2>4. CASE \E e \in ENVS : sys_exofork(c, e)
    BY <2>4 DEF sys_exofork, Return, Fail, FailsCleanly
  <2>5. CASE \E e \in ENVS, va \in VA : sys_page_unmap(c, e, va)
    <3>1. PICK e \in ENVS, va \in VA : sys_page_unmap(c, e, va)
      BY <2>5
    <3>2. env_pgdir[e] \in PAGE
      BY <3>1, Typed DEF sys_page_unmap, MayChange, Live, Pgdirs
    <3> QED BY <3>1, <3>2, NotAstray DEF sys_page_unmap, Return, FailsCleanly
  <2>6. CASE \E e \in ENVS, va \in VA, perm \in PERMS : sys_page_alloc(c, e, va, perm)
    BY <2>2, <2>6, PageAllocKeeps
  <2>7. CASE \E d \in ENVS, sva, dva \in VA, perm \in PERMS : sys_ipc_try_send(c, d, sva, dva, perm)
    <3>1. PICK d \in ENVS, sva \in VA, dva \in VA, perm \in PERMS : sys_ipc_try_send(c, d, sva, dva, perm)
      BY <2>7
    <3>2. /\ curenv[c] \in ENVS /\ env_pgdir[curenv[c]] # NULL /\ env_pgdir[d] # NULL
          /\ Fail("E_INVAL") \/ Share(curenv[c], sva, d, dva, perm)
      BY <3>1, Typed DEF sys_ipc_try_send, Live, IInv, Cpus
    <3> QED BY <2>2, <3>2, ShareKeeps DEF Fail, FailsCleanly
  <2>8. CASE \E d \in ENVS, sva, dva \in VA, perm \in PERMS, s \in ENVS : sys_page_map(c, s, sva, d, dva, perm)
    <3>1. PICK d \in ENVS, sva \in VA, dva \in VA, perm \in PERMS, s \in ENVS :
            sys_page_map(c, s, sva, d, dva, perm)
      BY <2>8
    <3>2. env_pgdir[s] # NULL /\ env_pgdir[d] # NULL /\ Share(s, sva, d, dva, perm)
      BY <3>1 DEF sys_page_map, MayChange, Live
    <3> QED BY <2>2, <3>2, ShareKeeps
  <2> QED BY <2>1, <2>3, <2>4, <2>5, <2>6, <2>7, <2>8 DEF Handler
<1>3. CASE freeing = NULL /\ \E c \in CPU, e \in ENVS : sys_env_destroy(c, e)
  BY <1>3 DEF sys_env_destroy, FailsCleanly
<1>4. CASE env_free
  <2>1. ret = "OK"
    BY <1>4 DEF env_free, IInv, Others
  <2>2. ret' = ret
    <3>1. /\ freeing # NULL
          /\ \/ UnmapPage(env_pgdir[freeing.env], freeing.i, freeing.j)
             \/ ret' = ret
      BY <1>4 DEF env_free, FreeTable, SkipTable, FreeDirectory, FreeStep
    <3>2. CASE UnmapPage(env_pgdir[freeing.env], freeing.i, freeing.j)
      <4>1. env_pgdir[freeing.env] \in PAGE /\ <<freeing.i, freeing.j>> \in VA
        BY <3>1, <3>2, Frees DEF UnmapPage, VA, Dir, Table
      <4> QED BY <3>2, <4>1, NotAstray DEF UnmapPage, FreeStep
    <3> QED BY <3>1, <3>2
  <2> QED BY <2>1, <2>2 DEF FailsCleanly
<1> QED BY <1>2, <1>3, <1>4 DEF Step

-----------------------------------------------------------------------------
(* What the invariant says of the properties of module Pmap.               *)

LEMMA PrivateTable ==
    ASSUME NEW m, NEW g, Sound(m, g, {}), NEW p \in PAGE,
           DirRefs(g, p) # {} \/ TableRefs(m, g, p) # {}
    PROVE  References(m, g, p) = 1
<1>1. OneUse(m, g) /\ p # NULL
  BY PmapAssumption DEF Sound
<1>2. /\ Cardinality({}) = 0 /\ \A x : Cardinality({x}) = 1
  BY FS_EmptySet, FS_Singleton
<1>3. CASE DirRefs(g, p) # {}
  <2>1. PICK e \in ENVS : g[e] = p
    BY <1>3 DEF DirRefs
  <2>2. DirRefs(g, p) = {e}
    BY <1>1, <2>1 DEF DirRefs, OneUse
  <2>3. TableRefs(m, g, p) = {}
    BY <1>1, <2>1 DEF TableRefs, OneUse
  <2>4. UserRefs(m, g, p) = {}
    BY <1>1, <2>1 DEF UserRefs, OneUse
  <2> QED BY <1>2, <2>2, <2>3, <2>4 DEF References
<1>4. CASE TableRefs(m, g, p) # {}
  <2>1. PICK e \in ENVS, i \in Dir : Pde(m, g, e, i) # NULL /\ Pde(m, g, e, i).pg = p
    BY <1>4 DEF TableRefs
  <2>2. TableRefs(m, g, p) = {<<e, i>>}
    <3>1. <<e, i>> \in TableRefs(m, g, p)
      BY <2>1 DEF TableRefs
    <3>2. ASSUME NEW x \in TableRefs(m, g, p) PROVE x = <<e, i>>
      <4>1. PICK f \in ENVS, k \in Dir : x = <<f, k>>
        BY DEF TableRefs
      <4>2. Pde(m, g, f, k) # NULL /\ Pde(m, g, f, k).pg = p
        BY <4>1 DEF TableRefs
      <4>3. f = e /\ k = i
        BY <1>1, <2>1, <4>2 DEF OneUse
      <4> QED BY <4>1, <4>3
    <3> QED BY <3>1, <3>2
  <2>3. DirRefs(g, p) = {}
    BY <1>1, <2>1 DEF DirRefs, OneUse
  <2>4. UserRefs(m, g, p) = {}
    BY <1>1, <2>1 DEF UserRefs, OneUse
  <2>5. Cardinality({<<e, i>>}) = 1
    BY FS_Singleton
  <2> QED BY <1>2, <2>2, <2>3, <2>4, <2>5 DEF References
<1> QED BY <1>3, <1>4

LEMMA Consequences ==
    ASSUME IInv, spoilt \in BOOLEAN
    PROVE  TypeOK /\ CountsExact /\ TablesPrivate
<1>1. Sound(Mem, env_pgdir, {}) /\ Others
  BY DEF IInv
<1>2. Mem.ref = pp_ref /\ Mem.free = page_free_list /\ Mem.pd = pd /\ Mem.pt = pt
  BY DEF Mem
<1>3. /\ Mem \in Memory /\ env_pgdir \in Pgdirs
      /\ Counted(Mem, env_pgdir) /\ FreeExact(Mem, {})
  BY <1>1 DEF Sound
<1>4. TypeOK
  <2>1. /\ pp_ref \in [PAGE -> 0 .. REFMOD - 1] /\ page_free_list \in Seq(PAGE)
        /\ pd \in [PAGE -> [Dir -> Pte]] /\ pt \in [PAGE -> [Table -> Pte]]
    <3>1. PlainPte \subseteq Pte
      BY DEF PlainPte, PlainEntry, Pte, Entry
    <3> QED BY <1>2, <1>3, <3>1 DEF Memory
  <2> QED BY <1>1, <1>3, <2>1 DEF TypeOK, Others, Pgdirs
<1>5. RefCountExact
  BY <1>2, <1>3 DEF RefCountExact, Counted
<1>6. FreeIffUnreferenced
  <2>1. \A p : p \in ToSet(page_free_list) <=> OnList(page_free_list, p)
    BY DEF ToSet, OnList
  <2> QED BY <1>2, <1>3, <1>5, <2>1 DEF FreeIffUnreferenced, FreeExact, RefCountExact
<1>7. TablesPrivate
  BY <1>1, PrivateTable DEF TablesPrivate
<1> QED BY <1>4, <1>5, <1>6, <1>7 DEF CountsExact

LEMMA MappedEq ==
    ASSUME NEW m, NEW g, NEW p
    PROVE  /\ UserRefs(m, g, p) # {} <=> MappedIn(m, g, p)
           /\ (\E x \in UserRefs(m, g, p) : "W" \in Mapping(m, g, x[1], x[2]).perm)
              <=> WritableIn(m, g, p)
<1>1. ASSUME NEW e \in ENVS, NEW va \in VA
      PROVE  <<e, va>> \in UserRefs(m, g, p) <=> Points(Mapping(m, g, e, va), p)
  BY DEF UserRefs, Points
<1>2. \A x \in UserRefs(m, g, p) : \E e \in ENVS, va \in VA : x = <<e, va>>
  BY DEF UserRefs
<1>3. UserRefs(m, g, p) # {} <=> MappedIn(m, g, p)
  BY <1>1, <1>2 DEF MappedIn
<1>4. ASSUME WritableIn(m, g, p)
      PROVE  \E x \in UserRefs(m, g, p) : "W" \in Mapping(m, g, x[1], x[2]).perm
  <2>1. PICK e \in ENVS, va \in VA : Points(Mapping(m, g, e, va), p) /\ "W" \in Mapping(m, g, e, va).perm
    BY <1>4 DEF WritableIn
  <2>2. <<e, va>>[1] = e /\ <<e, va>>[2] = va /\ <<e, va>> \in UserRefs(m, g, p)
    BY <1>1, <2>1
  <2> QED BY <2>1, <2>2
<1>5. ASSUME NEW x \in UserRefs(m, g, p), "W" \in Mapping(m, g, x[1], x[2]).perm
      PROVE  WritableIn(m, g, p)
  <2>1. PICK e \in ENVS, va \in VA : x = <<e, va>>
    BY <1>2
  <2> QED BY <1>1, <1>5, <2>1 DEF WritableIn
<1> QED BY <1>3, <1>4, <1>5
-----------------------------------------------------------------------------
(* The theorems.  Until the page tables are damaged, which spoilt records, *)
(* the memory is sound; nothing is assumed of when that is.                *)
Kept == spoilt \in BOOLEAN /\ (~spoilt => IInv)

LEMMA Unspoilt ==
    ASSUME Kept, Next, ~spoilt'
    PROVE  IInv /\ Tame' /\ Step
BY DEF Kept, Next, Damaged, Tame

LEMMA KeptByStep ==
    ASSUME Kept, [Next]_vars
    PROVE  Kept'
<1>1. CASE Next
  <2>1. spoilt' \in BOOLEAN
    BY <1>1 DEF Next, Kept, Damaged
  <2>2. ~spoilt' => IInv'
    BY <1>1, Unspoilt, Inductive
  <2> QED BY <2>1, <2>2 DEF Kept
<1>2. CASE UNCHANGED vars
  <2>1. spoilt' = spoilt
    BY <1>2 DEF vars
  <2> QED BY <1>2, <2>1, Stutters DEF Kept
<1> QED BY <1>1, <1>2

(* Every state satisfies the inductive invariant, or the tables had been   *)
(* damaged.                                                                *)
THEOREM Invariance == Spec => []Kept
<1>1. Init => Kept
  <2> SUFFICES ASSUME Init PROVE Kept
    OBVIOUS
  <2>1. spoilt = FALSE
    BY DEF Init
  <2> QED BY <2>1, InitInvariant DEF Kept
<1>2. Kept /\ [Next]_vars => Kept'
  BY KeptByStep
<1> QED BY <1>1, <1>2, PTL DEF Spec

(* pp_ref stays within its 16 bits, an entry of a table is a page with its *)
(* permissions or absent, env_free() never runs past a directory or table. *)
THEOREM TypeCorrect == Spec => [](~spoilt => TypeOK)
<1>1. Kept => (~spoilt => TypeOK)
  BY Consequences DEF Kept
<1> QED BY <1>1, Invariance, PTL

(* pp_ref[p] is the number of pointers to p, and the free list has each    *)
(* page without one exactly once, in the middle of env_free() too, for as  *)
(* long as no negative permission has been granted and no page has had     *)
(* REFMOD pointers.                                                        *)
THEOREM CountsTheorem == Spec => []CountsExact
<1>1. Kept => CountsExact
  <2> SUFFICES ASSUME Kept, ~spoilt PROVE CountsExact
    BY DEF CountsExact
  <2> QED BY Consequences DEF Kept
<1> QED BY <1>1, Invariance, PTL

(* For as long, a page directory or page table is used once, and no        *)
(* program maps it.                                                        *)
THEOREM TablesTheorem == Spec => []TablesPrivate
<1>1. Kept => TablesPrivate
  <2> SUFFICES ASSUME Kept, ~spoilt PROVE TablesPrivate
    BY DEF TablesPrivate
  <2> QED BY Consequences DEF Kept
<1> QED BY <1>1, Invariance, PTL

(* No step makes a page writable that programs could only read.            *)
THEOREM WriteTheorem == Spec => NoWriteGained
<1>1. Kept /\ [Next]_vars
      => [\A p \in PAGE : Mapped(p) /\ ~Writable(p) /\ Mapped(p)' /\ ~spoilt' => ~Writable(p)']_vars
  <2> SUFFICES ASSUME Kept, Next, NEW p \in PAGE, Mapped(p), ~Writable(p), ~spoilt'
               PROVE  ~Writable(p)'
    OBVIOUS
  <2>1. NoGain(Mem, env_pgdir, Mem', env_pgdir')
    BY Unspoilt, Inductive
  <2>2. MappedIn(Mem, env_pgdir, p) /\ ~WritableIn(Mem, env_pgdir, p)
    BY MappedEq DEF Mapped, Writable
  <2>3. ~WritableIn(Mem', env_pgdir', p)
    BY <2>1, <2>2 DEF NoGain
  <2> QED BY <2>3, MappedEq DEF Writable
<1> QED BY <1>1, Invariance, PTL DEF Spec, NoWriteGained

(* A system call that returns an error has changed no page, no mapping and *)
(* no environment.                                                         *)
THEOREM FailureTheorem == Spec => FailureChangesNothing
<1>1. Kept /\ [Next]_vars
      => [ret' \in {"E_INVAL", "E_NO_MEM"} /\ ~spoilt' => UNCHANGED <<memvars, envvars>>]_vars
  <2> SUFFICES ASSUME Kept, Next, ret' \in {"E_INVAL", "E_NO_MEM"}, ~spoilt'
               PROVE  UNCHANGED <<memvars, envvars>>
    OBVIOUS
  <2>1. FailsCleanly
    BY Unspoilt, Failures
  <2> QED BY <2>1 DEF FailsCleanly
<1> QED BY <1>1, Invariance, PTL DEF Spec, FailureChangesNothing

(* There are too few environments and table entries to point to one page   *)
(* REFMOD times.                                                           *)
LEMMA FewPointers ==
    ASSUME Cardinality(ENVS) + Cardinality(ENVS \X Dir) + Cardinality(ENVS \X VA) < REFMOD,
           NEW m, NEW g, NEW p
    PROVE  References(m, g, p) < REFMOD
<1>1. IsFiniteSet(ENVS) /\ IsFiniteSet(Dir) /\ IsFiniteSet(Table)
  BY PmapAssumption, FS_Interval DEF Dir, Table
<1>2. IsFiniteSet(VA)
  BY <1>1, FS_Product DEF VA
<1>3. IsFiniteSet(ENVS \X Dir) /\ IsFiniteSet(ENVS \X VA)
  BY <1>1, <1>2, FS_Product
<1>4. /\ Cardinality(DirRefs(g, p)) <= Cardinality(ENVS)
      /\ Cardinality(TableRefs(m, g, p)) <= Cardinality(ENVS \X Dir)
      /\ Cardinality(UserRefs(m, g, p)) <= Cardinality(ENVS \X VA)
  <2>1. /\ DirRefs(g, p) \in SUBSET ENVS
        /\ TableRefs(m, g, p) \in SUBSET (ENVS \X Dir)
        /\ UserRefs(m, g, p) \in SUBSET (ENVS \X VA)
    BY DEF DirRefs, TableRefs, UserRefs
  <2> QED BY <1>1, <1>3, <2>1, FS_Subset
<1>5. /\ Cardinality(ENVS) \in Nat /\ Cardinality(ENVS \X Dir) \in Nat
      /\ Cardinality(ENVS \X VA) \in Nat /\ REFMOD \in Nat
  BY <1>1, <1>3, FS_CardinalityType, PmapAssumption
<1> QED BY <1>4, <1>5, Finite DEF References

(* Nothing else damages the page tables: where there are too few entries   *)
(* for REFMOD pointers and no program asks for a negative permission, they *)
(* never are.                                                              *)
THEOREM NeverSpoilt ==
    ASSUME Cardinality(ENVS) + Cardinality(ENVS \X Dir) + Cardinality(ENVS \X VA) < REFMOD,
           \A perm \in PERMS : "SIGN" \notin perm
    PROVE  Spec => []~spoilt
<1> DEFINE Clean == IInv /\ spoilt = FALSE
<1>1. Init => Clean
  BY InitInvariant DEF Init
<1>2. ASSUME Clean, [Next]_vars PROVE Clean'
  <2>1. CASE UNCHANGED vars
    BY <1>2, <2>1, Stutters DEF vars
  <2>2. CASE Next
    <3>1. NoWrap'
      BY FewPointers DEF NoWrap
    <3>2. IInv'
      BY <1>2, <2>2, <3>1, Inductive DEF Tame, Next
    <3>3. NoneAstray'
      <4>1. Mem' \in Memory /\ Mem'.pd = pd' /\ Mem'.pt = pt'
        BY <3>2 DEF IInv, Sound, Mem
      <4>2. \A x \in PlainPte : x # NULL => x.pg # NULL
        BY PmapAssumption DEF PlainPte, PlainEntry
      <4> QED BY <4>1, <4>2 DEF NoneAstray, Memory
    <3> QED BY <1>2, <2>2, <3>1, <3>2, <3>3 DEF Next, Damaged
  <2> QED BY <1>2, <2>1, <2>2
<1>3. Clean => ~spoilt
  OBVIOUS
<1> QED BY <1>1, <1>2, <1>3, PTL DEF Spec
=============================================================================
