-------------------------- MODULE SimulatorProofs --------------------------
(***************************************************************************)
(* The queue simulator keeps its persons and its goods, and times them      *)
(* right: an invariant that every step of Simulator preserves, and what the *)
(* run checks as its consequences.                                          *)
(*                                                                         *)
(* Goods are summed over finite sets, so the first part is about sums.  The *)
(* induction it needs is that of the library in the form without an         *)
(* operator: every set of naturals has a least element (WFMin).             *)
(***************************************************************************)
EXTENDS Simulator, FiniteSetTheorems, SequenceTheorems, WellFoundedInduction, TLAPS

-----------------------------------------------------------------------------
(* Induction on the natural numbers, for a set of them.                    *)

LEMMA Induction ==
  ASSUME NEW T, 0 \in T, \A n \in Nat : n \in T => n + 1 \in T
  PROVE  Nat \subseteq T
<1> DEFINE R == {q \in Nat \X Nat : q[1] < q[2]}
           U == Nat \ T
<1>1. IsWellFoundedOn(R, Nat)
  BY NatLessThanWellFounded DEF OpToRel
<1>2. SUFFICES ASSUME U # {} PROVE FALSE
  OBVIOUS
<1>3. PICK x \in U : \A y \in U : ~ (<<y, x>> \in R)
  BY <1>1, <1>2, WFMin
<1>4. x # 0 /\ x \in Nat
  OBVIOUS
<1>5. x - 1 \in Nat /\ x - 1 < x
  BY <1>4
<1>6. x - 1 \in T
  BY <1>3, <1>5
<1>7. x \in T
  BY <1>6, <1>5
<1> QED
  BY <1>7

-----------------------------------------------------------------------------
(* Sums over finite sets of persons.  Sums(ps, S) is the function that     *)
(* MapThenFoldSet chooses: the sum of each subset of S, an element at a    *)
(* time.                                                                   *)

AnyOf(s) == CHOOSE x \in s : TRUE

Recursion(g, ps, S) ==
    g = [s \in SUBSET S |-> IF s = {} THEN 0 ELSE ps[AnyOf(s)].collected + g[s \ {AnyOf(s)}]]

Sums(ps, S) == CHOOSE g : Recursion(g, ps, S)

LEMMA CollectedDef ==
  ASSUME NEW ps, NEW S
  PROVE  Collected(ps, S) = Sums(ps, S)[S]
BY DEF Collected, MapThenSumSet, MapThenFoldSet, Sums, Recursion, AnyOf

(* The finite sets of at most n elements.                                  *)
UpTo(n, S) == {s \in SUBSET S : Cardinality(s) <= n}

LEMMA AnyOfRemoved ==
  ASSUME NEW S, IsFiniteSet(S), NEW n \in Nat, NEW s \in UpTo(n + 1, S), s # {}
  PROVE  AnyOf(s) \in s /\ \A x \in s : s \ {x} \in UpTo(n, S)
<1>1. AnyOf(s) \in s
  BY DEF AnyOf
<1>2. IsFiniteSet(s) /\ Cardinality(s) \in Nat
  BY FS_Subset, FS_CardinalityType DEF UpTo
<1>3. ASSUME NEW x \in s PROVE s \ {x} \in UpTo(n, S)
  <2>1. Cardinality(s \ {x}) = Cardinality(s) - 1
    BY <1>2, FS_RemoveElement
  <2> QED
    BY <2>1, <1>2 DEF UpTo
<1> QED
  BY <1>1, <1>3

LEMMA NoneUpTo ==
  ASSUME NEW S, IsFiniteSet(S), NEW s \in UpTo(0, S)
  PROVE  s = {}
<1>1. IsFiniteSet(s) /\ Cardinality(s) \in Nat /\ Cardinality(s) <= 0
  BY FS_Subset, FS_CardinalityType DEF UpTo
<1>2. Cardinality(s) = 0
  BY <1>1
<1> QED
  BY <1>1, <1>2, FS_EmptySet

(* A statement about all the subsets of a finite set is proved for those   *)
(* of at most n elements, by induction on n: T is the set of its n.        *)
LEMMA SubsetInduction ==
  ASSUME NEW S, IsFiniteSet(S), NEW Good, {} \in Good,
         \A s \in SUBSET S : s # {} /\ (\A x \in s : s \ {x} \in Good) => s \in Good
  PROVE  \A s \in SUBSET S : s \in Good
<1> DEFINE T == {n \in Nat : UpTo(n, S) \subseteq Good}
<1>1. 0 \in T
  BY NoneUpTo
<1>2. ASSUME NEW n \in Nat, n \in T PROVE n + 1 \in T
  <2>1. ASSUME NEW s \in UpTo(n + 1, S), s # {} PROVE s \in Good
    <3>1. \A x \in s : s \ {x} \in Good
      BY <1>2, <2>1, AnyOfRemoved
    <3> QED
      BY <3>1, <2>1 DEF UpTo
  <2>2. UpTo(n + 1, S) \subseteq Good
    BY <2>1
  <2> QED
    BY <2>2
<1>3. Nat \subseteq T
  <2> HIDE DEF T
  <2> QED
    BY <1>1, <1>2, Induction
<1>4. ASSUME NEW s \in SUBSET S PROVE s \in Good
  <2>1. Cardinality(s) \in Nat
    BY FS_Subset, FS_CardinalityType
  <2>2. s \in UpTo(Cardinality(s), S)
    BY <2>1 DEF UpTo
  <2> QED
    BY <2>1, <2>2, <1>3
<1> QED
  BY <1>4

(* There is a function as MapThenFoldSet chooses it.                       *)
LEMMA SumsExist ==
  ASSUME NEW ps, NEW S, IsFiniteSet(S)
  PROVE  Recursion(Sums(ps, S), ps, S)
<1> DEFINE Step(g, s) == IF s = {} THEN 0 ELSE ps[AnyOf(s)].collected + g[s \ {AnyOf(s)}]
           Partial(n, g) == g = [s \in UpTo(n, S) |-> Step(g, s)]
           T == {n \in Nat : \E g : Partial(n, g)}
<1>1. 0 \in T
  <2> DEFINE g == [s \in UpTo(0, S) |-> 0]
  <2>1. Partial(0, g)
    BY NoneUpTo
  <2> QED
    BY <2>1
<1>2. ASSUME NEW n \in Nat, n \in T PROVE n + 1 \in T
  <2>1. PICK g : Partial(n, g)
    BY <1>2
  <2> DEFINE h == [s \in UpTo(n + 1, S) |-> Step(g, s)]
  <2>2. ASSUME NEW s \in UpTo(n, S) PROVE h[s] = g[s]
    <3>1. s \in UpTo(n + 1, S)
      BY FS_Subset, FS_CardinalityType DEF UpTo
    <3> QED
      BY <3>1, <2>1
  <2>3. ASSUME NEW s \in UpTo(n + 1, S) PROVE Step(g, s) = Step(h, s)
    <3>1. CASE s = {}
      BY <3>1
    <3>2. CASE s # {}
      <4>1. s \ {AnyOf(s)} \in UpTo(n, S)
        BY <3>2, AnyOfRemoved
      <4>2. h[s \ {AnyOf(s)}] = g[s \ {AnyOf(s)}]
        BY <4>1, <2>2
      <4> QED
        BY <4>2, <3>2
    <3> QED
      BY <3>1, <3>2
  <2>4. Partial(n + 1, h)
    BY <2>3
  <2> HIDE DEF h, Partial
  <2> QED
    BY <2>4
<1>3. Nat \subseteq T
  <2> HIDE DEF T
  <2> QED
    BY <1>1, <1>2, Induction
<1>4. Cardinality(S) \in T
  BY <1>3, FS_CardinalityType
<1>5. UpTo(Cardinality(S), S) = SUBSET S
  BY FS_Subset DEF UpTo
<1>6. PICK g : g = [s \in SUBSET S |-> Step(g, s)]
  BY <1>4, <1>5
<1>7. Recursion(g, ps, S)
  BY <1>6 DEF Recursion
<1> QED
  BY <1>7 DEF Sums

(* The same function, subset by subset.                                    *)
LEMMA SumsUnfold ==
  ASSUME NEW ps, NEW S, IsFiniteSet(S)
  PROVE  \A s \in SUBSET S :
            Sums(ps, S)[s] = IF s = {} THEN 0
                             ELSE ps[AnyOf(s)].collected + Sums(ps, S)[s \ {AnyOf(s)}]
<1> DEFINE g == Sums(ps, S)
<1> HIDE DEF g
<1>1. Recursion(g, ps, S)
  BY SumsExist DEF g
<1>2. g = [u \in SUBSET S |-> IF u = {} THEN 0 ELSE ps[AnyOf(u)].collected + g[u \ {AnyOf(u)}]]
  BY <1>1 DEF Recursion
<1>3. \A s \in SUBSET S : g[s] = IF s = {} THEN 0 ELSE ps[AnyOf(s)].collected + g[s \ {AnyOf(s)}]
  BY <1>2
<1> QED
  BY <1>3 DEF g

(* Sums over the same persons' goods are the same.                         *)
LEMMA SumsSame ==
  ASSUME NEW ps, NEW qs, NEW S, NEW U, IsFiniteSet(S), IsFiniteSet(U),
         NEW V, V \subseteq S, V \subseteq U, \A x \in V : ps[x].collected = qs[x].collected
  PROVE  Sums(ps, S)[V] = Sums(qs, U)[V]
<1> DEFINE Good == {s \in SUBSET V : Sums(ps, S)[s] = Sums(qs, U)[s]}
           Take(g, rs, s) == IF s = {} THEN 0 ELSE rs[AnyOf(s)].collected + g[s \ {AnyOf(s)}]
<1>1. \A s \in SUBSET U : Sums(qs, U)[s] = Take(Sums(qs, U), qs, s)
  BY SumsUnfold
<1>2. {} \in Good
  BY SumsUnfold
<1>3. ASSUME NEW s \in SUBSET V, s # {}, \A x \in s : s \ {x} \in Good PROVE s \in Good
  <2>1. AnyOf(s) \in s
    BY <1>3 DEF AnyOf
  <2>2. Sums(ps, S)[s \ {AnyOf(s)}] = Sums(qs, U)[s \ {AnyOf(s)}]
    BY <2>1, <1>3
  <2>3. Sums(ps, S)[s] = ps[AnyOf(s)].collected + Sums(ps, S)[s \ {AnyOf(s)}]
    BY <1>3, SumsUnfold
  <2>4. Sums(qs, U)[s] = qs[AnyOf(s)].collected + Sums(qs, U)[s \ {AnyOf(s)}]
    BY <1>3, <1>1
  <2> QED
    BY <2>1, <2>2, <2>3, <2>4
<1>4. \A s \in SUBSET V : s \in Good
  <2>1. IsFiniteSet(V)
    BY FS_Subset
  <2> HIDE DEF Good
  <2> QED
    BY <2>1, <1>2, <1>3, SubsetInduction
<1> QED
  BY <1>4

LEMMA SumsNat ==
  ASSUME NEW ps, NEW S, IsFiniteSet(S), \A x \in S : ps[x].collected \in Nat
  PROVE  \A s \in SUBSET S : Sums(ps, S)[s] \in Nat
<1> DEFINE Good == {s \in SUBSET S : Sums(ps, S)[s] \in Nat}
<1>1. {} \in Good
  <2>1. Sums(ps, S)[{}] = 0
    BY SumsUnfold
  <2> QED
    BY <2>1
<1>2. ASSUME NEW s \in SUBSET S, s # {}, \A x \in s : s \ {x} \in Good PROVE s \in Good
  <2>1. AnyOf(s) \in s
    BY <1>2 DEF AnyOf
  <2>2. Sums(ps, S)[s] = ps[AnyOf(s)].collected + Sums(ps, S)[s \ {AnyOf(s)}]
    BY <1>2, SumsUnfold
  <2> QED
    BY <2>1, <2>2, <1>2
<1>3. \A s \in SUBSET S : s \in Good
  <2> HIDE DEF Good
  <2> QED
    BY <1>1, <1>2, SubsetInduction
<1> QED
  BY <1>3

(* It does not matter which element is taken first.                        *)
LEMMA SumsTake ==
  ASSUME NEW ps, NEW S, IsFiniteSet(S), \A x \in S : ps[x].collected \in Nat
  PROVE  \A s \in SUBSET S : \A x \in s : Sums(ps, S)[s] = ps[x].collected + Sums(ps, S)[s \ {x}]
<1> DEFINE g == Sums(ps, S)
           Good == {u \in SUBSET S : \A x \in u : g[u] = ps[x].collected + g[u \ {x}]}
<1> HIDE DEF g
<1>1. {} \in Good
  OBVIOUS
<1>2. ASSUME NEW u \in SUBSET S, u # {}, \A x \in u : u \ {x} \in Good PROVE u \in Good
  <2> DEFINE y == AnyOf(u)
  <2>1. y \in u
    BY <1>2 DEF AnyOf
  <2>2. g[u] = ps[y].collected + g[u \ {y}]
    BY <1>2, SumsUnfold DEF g
  <2> HIDE DEF y
  <2>3. ASSUME NEW x \in u, x # y PROVE g[u] = ps[x].collected + g[u \ {x}]
    <3>1. g[u \ {y}] = ps[x].collected + g[u \ {x, y}]
      <4>1. (u \ {y}) \ {x} = u \ {x, y}
        OBVIOUS
      <4> QED
        BY <4>1, <2>1, <2>3, <1>2
    <3>2. g[u \ {x}] = ps[y].collected + g[u \ {x, y}]
      <4>1. (u \ {x}) \ {y} = u \ {x, y}
        OBVIOUS
      <4> QED
        BY <4>1, <2>1, <2>3, <1>2
    <3>3. g[u \ {x, y}] \in Nat
      BY SumsNat DEF g
    <3>4. ps[x].collected \in Nat /\ ps[y].collected \in Nat
      BY <2>1
    <3> QED
      BY <3>1, <3>2, <3>3, <3>4, <2>2
  <2> QED
    BY <2>2, <2>3
<1>3. \A u \in SUBSET S : u \in Good
  <2> HIDE DEF Good
  <2> QED
    BY <1>1, <1>2, SubsetInduction
<1> QED
  BY <1>3 DEF g

LEMMA CollectedNone ==
  ASSUME NEW ps
  PROVE  Collected(ps, {}) = 0
BY CollectedDef, SumsUnfold, FS_EmptySet

LEMMA CollectedNat ==
  ASSUME NEW ps, NEW S, IsFiniteSet(S), \A x \in S : ps[x].collected \in Nat
  PROVE  Collected(ps, S) \in Nat
BY CollectedDef, SumsNat

(* The sum depends on the goods of the persons in the set only.            *)
LEMMA CollectedSame ==
  ASSUME NEW ps, NEW qs, NEW S, IsFiniteSet(S), \A x \in S : ps[x].collected = qs[x].collected
  PROVE  Collected(ps, S) = Collected(qs, S)
BY CollectedDef, SumsSame

(* One more person.                                                        *)
LEMMA CollectedMore ==
  ASSUME NEW ps, NEW S, IsFiniteSet(S), NEW x, x \notin S,
         \A y \in S \cup {x} : ps[y].collected \in Nat
  PROVE  Collected(ps, S \cup {x}) = ps[x].collected + Collected(ps, S)
<1>1. IsFiniteSet(S \cup {x})
  BY FS_AddElement
<1>2. (S \cup {x}) \ {x} = S
  OBVIOUS
<1>3. Sums(ps, S \cup {x})[S \cup {x}] = ps[x].collected + Sums(ps, S \cup {x})[S]
  BY <1>1, <1>2, SumsTake
<1>4. Sums(ps, S \cup {x})[S] = Sums(ps, S)[S]
  BY <1>1, SumsSame
<1> QED
  BY <1>3, <1>4, CollectedDef

-----------------------------------------------------------------------------
(* The other operators.                                                    *)

LEMMA MinIn ==
  ASSUME NEW S, S \subseteq Nat, S # {}
  PROVE  Min(S) \in S
<1> DEFINE R == {q \in Nat \X Nat : q[1] < q[2]}
<1>1. IsWellFoundedOn(R, Nat)
  BY NatLessThanWellFounded DEF OpToRel
<1>2. PICK x \in S : \A y \in S : ~ (<<y, x>> \in R)
  BY <1>1, WFMin
<1>3. ASSUME NEW y \in S PROVE x <= y
  <2>1. <<y, x>> \in Nat \X Nat /\ x \in Nat /\ y \in Nat
    OBVIOUS
  <2> QED
    BY <1>2, <2>1
<1> QED
  BY <1>2, <1>3 DEF Min

LEMMA Removed ==
  ASSUME NEW S, NEW s \in Seq(S), NEW k \in 1 .. Len(s)
  PROVE  /\ RemoveAt(s, k) \in Seq(S)
         /\ Len(RemoveAt(s, k)) = Len(s) - 1
         /\ \A j \in 1 .. Len(s) - 1 : RemoveAt(s, k)[j] = IF j < k THEN s[j] ELSE s[j + 1]
<1> DEFINE f == SubSeq(s, 1, k - 1)
           b == SubSeq(s, k + 1, Len(s))
<1>1. f \in Seq(S) /\ Len(f) = k - 1 /\ \A j \in 1 .. k - 1 : f[j] = s[j]
  BY SubSeqProperties
<1>2. b \in Seq(S) /\ Len(b) = Len(s) - k /\ \A j \in 1 .. Len(s) - k : b[j] = s[k + j]
  BY SubSeqProperties
<1> HIDE DEF f, b
<1>3. /\ f \o b \in Seq(S)
      /\ Len(f \o b) = Len(f) + Len(b)
      /\ \A j \in 1 .. Len(f) + Len(b) : (f \o b)[j] = IF j <= Len(f) THEN f[j] ELSE b[j - Len(f)]
  BY <1>1, <1>2, ConcatProperties
<1>4. \A j \in 1 .. Len(s) - 1 : (f \o b)[j] = IF j < k THEN s[j] ELSE s[j + 1]
  BY <1>1, <1>2, <1>3
<1>5. RemoveAt(s, k) = f \o b
  BY DEF f, b, RemoveAt
<1> QED
  BY <1>1, <1>2, <1>3, <1>4, <1>5

-----------------------------------------------------------------------------
(* The inductive invariant.                                                *)

Status == {"IN_QUEUE", "AT_COUNTER", "OUT_QUEUE"}

Persons == [status : Status, till : Int, counter : Counter \cup {-1},
            required : Nat, collected : Nat, in_queue_entry : Int, counter_entry : Int,
            out_queue_entry : Int, out_queue_exit : Int]

Counters == [status : {"CLOSED", "OPEN", "OCCUPIED"}, till : Int, goods : Nat]

Calls == {"time_++", "JoinExitQueue", "ExitExitQueue", "JoinEntryQueue", "FindEmptyCounters",
          "ExitEntryQueue", "ended"}

Types ==
    /\ time_ \in Int /\ time_ >= -1 /\ pc \in Calls /\ (pc # "time_++" => time_ >= 0)
    /\ turn \in Nat \ {0} /\ open_counters \subseteq Counter
    /\ stock \in [Counter -> Nat] /\ counters_ \in [Counter -> Counters]
    /\ person \in Seq(Persons)
    /\ in_queue_ \in Seq(1 .. Len(person))
    /\ at_counters_ \in Seq(1 .. Len(person))
    /\ out_queue_ \in Seq(1 .. Len(person))

(* A queue holds exactly the persons of its status.                        *)
Holds(q, s) ==
    /\ \A j \in 1 .. Len(q) : person[q[j]].status = s /\ person[q[j]].out_queue_exit = -1
    /\ \A p \in 1 .. Len(person) : person[p].status = s /\ person[p].out_queue_exit = -1 =>
          \E j \in 1 .. Len(q) : q[j] = p

Places ==
    /\ Holds(in_queue_, "IN_QUEUE") /\ Holds(at_counters_, "AT_COUNTER")
    /\ Holds(out_queue_, "OUT_QUEUE")
    /\ \A p \in 1 .. Len(person) : person[p].status # "OUT_QUEUE" => person[p].out_queue_exit = -1

(* The entry queue and the counters keep the order of arrival.             *)
Increasing(q) == \A j, k \in 1 .. Len(q) : j < k => q[j] < q[k]

Order ==
    /\ Increasing(in_queue_) /\ Increasing(at_counters_)
    /\ \A j \in 1 .. Len(at_counters_), k \in 1 .. Len(in_queue_) : at_counters_[j] < in_queue_[k]
    /\ \A j, k \in 1 .. Len(out_queue_) : out_queue_[j] = out_queue_[k] => j = k

(* The times of a person, at time t.                                       *)
Times(r, t) ==
    /\ r.status = "IN_QUEUE" => r.counter = -1 /\ r.out_queue_entry = -1
    /\ r.status = "AT_COUNTER" =>
         /\ 0 <= r.counter_entry /\ r.counter_entry <= t
         /\ r.till = r.counter_entry + r.collected /\ r.out_queue_entry = -1
    /\ r.status = "OUT_QUEUE" =>
         /\ r.counter_entry + r.collected <= r.out_queue_entry
         /\ 0 <= r.out_queue_entry /\ r.out_queue_entry <= t
         /\ r.out_queue_exit # -1 => r.out_queue_entry + r.collected <= r.out_queue_exit
    /\ r.out_queue_exit <= t

(* r leaves the exit queue late enough behind s, who has left.             *)
Behind(till, r, s) == s.out_queue_exit # -1 => s.out_queue_exit + r.collected <= till

(* Only the person at the front of the exit queue waits for a time.        *)
Front_ ==
    \A j \in 1 .. Len(out_queue_) :
       LET r == person[out_queue_[j]] IN
       r.till # -1 => /\ j = 1 /\ r.out_queue_entry + r.collected <= r.till
                      /\ \A q \in 1 .. Len(person) : Behind(r.till, r, person[q])

Spaced ==
    \A p, q \in 1 .. Len(person) :
       p # q /\ person[p].out_queue_exit # -1 /\ person[q].out_queue_exit # -1 =>
          \/ person[p].out_queue_exit >= person[q].out_queue_exit + person[p].collected
          \/ person[q].out_queue_exit >= person[p].out_queue_exit + person[q].collected

Waits == (\A p \in 1 .. Len(person) : Times(person[p], time_)) /\ Front_ /\ Spaced

(* Somebody ahead of p has left a counter at t.                            *)
Left(p, t) == \E q \in 1 .. Len(person) : q < p /\ person[q].out_queue_entry = t

(* Until when everybody at a counter has been looked at: now, or in        *)
(* JoinExitQueue() the tick before for those it has not come to.           *)
Seen(j) == IF pc = "JoinExitQueue" /\ turn <= j THEN time_ - 1 ELSE time_

Late ==
    \A j \in 1 .. Len(at_counters_) : \A t \in 0 .. Seen(j) :
       LET p == at_counters_[j] IN
       person[p].till <= t /\ person[p].counter_entry < t => Left(p, t)

SInv == Types /\ Places /\ Order /\ Waits /\ Late /\ GoodsConserved

-----------------------------------------------------------------------------
(* The steps that move nobody.                                             *)

LEMMA QuietStep ==
  ASSUME SInv, Types', Late', time_ <= time_', UNCHANGED <<person, queues, stock>>,
         \A c \in Counter : counters_'[c].goods = counters_[c].goods
  PROVE  SInv'
<1>1. Places' /\ Order'
  BY DEF SInv, Places, Holds, Order, Increasing, queues
<1>2. Waits'
  <2>1. ASSUME NEW p \in 1 .. Len(person) PROVE Times(person'[p], time_')
    <3>1. Times(person[p], time_)
      BY DEF SInv, Waits
    <3>2. person[p] \in Persons /\ time_ \in Int /\ time_' \in Int
      BY DEF SInv, Types
    <3>3. /\ person[p].counter_entry \in Int /\ person[p].out_queue_entry \in Int
          /\ person[p].out_queue_exit \in Int
      BY <3>2 DEF Persons
    <3> QED
      BY <3>1, <3>2, <3>3 DEF Times
  <2>2. Front_' /\ Spaced'
    BY DEF SInv, Waits, Front_, Behind, Spaced, queues
  <2> QED
    BY <2>1, <2>2 DEF Waits
<1>3. GoodsConserved'
  <2>1. People' = People
    BY DEF People
  <2> QED
    BY <2>1 DEF SInv, GoodsConserved
<1> QED
  BY <1>1, <1>2, <1>3 DEF SInv

LEMMA TickStep ==
  ASSUME SInv, Tick
  PROVE  SInv'
<1>1. Types'
  BY DEF SInv, Types, Tick, Call, Calls, queues
<1>2. Late'
  <2>1. \A j \in 1 .. Len(at_counters_) : Seen(j)' = Seen(j)
    BY DEF SInv, Types, Tick, Call, Seen, queues
  <2> QED
    BY <2>1 DEF SInv, Late, Left, Tick, queues
<1>3. time_ <= time_' /\ UNCHANGED <<person, queues, stock, counters_>>
  BY DEF SInv, Types, Tick, queues
<1> QED
  BY <1>1, <1>2, <1>3, QuietStep

(* Nobody is left to be looked at, or the next one stays.                  *)
LEMMA StayStep ==
  ASSUME SInv, JoinExitQueue, turn <= Len(at_counters_) => ~Finished(at_counters_[turn])
  PROVE  SInv'
<1>0. Len(at_counters_) \in Nat /\ turn \in Nat /\ turn >= 1 /\ time_ \in Int
  BY DEF SInv, Types
<1>1. UNCHANGED <<person, queues, stock, counters_, time_, open_counters>>
  BY <1>0 DEF JoinExitQueue, queues
<1>2. Types'
  BY <1>0, <1>1 DEF SInv, Types, JoinExitQueue, Call, Calls, queues
<1>3. Late'
  <2> SUFFICES ASSUME NEW j \in 1 .. Len(at_counters_), NEW t \in 0 .. Seen(j)',
                      person[at_counters_[j]].till <= t, person[at_counters_[j]].counter_entry < t
               PROVE  Left(at_counters_[j], t)'
    BY <1>1 DEF Late, queues
  <2>1. Left(at_counters_[j], t)' <=> Left(at_counters_[j], t)
    BY <1>1 DEF Left, queues
  <2>2. Seen(j)' = Seen(j) \/ (j = turn /\ ~Finished(at_counters_[j]) /\ Seen(j)' = time_)
    <3>1. CASE turn > Len(at_counters_)
      BY <3>1, <1>0, <1>1 DEF Seen, JoinExitQueue, Call
    <3>2. CASE turn <= Len(at_counters_)
      <4>1. pc = "JoinExitQueue" /\ pc' = pc /\ turn' = turn + 1
        BY <3>2, <1>0 DEF JoinExitQueue
      <4>2. CASE j = turn
        BY <4>1, <4>2, <3>2, <1>0, <1>1 DEF Seen
      <4>3. CASE j # turn
        BY <4>1, <4>3, <3>2, <1>0, <1>1 DEF Seen
      <4> QED
        BY <4>2, <4>3
    <3> QED
      BY <3>1, <3>2, <1>0
  <2>3. CASE Seen(j)' = Seen(j)
    BY <2>1, <2>3 DEF SInv, Late
  <2>4. CASE ~Finished(at_counters_[j]) /\ Seen(j)' = time_
    <3>1. person[at_counters_[j]] \in Persons
      BY DEF SInv, Types
    <3>2. person[at_counters_[j]].till \in Int
      BY <3>1 DEF Persons
    <3>3. FALSE
      BY <3>2, <2>4, <1>0 DEF Finished
    <3> QED
      BY <3>3
  <2> QED
    BY <2>2, <2>3, <2>4
<1> QED
  BY <1>0, <1>1, <1>2, <1>3, QuietStep

(* The steps that end a loop, and FindEmptyCounters().                     *)
LEMMA LoopEndStep ==
  ASSUME SInv, pc # "JoinExitQueue", pc' # "JoinExitQueue", Types', time_' = time_,
         UNCHANGED <<person, queues, stock>>,
         \A c \in Counter : counters_'[c].goods = counters_[c].goods
  PROVE  SInv'
<1>1. \A j : Seen(j)' = Seen(j)
  BY DEF Seen
<1>2. Late'
  BY <1>1 DEF SInv, Late, Left, queues
<1>3. time_ <= time_'
  BY DEF SInv, Types
<1> QED
  BY <1>2, <1>3, QuietStep

LEMMA FindStep ==
  ASSUME SInv, FindEmptyCounters
  PROVE  SInv'
<1>1. ASSUME NEW c \in Counter
      PROVE  Refreshed(counters_[c]) \in Counters /\ Refreshed(counters_[c]).goods = counters_[c].goods
  <2> DEFINE r == counters_[c]
             closed == [r EXCEPT !.status = "CLOSED", !.till = -1]
             opened == [r EXCEPT !.status = "OPEN"]
  <2>1. r \in Counters
    BY DEF SInv, Types
  <2>2. closed \in Counters /\ closed.goods = r.goods
    <3> DEFINE u == [r EXCEPT !.status = "CLOSED"]
    <3>1. u \in Counters /\ u.goods = r.goods
      BY <2>1 DEF Counters
    <3> HIDE DEF u
    <3>2. [u EXCEPT !.till = -1] \in Counters /\ [u EXCEPT !.till = -1].goods = r.goods
      BY <3>1 DEF Counters
    <3> QED
      BY <3>2 DEF u
  <2>3. opened \in Counters /\ opened.goods = r.goods
    BY <2>1 DEF Counters
  <2>4. Refreshed(r) \in {closed, opened, r}
    BY DEF Refreshed
  <2> HIDE DEF closed, opened
  <2> QED
    BY <2>1, <2>2, <2>3, <2>4
<1>2. counters_' \in [Counter -> Counters] /\ open_counters' \subseteq Counter
  BY <1>1 DEF FindEmptyCounters
<1>3. Types'
  BY <1>2 DEF SInv, Types, FindEmptyCounters, Call, Calls, queues
<1>4. pc # "JoinExitQueue" /\ pc' # "JoinExitQueue" /\ time_' = time_
      /\ UNCHANGED <<person, queues, stock>>
  BY DEF FindEmptyCounters, Call
<1>5. \A c \in Counter : counters_'[c].goods = counters_[c].goods
  BY <1>1 DEF FindEmptyCounters
<1> QED
  BY <1>3, <1>4, <1>5, LoopEndStep

(* The other loops come to their end.                                      *)
LEMMA EndStep ==
  ASSUME SInv, UNCHANGED <<person, queues>>,
         \/ ExitExitQueue \/ JoinEntryQueue
         \/ ExitEntryQueue /\ (open_counters = {} \/ in_queue_ = <<>>)
  PROVE  SInv'
<1>1. /\ pc # "JoinExitQueue" /\ pc' # "JoinExitQueue" /\ pc' \in Calls
      /\ turn' \in Nat \ {0} /\ open_counters' \subseteq Counter
      /\ (pc' # "time_++" => pc # "time_++")
      /\ UNCHANGED <<time_, stock, counters_>>
  BY DEF SInv, Types, Calls, Call, ExitExitQueue, JoinEntryQueue, ExitEntryQueue
<1>2. Types'
  BY <1>1 DEF SInv, Types, queues
<1> QED
  BY <1>1, <1>2, LoopEndStep

-----------------------------------------------------------------------------
(* The steps that change a person.                                         *)

(* One person's record becomes r.                                          *)
Becomes(p, r) ==
    /\ r \in Persons /\ person' \in Seq(Persons) /\ Len(person') = Len(person)
    /\ \A q \in 1 .. Len(person) : person'[q] = IF q = p THEN r ELSE person[q]

LEMMA Replaced ==
  ASSUME SInv, NEW p \in 1 .. Len(person), NEW r \in Persons,
         person' = [person EXCEPT ![p] = r]
  PROVE  Becomes(p, r)
<1>1. person \in Seq(Persons)
  BY DEF SInv, Types
<1> QED
  BY <1>1, ExceptSeq DEF Becomes

(* What the invariant says of the three queues.                            *)
Queue(q, s) ==
    /\ q \in Seq(1 .. Len(person)) /\ Len(q) \in Nat
    /\ \A j \in 1 .. Len(q) :
          /\ q[j] \in 1 .. Len(person) /\ person[q[j]] \in Persons
          /\ person[q[j]].status = s /\ person[q[j]].out_queue_exit = -1 /\ Times(person[q[j]], time_)
    /\ \A j, k \in 1 .. Len(q) : q[j] = q[k] => j = k

LEMMA Queues ==
  ASSUME SInv
  PROVE  /\ Queue(in_queue_, "IN_QUEUE") /\ Queue(at_counters_, "AT_COUNTER")
         /\ Queue(out_queue_, "OUT_QUEUE")
         /\ Len(person) \in Nat /\ time_ \in Int
<1>1. /\ in_queue_ \in Seq(1 .. Len(person)) /\ at_counters_ \in Seq(1 .. Len(person))
      /\ out_queue_ \in Seq(1 .. Len(person)) /\ person \in Seq(Persons) /\ Len(person) \in Nat
      /\ time_ \in Int
  BY DEF SInv, Types
<1>2. ASSUME NEW q \in Seq(1 .. Len(person)), NEW s, Holds(q, s)
      PROVE  /\ Len(q) \in Nat
             /\ \A j \in 1 .. Len(q) :
                   /\ q[j] \in 1 .. Len(person) /\ person[q[j]] \in Persons
                   /\ person[q[j]].status = s /\ person[q[j]].out_queue_exit = -1
                   /\ Times(person[q[j]], time_)
  <2>1. \A j \in 1 .. Len(q) : q[j] \in 1 .. Len(person) /\ person[q[j]] \in Persons
    BY <1>1
  <2>2. \A j \in 1 .. Len(q) : Times(person[q[j]], time_)
    BY <2>1 DEF SInv, Waits
  <2> QED
    BY <2>1, <2>2, <1>2 DEF Holds
<1>3. ASSUME NEW q \in Seq(1 .. Len(person)), Increasing(q),
             NEW j \in 1 .. Len(q), NEW k \in 1 .. Len(q), q[j] = q[k]
      PROVE  j = k
  <2>1. q[j] \in Int /\ q[k] \in Int
    BY <1>1
  <2>2. ~ (j < k) /\ ~ (k < j)
    BY <2>1, <1>3 DEF Increasing
  <2> QED
    BY <2>2
<1> QED
  BY <1>1, <1>2, <1>3 DEF SInv, Places, Order, Queue

(* The sums of the counters when nobody collects anything.                 *)
LEMMA GoodsKept ==
  ASSUME SInv, NEW p \in 1 .. Len(person), NEW r, Becomes(p, r),
         r.counter = person[p].counter, r.collected = person[p].collected,
         UNCHANGED <<counters_, stock>>
  PROVE  GoodsConserved'
<1> SUFFICES ASSUME NEW c \in Counter
             PROVE  counters_[c].goods + Collected(person', {q \in People' : person'[q].counter = c})
                    = stock[c]
  BY DEF GoodsConserved
<1> DEFINE S == {q \in People : person[q].counter = c}
<1>1. People = 1 .. Len(person) /\ People' = 1 .. Len(person)
  BY LenProperties DEF SInv, Types, People, Becomes
<1>2. {q \in People' : person'[q].counter = c} = S
  BY <1>1 DEF Becomes
<1>3. IsFiniteSet(S)
  <2>1. Len(person) \in Nat
    BY DEF SInv, Types
  <2>2. IsFiniteSet(1 .. Len(person))
    BY <2>1, FS_Interval
  <2> QED
    BY <2>2, <1>1, FS_Subset
<1>4. \A q \in S : person[q].collected = person'[q].collected
  BY <1>1 DEF Becomes
<1>5. Collected(person, S) = Collected(person', S)
  <2> HIDE DEF S
  <2> QED
    BY <1>3, <1>4, CollectedSame
<1>6. counters_[c].goods + Collected(person, S) = stock[c]
  BY DEF SInv, GoodsConserved
<1> QED
  BY <1>2, <1>5, <1>6

(* JoinExitQueue() moves a person.                                         *)
LEMMA LeaveStep ==
  ASSUME SInv, JoinExitQueue, turn <= Len(at_counters_), Finished(at_counters_[turn])
  PROVE  SInv'
<1> DEFINE p == at_counters_[turn]
           r == Leaving(p)
           n == Len(at_counters_)
<1>1. /\ turn \in 1 .. n /\ n \in Nat /\ time_ \in Int /\ Len(person) \in Nat
      /\ Len(out_queue_) \in Nat
  BY DEF SInv, Types
<1>2. p \in 1 .. Len(person) /\ person[p] \in Persons
  BY <1>1 DEF SInv, Types
<1>3. /\ person[p].status = "AT_COUNTER" /\ person[p].out_queue_exit = -1
      /\ \A q \in 1 .. Len(person) : Times(person[q], time_)
  BY <1>1 DEF SInv, Places, Holds, Waits
<1>4. /\ pc = "JoinExitQueue" /\ Leave(p) /\ turn' = turn + 1
      /\ UNCHANGED <<pc, time_, open_counters, counters_, in_queue_, stock>>
  BY <1>1 DEF JoinExitQueue
<1>5. /\ r \in Persons /\ r.status = "OUT_QUEUE" /\ r.till = -1 /\ r.out_queue_entry = time_
      /\ r.counter = person[p].counter /\ r.collected = person[p].collected
      /\ r.counter_entry = person[p].counter_entry /\ r.out_queue_exit = -1
  <2> DEFINE a == [person[p] EXCEPT !.status = "OUT_QUEUE"]
             b == [a EXCEPT !.till = -1]
  <2>1. /\ a \in Persons /\ a.status = "OUT_QUEUE" /\ a.counter = person[p].counter
        /\ a.collected = person[p].collected /\ a.counter_entry = person[p].counter_entry
        /\ a.out_queue_exit = -1
    BY <1>2, <1>3 DEF Persons, Status
  <2> HIDE DEF a
  <2>2. /\ b \in Persons /\ b.status = "OUT_QUEUE" /\ b.till = -1 /\ b.counter = person[p].counter
        /\ b.collected = person[p].collected /\ b.counter_entry = person[p].counter_entry
        /\ b.out_queue_exit = -1
    BY <2>1 DEF Persons
  <2> HIDE DEF b
  <2>3. r = [b EXCEPT !.out_queue_entry = time_]
    BY DEF Leaving, a, b
  <2> QED
    BY <2>2, <2>3, <1>1 DEF Persons
<1> HIDE DEF p, r
<1>6. Becomes(p, r)
  BY <1>2, <1>4, <1>5, Replaced DEF Leave, r
<1>7. /\ at_counters_' \in Seq(1 .. Len(person)) /\ Len(at_counters_') = n - 1
      /\ \A j \in 1 .. n - 1 : at_counters_'[j] = IF j < turn THEN at_counters_[j] ELSE at_counters_[j + 1]
  <2>1. at_counters_ \in Seq(1 .. Len(person))
    BY DEF SInv, Types
  <2> QED
    BY <2>1, <1>1, <1>4, Removed DEF Leave
<1>8. /\ out_queue_' \in Seq(1 .. Len(person)) /\ Len(out_queue_') = Len(out_queue_) + 1
      /\ \A j \in 1 .. Len(out_queue_) : out_queue_'[j] = out_queue_[j]
      /\ out_queue_'[Len(out_queue_) + 1] = p
  <2>1. out_queue_ \in Seq(1 .. Len(person))
    BY DEF SInv, Types
  <2> QED
    BY <2>1, <1>2, <1>4, AppendProperties DEF Leave
<1>9. Types'
  BY <1>1, <1>4, <1>6, <1>7, <1>8 DEF SInv, Types, Becomes
<1> DEFINE m == Len(out_queue_)
<1>20. \A j \in 1 .. n : at_counters_[j] \in 1 .. Len(person) /\ (at_counters_[j] = p => j = turn)
  BY <1>1, Queues DEF Queue, p
<1>21. \A j \in 1 .. m : out_queue_[j] \in 1 .. Len(person) /\ out_queue_[j] # p
  BY <1>3, Queues DEF Queue
<1>22. \A j \in 1 .. Len(in_queue_) : in_queue_[j] \in 1 .. Len(person) /\ in_queue_[j] # p
  BY <1>3, Queues DEF Queue
<1>10. Places'
  <2>1. Holds(in_queue_, "IN_QUEUE")'
    BY <1>4, <1>5, <1>6, <1>22 DEF SInv, Places, Holds, Becomes
  <2>2. Holds(at_counters_, "AT_COUNTER")'
    <3>1. ASSUME NEW j \in 1 .. n - 1
          PROVE  person'[at_counters_'[j]].status = "AT_COUNTER" /\ person'[at_counters_'[j]].out_queue_exit = -1
      <4>1. PICK k \in 1 .. n : at_counters_'[j] = at_counters_[k] /\ k # turn
        BY <1>1, <1>7
      <4> QED
        BY <4>1, <1>6, <1>20 DEF SInv, Places, Holds, Becomes
    <3>2. ASSUME NEW q \in 1 .. Len(person), person'[q].status = "AT_COUNTER", person'[q].out_queue_exit = -1
          PROVE  \E j \in 1 .. n - 1 : at_counters_'[j] = q
      <4>1. q # p /\ person'[q] = person[q]
        BY <3>2, <1>5, <1>6 DEF Becomes
      <4>2. PICK k \in 1 .. n : at_counters_[k] = q
        BY <4>1, <3>2 DEF SInv, Places, Holds
      <4>3. k # turn
        BY <4>1, <4>2 DEF p
      <4>4. CASE k < turn
        <5>1. k \in 1 .. n - 1 /\ at_counters_'[k] = q
          BY <4>2, <4>4, <1>1, <1>7
        <5> QED
          BY <5>1
      <4>5. CASE k > turn
        <5>1. k - 1 \in 1 .. n - 1 /\ at_counters_'[k - 1] = q
          BY <4>2, <4>5, <1>1, <1>7
        <5> QED
          BY <5>1
      <4> QED
        BY <4>3, <4>4, <4>5, <1>1
    <3> QED
      BY <3>1, <3>2, <1>6, <1>7 DEF Holds, Becomes
  <2>3. Holds(out_queue_, "OUT_QUEUE")'
    <3>1. ASSUME NEW j \in 1 .. m + 1
          PROVE  person'[out_queue_'[j]].status = "OUT_QUEUE" /\ person'[out_queue_'[j]].out_queue_exit = -1
      <4>1. CASE j = m + 1
        BY <4>1, <1>2, <1>5, <1>6, <1>8 DEF Becomes
      <4>2. CASE j \in 1 .. m
        <5>1. out_queue_'[j] = out_queue_[j] /\ person'[out_queue_[j]] = person[out_queue_[j]]
          BY <4>2, <1>6, <1>8, <1>21 DEF Becomes
        <5> QED
          BY <4>2, <5>1, Queues DEF Queue
      <4> QED
        BY <4>1, <4>2, <1>1
    <3>2. ASSUME NEW q \in 1 .. Len(person), person'[q].status = "OUT_QUEUE", person'[q].out_queue_exit = -1
          PROVE  \E j \in 1 .. m + 1 : out_queue_'[j] = q
      <4>1. CASE q = p
        <5>1. m + 1 \in 1 .. m + 1 /\ out_queue_'[m + 1] = q
          BY <4>1, <1>1, <1>8
        <5> QED
          BY <5>1
      <4>2. CASE q # p
        <5>1. PICK j \in 1 .. m : out_queue_[j] = q
          BY <4>2, <3>2, <1>6 DEF SInv, Places, Holds, Becomes
        <5>2. j \in 1 .. m + 1 /\ out_queue_'[j] = q
          BY <5>1, <1>1, <1>8
        <5> QED
          BY <5>2
      <4> QED
        BY <4>1, <4>2
    <3> QED
      BY <3>1, <3>2, <1>6, <1>8 DEF Holds, Becomes
  <2>4. \A q \in 1 .. Len(person') : person'[q].status # "OUT_QUEUE" => person'[q].out_queue_exit = -1
    BY <1>5, <1>6 DEF SInv, Places, Becomes
  <2> QED
    BY <2>1, <2>2, <2>3, <2>4 DEF Places
<1>11. Order'
  <2>1. Increasing(in_queue_)'
    BY <1>4 DEF SInv, Order, Increasing
  <2>2. ASSUME NEW j \in 1 .. n - 1, NEW k \in 1 .. n - 1, j < k PROVE at_counters_'[j] < at_counters_'[k]
    <3> DEFINE a == IF j < turn THEN j ELSE j + 1
               b == IF k < turn THEN k ELSE k + 1
    <3>1. a \in 1 .. n /\ b \in 1 .. n /\ a < b
      BY <2>2, <1>1
    <3>2. at_counters_'[j] = at_counters_[a] /\ at_counters_'[k] = at_counters_[b]
      BY <1>7
    <3> HIDE DEF a, b
    <3> QED
      BY <3>1, <3>2 DEF SInv, Order, Increasing
  <2>3. ASSUME NEW j \in 1 .. n - 1, NEW k \in 1 .. Len(in_queue_) PROVE at_counters_'[j] < in_queue_[k]
    <3> DEFINE a == IF j < turn THEN j ELSE j + 1
    <3>1. a \in 1 .. n /\ at_counters_'[j] = at_counters_[a]
      BY <1>1, <1>7
    <3> HIDE DEF a
    <3> QED
      BY <3>1 DEF SInv, Order
  <2>4. ASSUME NEW j \in 1 .. m + 1, NEW k \in 1 .. m + 1, out_queue_'[j] = out_queue_'[k] PROVE j = k
    <3>1. \A i \in 1 .. m : out_queue_'[i] = out_queue_[i] /\ out_queue_'[i] # p
      BY <1>8, <1>21
    <3>2. out_queue_'[m + 1] = p
      BY <1>8
    <3>3. j \in 1 .. m <=> k \in 1 .. m
      BY <3>1, <3>2, <2>4, <1>1
    <3>4. CASE j \in 1 .. m
      BY <3>1, <3>3, <3>4, <2>4 DEF SInv, Order
    <3>5. CASE j \notin 1 .. m
      BY <3>3, <3>5, <1>1
    <3> QED
      BY <3>4, <3>5
  <2> QED
    BY <2>1, <2>2, <2>3, <2>4, <1>4, <1>7, <1>8 DEF Order, Increasing
<1>12. Waits'
  <2>1. Times(r, time_')
    <3>1. Times(person[p], time_) /\ person[p].collected \in Nat /\ person[p].counter_entry \in Int
      BY <1>2, <1>3 DEF Persons
    <3>2. person[p].till \in Int /\ person[p].till <= time_ /\ time_ >= 0
      BY <1>2, <1>4 DEF Persons, Finished, p, SInv, Types
    <3> QED
      BY <3>1, <3>2, <1>1, <1>3, <1>4, <1>5 DEF Times
  <2>2. \A q \in 1 .. Len(person) : Times(person'[q], time_')
    BY <2>1, <1>3, <1>4, <1>6 DEF Becomes
  <2>3. Front_'
    <3> SUFFICES ASSUME NEW j \in 1 .. m + 1, person'[out_queue_'[j]].till # -1
                 PROVE  LET u == person'[out_queue_'[j]] IN
                        /\ j = 1 /\ u.out_queue_entry + u.collected <= u.till
                        /\ \A q \in 1 .. Len(person) : Behind(u.till, u, person'[q])
      BY <1>6, <1>8 DEF Front_, Becomes
    <3>1. j # m + 1
      BY <1>2, <1>5, <1>6, <1>8 DEF Becomes
    <3>2. j \in 1 .. m /\ out_queue_'[j] = out_queue_[j] /\ person'[out_queue_[j]] = person[out_queue_[j]]
      BY <3>1, <1>1, <1>6, <1>8, <1>21 DEF Becomes
    <3>3. \A q \in 1 .. Len(person) : person'[q].out_queue_exit = person[q].out_queue_exit
      BY <1>3, <1>5, <1>6 DEF Becomes
    <3> QED
      BY <3>2, <3>3 DEF SInv, Waits, Front_, Behind
  <2>4. Spaced'
    BY <1>5, <1>6 DEF SInv, Waits, Spaced, Becomes
  <2> QED
    BY <2>2, <2>3, <2>4, <1>6 DEF Waits, Becomes
<1>13. Late'
  <2> SUFFICES ASSUME NEW j \in 1 .. n - 1, NEW t \in 0 .. Seen(j)',
                      person'[at_counters_'[j]].till <= t, person'[at_counters_'[j]].counter_entry < t
               PROVE  \E q \in 1 .. Len(person) : q < at_counters_'[j] /\ person'[q].out_queue_entry = t
    <3>1. Len(at_counters_)' = n - 1 /\ Len(person)' = Len(person)
      BY <1>6, <1>7 DEF Becomes
    <3> QED
      BY <3>1 DEF Late, Left
  <2> DEFINE a == IF j < turn THEN j ELSE j + 1
             v == at_counters_[a]
  <2>1. a \in 1 .. n /\ a # turn /\ at_counters_'[j] = v
    <3>1. a \in 1 .. n /\ a # turn
      BY <1>1
    <3>2. at_counters_'[j] = v
      BY <1>7
    <3> QED
      BY <3>1, <3>2
  <2>2. v \in 1 .. Len(person) /\ v # p /\ person'[v] = person[v]
    BY <2>1, <1>6, <1>20 DEF Becomes
  <2>3. t \in Int /\ 0 <= t /\ t <= time_ /\ (t <= Seen(a) \/ (t = time_ /\ turn < a))
    BY <2>1, <1>1, <1>4 DEF Seen
  <2> HIDE DEF a, v
  <2>4. CASE t <= Seen(a)
    <3>1. PICK q \in 1 .. Len(person) : q < v /\ person[q].out_queue_entry = t
      <4>1. t \in 0 .. Seen(a)
        BY <2>3, <2>4, <1>1 DEF Seen
      <4> QED
        BY <4>1, <2>1, <2>2 DEF SInv, Late, Left, v
    <3>2. t # -1
      BY <2>3
    <3>3. q # p
      BY <3>1, <3>2, <1>2, <1>3 DEF Times
    <3> QED
      BY <3>1, <3>3, <2>1, <1>6 DEF Becomes
  <2>5. CASE t = time_ /\ turn < a
    <3>1. p < v
      BY <2>1, <2>5, <1>1 DEF SInv, Order, Increasing, p, v
    <3> QED
      BY <3>1, <2>1, <2>5, <1>2, <1>5, <1>6 DEF Becomes
  <2> QED
    BY <2>3, <2>4, <2>5
<1>14. GoodsConserved'
  BY <1>2, <1>4, <1>5, <1>6, GoodsKept
<1> QED
  BY <1>9, <1>10, <1>11, <1>12, <1>13, <1>14 DEF SInv

(* Late while nobody comes to a counter or leaves one.                     *)
LEMMA LateKept ==
  ASSUME SInv, pc # "JoinExitQueue", pc' # "JoinExitQueue", UNCHANGED <<time_, at_counters_>>,
         \A j \in 1 .. Len(at_counters_) : person'[at_counters_[j]] = person[at_counters_[j]],
         Len(person) <= Len(person'), Len(person') \in Nat,
         \A q \in 1 .. Len(person) : person'[q].out_queue_entry = person[q].out_queue_entry
  PROVE  Late'
<1> SUFFICES ASSUME NEW j \in 1 .. Len(at_counters_), NEW t \in 0 .. time_,
                    person[at_counters_[j]].till <= t, person[at_counters_[j]].counter_entry < t
             PROVE  \E q \in 1 .. Len(person') :
                       q < at_counters_[j] /\ person'[q].out_queue_entry = t
  BY DEF Late, Left, Seen
<1>1. PICK q \in 1 .. Len(person) : q < at_counters_[j] /\ person[q].out_queue_entry = t
  BY DEF SInv, Late, Left, Seen
<1>2. q \in 1 .. Len(person')
  BY Queues
<1> QED
  BY <1>1, <1>2

(* The time the person at the front of the exit queue waits for is late    *)
(* enough.                                                                 *)
LEMMA FrontTill ==
  ASSUME SInv, pc = "ExitExitQueue", out_queue_ # <<>>, NEW p, p = Head(out_queue_)
  PROVE  /\ p = out_queue_[1] /\ 1 \in 1 .. Len(out_queue_) /\ p \in 1 .. Len(person)
         /\ person[p] \in Persons /\ person[p].status = "OUT_QUEUE" /\ person[p].out_queue_exit = -1
         /\ Times(person[p], time_) /\ time_ \in Int /\ time_ >= 0
         /\ Till(p) \in Int /\ Till(p) >= 0
         /\ person[p].out_queue_entry + person[p].collected <= Till(p)
         /\ \A q \in 1 .. Len(person) : Behind(Till(p), person[p], person[q])
<1>1. p = out_queue_[1] /\ 1 \in 1 .. Len(out_queue_)
  BY Queues DEF Queue
<1>2. /\ p \in 1 .. Len(person) /\ person[p] \in Persons /\ person[p].status = "OUT_QUEUE"
      /\ person[p].out_queue_exit = -1 /\ Times(person[p], time_)
  BY <1>1, Queues DEF Queue
<1>3. time_ \in Int /\ time_ >= 0
  BY DEF SInv, Types
<1>4. /\ person[p].till \in Int /\ person[p].collected \in Nat /\ person[p].out_queue_entry \in Int
      /\ 0 <= person[p].out_queue_entry /\ person[p].out_queue_entry <= time_
  BY <1>2 DEF Persons, Times
<1>5. ASSUME NEW q \in 1 .. Len(person) PROVE person[q].out_queue_exit \in Int /\ person[q].out_queue_exit <= time_
  <2>1. person[q] \in Persons /\ Times(person[q], time_)
    BY DEF SInv, Types, Waits
  <2> QED
    BY <2>1 DEF Persons, Times
<1>6. CASE person[p].till = -1
  <2>1. Till(p) = time_ + person[p].collected
    BY <1>6 DEF Till
  <2> QED
    BY <2>1, <1>1, <1>2, <1>3, <1>4, <1>5 DEF Behind
<1>7. CASE person[p].till # -1
  <2>1. Till(p) = person[p].till
    BY <1>7 DEF Till
  <2>2. /\ person[p].out_queue_entry + person[p].collected <= person[p].till
        /\ \A q \in 1 .. Len(person) : Behind(person[p].till, person[p], person[q])
    BY <1>1, <1>7 DEF SInv, Waits, Front_
  <2> QED
    BY <2>1, <2>2, <1>1, <1>2, <1>3, <1>4
<1> QED
  BY <1>6, <1>7

(* ExitExitQueue() lets the person at the front wait or leave.             *)
LEMMA ExitStep ==
  ASSUME SInv, ExitExitQueue, out_queue_ # <<>>
  PROVE  SInv'
<1> DEFINE p == Head(out_queue_)
           till == Till(p)
           m == Len(out_queue_)
<1>1. /\ p = out_queue_[1] /\ 1 \in 1 .. m /\ p \in 1 .. Len(person)
      /\ person[p] \in Persons /\ person[p].status = "OUT_QUEUE" /\ person[p].out_queue_exit = -1
      /\ Times(person[p], time_) /\ time_ \in Int /\ time_ >= 0
      /\ till \in Int /\ till >= 0
      /\ person[p].out_queue_entry + person[p].collected <= till
      /\ \A q \in 1 .. Len(person) : Behind(till, person[p], person[q])
  BY FrontTill DEF ExitExitQueue
<1>2. /\ pc = "ExitExitQueue" /\ pc' \in {"ExitExitQueue", "JoinEntryQueue"} /\ turn' \in Nat \ {0}
      /\ UNCHANGED <<time_, open_counters, counters_, in_queue_, at_counters_, stock>>
  BY DEF ExitExitQueue, Call, SInv, Types
<1>3. \/ /\ till <= time_ /\ out_queue_' = Tail(out_queue_)
         /\ person' = [person EXCEPT ![p].till = till, ![p].out_queue_exit = time_]
      \/ /\ out_queue_' = out_queue_
         /\ person' = [person EXCEPT ![p].till = till]
  BY DEF ExitExitQueue
<1> HIDE DEF p, till
<1> DEFINE Moves(r) ==
              /\ Becomes(p, r) /\ r.status = "OUT_QUEUE" /\ r.till = till
              /\ r.collected = person[p].collected /\ r.counter = person[p].counter
              /\ r.counter_entry = person[p].counter_entry
              /\ r.out_queue_entry = person[p].out_queue_entry
              /\ \/ r.out_queue_exit = -1 /\ out_queue_' = out_queue_
                 \/ r.out_queue_exit = time_ /\ till <= time_ /\ out_queue_' = Tail(out_queue_)
<1>4. \E r : Moves(r)
  <2> DEFINE a == [person[p] EXCEPT !.till = till]
             b == [a EXCEPT !.out_queue_exit = time_]
  <2>1. /\ a \in Persons /\ a.status = "OUT_QUEUE" /\ a.till = till
        /\ a.collected = person[p].collected /\ a.counter = person[p].counter
        /\ a.counter_entry = person[p].counter_entry
        /\ a.out_queue_entry = person[p].out_queue_entry /\ a.out_queue_exit = -1
    BY <1>1 DEF Persons
  <2>2. person \in Seq(Persons) /\ p \in DOMAIN person
    BY <1>1 DEF SInv, Types
  <2>3. CASE out_queue_' = out_queue_ /\ person' = [person EXCEPT ![p].till = till]
    <3>1. person' = [person EXCEPT ![p] = a]
      BY <2>3
    <3> HIDE DEF a
    <3>2. Becomes(p, a)
      BY <3>1, <2>1, <1>1, Replaced
    <3>3. Moves(a)
      BY <3>2, <2>1, <2>3
    <3> QED
      BY <3>3
  <2>4. CASE /\ till <= time_ /\ out_queue_' = Tail(out_queue_)
             /\ person' = [person EXCEPT ![p].till = till, ![p].out_queue_exit = time_]
    <3>1. person' = [person EXCEPT ![p] = b]
      BY <2>2, <2>4
    <3> HIDE DEF a
    <3>2. /\ b \in Persons /\ b.status = "OUT_QUEUE" /\ b.till = till
          /\ b.collected = person[p].collected /\ b.counter = person[p].counter
          /\ b.counter_entry = person[p].counter_entry
          /\ b.out_queue_entry = person[p].out_queue_entry /\ b.out_queue_exit = time_
      BY <2>1, <1>1 DEF Persons
    <3> HIDE DEF b
    <3>3. Becomes(p, b)
      BY <3>1, <3>2, <1>1, Replaced
    <3>4. Moves(b)
      BY <3>2, <3>3, <2>4
    <3> QED
      BY <3>4
  <2> QED
    BY <1>3, <2>3, <2>4
<1>5. PICK r : Moves(r)
  BY <1>4
<1>6. /\ \A q \in 1 .. Len(person) : q # p => person'[q] = person[q]
      /\ person'[p] = r /\ Len(person') = Len(person)
  BY <1>1, <1>5 DEF Becomes
<1>7. /\ \A j \in 1 .. Len(in_queue_) : in_queue_[j] # p
      /\ \A j \in 1 .. Len(at_counters_) : at_counters_[j] # p
      /\ \A j \in 1 .. m : out_queue_[j] = p => j = 1
  BY <1>1, Queues DEF Queue
<1>8. PICK d \in {0, 1} :
        /\ out_queue_' \in Seq(1 .. Len(person)) /\ m \in Nat /\ Len(out_queue_') = m - d
        /\ \A j \in 1 .. m - d : out_queue_'[j] = out_queue_[j + d]
        /\ IF d = 0 THEN r.out_queue_exit = -1 ELSE r.out_queue_exit = time_ /\ till <= time_
  <2>1. out_queue_ \in Seq(1 .. Len(person)) /\ m \in Nat /\ out_queue_ # <<>>
    BY Queues DEF Queue
  <2>2. CASE r.out_queue_exit = -1 /\ out_queue_' = out_queue_
    BY <2>1, <2>2
  <2>3. CASE r.out_queue_exit = time_ /\ till <= time_ /\ out_queue_' = Tail(out_queue_)
    <3>1. /\ out_queue_' \in Seq(1 .. Len(person)) /\ Len(out_queue_') = m - 1
          /\ \A j \in 1 .. m - 1 : out_queue_'[j] = out_queue_[j + 1]
      BY <2>1, <2>3, HeadTailProperties
    <3> WITNESS 1 \in {0, 1}
    <3> QED
      BY <2>1, <2>3, <3>1
  <2> QED
    BY <1>5, <2>2, <2>3
<1>9. Types'
  BY <1>2, <1>5, <1>6, <1>8 DEF SInv, Types, Becomes, Calls
<1>10. Places'
  <2>1. Holds(in_queue_, "IN_QUEUE")'
    <3>1. \A j \in 1 .. Len(in_queue_) : person'[in_queue_[j]] = person[in_queue_[j]]
      BY <1>6, <1>7, Queues DEF Queue
    <3> QED
      BY <3>1, <1>2, <1>5, <1>6 DEF SInv, Places, Holds
  <2>2. Holds(at_counters_, "AT_COUNTER")'
    <3>1. \A j \in 1 .. Len(at_counters_) : person'[at_counters_[j]] = person[at_counters_[j]]
      BY <1>6, <1>7, Queues DEF Queue
    <3> QED
      BY <3>1, <1>2, <1>5, <1>6 DEF SInv, Places, Holds
  <2>3. Holds(out_queue_, "OUT_QUEUE")'
    <3>1. ASSUME NEW j \in 1 .. m - d
          PROVE  person'[out_queue_'[j]].status = "OUT_QUEUE" /\ person'[out_queue_'[j]].out_queue_exit = -1
      <4>1. j + d \in 1 .. m /\ out_queue_'[j] = out_queue_[j + d]
        BY <1>8
      <4>2. CASE out_queue_[j + d] = p
        <5>1. d = 0
          BY <4>1, <4>2, <1>7, <1>8
        <5> QED
          BY <5>1, <4>1, <4>2, <1>5, <1>6, <1>8
      <4>3. CASE out_queue_[j + d] # p
        BY <4>1, <4>3, <1>6, Queues DEF Queue
      <4> QED
        BY <4>2, <4>3
    <3>2. ASSUME NEW q \in 1 .. Len(person), person'[q].status = "OUT_QUEUE", person'[q].out_queue_exit = -1
          PROVE  \E j \in 1 .. m - d : out_queue_'[j] = q
      <4>1. CASE q = p
        <5>1. d = 0
          BY <4>1, <3>2, <1>1, <1>6, <1>8
        <5>2. 1 \in 1 .. m - d /\ out_queue_'[1] = q
          BY <5>1, <4>1, <1>1, <1>8
        <5> QED
          BY <5>2
      <4>2. CASE q # p
        <5>1. PICK k \in 1 .. m : out_queue_[k] = q
          BY <4>2, <3>2, <1>6 DEF SInv, Places, Holds
        <5>2. k # 1
          BY <5>1, <4>2, <1>1
        <5>3. k - d \in 1 .. m - d /\ out_queue_'[k - d] = q
          BY <5>1, <5>2, <1>8
        <5> QED
          BY <5>3
      <4> QED
        BY <4>1, <4>2
    <3> QED
      BY <3>1, <3>2, <1>6, <1>8 DEF Holds
  <2>4. \A q \in 1 .. Len(person') : person'[q].status # "OUT_QUEUE" => person'[q].out_queue_exit = -1
    BY <1>5, <1>6 DEF SInv, Places
  <2> QED
    BY <2>1, <2>2, <2>3, <2>4 DEF Places
<1>11. Order'
  <2>1. ASSUME NEW j \in 1 .. m - d, NEW k \in 1 .. m - d, out_queue_'[j] = out_queue_'[k] PROVE j = k
    <3>1. j + d \in 1 .. m /\ k + d \in 1 .. m /\ out_queue_[j + d] = out_queue_[k + d]
      BY <2>1, <1>8
    <3>2. j + d = k + d
      BY <3>1, Queues DEF Queue
    <3> QED
      BY <3>2
  <2> QED
    BY <2>1, <1>2, <1>8 DEF SInv, Order, Increasing
<1>12. Waits'
  <2>1. Times(r, time_)
    <3>1. person[p].collected \in Nat /\ person[p].out_queue_entry \in Int
      BY <1>1 DEF Persons
    <3> QED
      BY <3>1, <1>1, <1>5, <1>8 DEF Times
  <2>2. \A q \in 1 .. Len(person') : Times(person'[q], time_')
    BY <2>1, <1>2, <1>6 DEF SInv, Waits
  <2>3. ASSUME NEW q \in 1 .. Len(person), q # p
        PROVE  Behind(till, r, person[q])
    BY <1>1, <1>5 DEF Behind
  <2>4. Front_'
    <3> SUFFICES ASSUME NEW j \in 1 .. m - d, person'[out_queue_'[j]].till # -1
                 PROVE  LET u == person'[out_queue_'[j]] IN
                        /\ j = 1 /\ u.out_queue_entry + u.collected <= u.till
                        /\ \A q \in 1 .. Len(person) : Behind(u.till, u, person'[q])
      BY <1>6, <1>8 DEF Front_
    <3>1. j + d \in 1 .. m /\ out_queue_'[j] = out_queue_[j + d]
      BY <1>8
    <3>2. CASE out_queue_[j + d] = p
      <4>1. d = 0 /\ j = 1 /\ r.out_queue_exit = -1
        BY <3>1, <3>2, <1>7, <1>8
      <4>2. person'[out_queue_'[j]] = r /\ r.out_queue_entry + r.collected <= r.till
        BY <3>1, <3>2, <1>1, <1>5, <1>6
      <4>3. \A q \in 1 .. Len(person) : Behind(till, r, person'[q])
        BY <4>1, <2>3, <1>6 DEF Behind
      <4> QED
        BY <4>1, <4>2, <4>3, <1>5
    <3>3. CASE out_queue_[j + d] # p
      <4>1. person'[out_queue_'[j]] = person[out_queue_[j + d]]
        BY <3>1, <3>3, <1>6, Queues DEF Queue
      <4>2. j + d = 1
        BY <4>1, <3>1 DEF SInv, Waits, Front_
      <4> QED
        BY <4>2, <3>3, <1>1
    <3> QED
      BY <3>2, <3>3
  <2>5. Spaced'
    <3> SUFFICES ASSUME NEW u \in 1 .. Len(person), NEW v \in 1 .. Len(person), u # v,
                        person'[u].out_queue_exit # -1, person'[v].out_queue_exit # -1
                 PROVE  \/ person'[u].out_queue_exit >= person'[v].out_queue_exit + person'[u].collected
                        \/ person'[v].out_queue_exit >= person'[u].out_queue_exit + person'[v].collected
      BY <1>6 DEF Spaced
    <3>1. CASE u # p /\ v # p
      BY <3>1, <1>6 DEF SInv, Waits, Spaced
    <3>2. ASSUME NEW q \in 1 .. Len(person), q # p, r.out_queue_exit # -1, person[q].out_queue_exit # -1
          PROVE  r.out_queue_exit >= person[q].out_queue_exit + r.collected
      <4>1. person[q].out_queue_exit + r.collected <= till /\ r.out_queue_exit = time_ /\ till <= time_
        BY <3>2, <2>3, <1>8 DEF Behind
      <4>2. person[q] \in Persons /\ r \in Persons
        BY <1>5 DEF SInv, Types, Becomes
      <4>3. person[q].out_queue_exit \in Int /\ r.collected \in Int
        BY <4>2 DEF Persons
      <4> QED
        BY <4>1, <4>3, <1>1
    <3>3. CASE u = p
      BY <3>2, <3>3, <1>6
    <3>4. CASE v = p
      BY <3>2, <3>4, <1>6
    <3> QED
      BY <3>1, <3>3, <3>4
  <2> QED
    BY <2>2, <2>4, <2>5 DEF Waits
<1>13. Late'
  <2>1. \A q \in 1 .. Len(person) : person'[q].out_queue_entry = person[q].out_queue_entry
    BY <1>5, <1>6
  <2>2. \A j \in 1 .. Len(at_counters_) : person'[at_counters_[j]] = person[at_counters_[j]]
    BY <1>6, <1>7, Queues DEF Queue
  <2>3. Len(person) \in Nat
    BY Queues
  <2> QED
    BY <2>1, <2>2, <2>3, <1>2, <1>6, LateKept
<1>14. GoodsConserved'
  BY <1>1, <1>2, <1>5, GoodsKept
<1> QED
  BY <1>9, <1>10, <1>11, <1>12, <1>13, <1>14 DEF SInv

(* The persons of a counter are finitely many.                             *)
LEMMA FinitelyMany ==
  ASSUME SInv, NEW S \in SUBSET (1 .. Len(person))
  PROVE  IsFiniteSet(S)
<1>1. IsFiniteSet(1 .. Len(person))
  BY Queues, FS_Interval
<1> QED
  BY <1>1, FS_Subset

(* JoinEntryQueue() makes a person.                                        *)
LEMMA ArriveStep ==
  ASSUME SInv, JoinEntryQueue, turn <= RATE
  PROVE  SInv'
<1> DEFINE n == Len(person)
           m == Len(in_queue_)
<1>1. PICK goods \in Sample : person' = Append(person, NewPerson(goods, time_))
  BY SimulatorAssumption DEF SInv, Types, JoinEntryQueue
<1>2. /\ pc = "JoinEntryQueue" /\ turn' = turn + 1 /\ in_queue_' = Append(in_queue_, n + 1)
      /\ UNCHANGED <<pc, time_, open_counters, counters_, at_counters_, out_queue_, stock>>
  BY SimulatorAssumption DEF SInv, Types, JoinEntryQueue
<1> DEFINE r == NewPerson(goods, time_)
<1>3. /\ r \in Persons /\ r.status = "IN_QUEUE" /\ r.till = -1 /\ r.counter = -1
      /\ r.out_queue_entry = -1 /\ r.out_queue_exit = -1
  BY Queues, SimulatorAssumption DEF NewPerson, Persons, Status
<1>4. time_ \in Int /\ time_ >= -1 /\ n \in Nat /\ m \in Nat /\ person \in Seq(Persons)
  BY Queues DEF SInv, Types
<1> HIDE DEF r
<1>5. /\ person' \in Seq(Persons) /\ Len(person') = n + 1 /\ person'[n + 1] = r
      /\ \A q \in 1 .. n : person'[q] = person[q]
  BY <1>1, <1>3, <1>4, AppendProperties DEF r
<1>6. /\ in_queue_ \in Seq(1 .. n + 1) /\ at_counters_ \in Seq(1 .. n + 1)
      /\ out_queue_ \in Seq(1 .. n + 1)
  <2>1. 1 .. n \subseteq 1 .. n + 1
    BY <1>4
  <2> QED
    BY <2>1, SeqMonotonic DEF SInv, Types
<1>7. /\ in_queue_' \in Seq(1 .. n + 1) /\ Len(in_queue_') = m + 1 /\ in_queue_'[m + 1] = n + 1
      /\ \A j \in 1 .. m : in_queue_'[j] = in_queue_[j]
  <2>1. n + 1 \in 1 .. n + 1
    BY <1>4
  <2> QED
    BY <2>1, <1>2, <1>6, AppendProperties
<1>8. Types'
  BY <1>2, <1>5, <1>6, <1>7 DEF SInv, Types
<1>9. /\ \A j \in 1 .. m : in_queue_[j] \in 1 .. n /\ person'[in_queue_[j]] = person[in_queue_[j]]
      /\ \A j \in 1 .. Len(at_counters_) :
            at_counters_[j] \in 1 .. n /\ person'[at_counters_[j]] = person[at_counters_[j]]
      /\ \A j \in 1 .. Len(out_queue_) :
            out_queue_[j] \in 1 .. n /\ person'[out_queue_[j]] = person[out_queue_[j]]
  BY <1>5, Queues DEF Queue
<1>10. \A q \in 1 .. n + 1 : q \in 1 .. n \/ q = n + 1
  BY <1>4
<1>11. Places'
  <2>1. Holds(at_counters_, "AT_COUNTER")'
    <3>1. \A j \in 1 .. Len(at_counters_) :
             person'[at_counters_[j]].status = "AT_COUNTER" /\ person'[at_counters_[j]].out_queue_exit = -1
      BY <1>9, Queues DEF Queue
    <3>2. ASSUME NEW q \in 1 .. n + 1, person'[q].status = "AT_COUNTER", person'[q].out_queue_exit = -1
          PROVE  \E j \in 1 .. Len(at_counters_) : at_counters_[j] = q
      <4>1. q \in 1 .. n /\ person'[q] = person[q]
        BY <3>2, <1>3, <1>5, <1>10
      <4> QED
        BY <4>1, <3>2 DEF SInv, Places, Holds
    <3> QED
      BY <3>1, <3>2, <1>2, <1>5 DEF Holds
  <2>2. Holds(out_queue_, "OUT_QUEUE")'
    <3>1. \A j \in 1 .. Len(out_queue_) :
             person'[out_queue_[j]].status = "OUT_QUEUE" /\ person'[out_queue_[j]].out_queue_exit = -1
      BY <1>9, Queues DEF Queue
    <3>2. ASSUME NEW q \in 1 .. n + 1, person'[q].status = "OUT_QUEUE", person'[q].out_queue_exit = -1
          PROVE  \E j \in 1 .. Len(out_queue_) : out_queue_[j] = q
      <4>1. q \in 1 .. n /\ person'[q] = person[q]
        BY <3>2, <1>3, <1>5, <1>10
      <4> QED
        BY <4>1, <3>2 DEF SInv, Places, Holds
    <3> QED
      BY <3>1, <3>2, <1>2, <1>5 DEF Holds
  <2>3. Holds(in_queue_, "IN_QUEUE")'
    <3>1. ASSUME NEW j \in 1 .. m + 1
          PROVE  person'[in_queue_'[j]].status = "IN_QUEUE" /\ person'[in_queue_'[j]].out_queue_exit = -1
      <4>1. CASE j \in 1 .. m
        <5>1. in_queue_'[j] = in_queue_[j] /\ person'[in_queue_[j]] = person[in_queue_[j]]
          BY <4>1, <1>7, <1>9
        <5> QED
          BY <4>1, <5>1, Queues DEF Queue
      <4>2. CASE j = m + 1
        BY <4>2, <1>3, <1>5, <1>7
      <4> QED
        BY <4>1, <4>2, <1>4
    <3>2. ASSUME NEW q \in 1 .. n + 1, person'[q].status = "IN_QUEUE", person'[q].out_queue_exit = -1
          PROVE  \E j \in 1 .. m + 1 : in_queue_'[j] = q
      <4>1. CASE q \in 1 .. n
        <5>1. PICK j \in 1 .. m : in_queue_[j] = q
          BY <4>1, <3>2, <1>5 DEF SInv, Places, Holds
        <5>2. j \in 1 .. m + 1 /\ in_queue_'[j] = q
          BY <5>1, <1>4, <1>7
        <5> QED
          BY <5>2
      <4>2. CASE q = n + 1
        <5>1. m + 1 \in 1 .. m + 1 /\ in_queue_'[m + 1] = q
          BY <4>2, <1>4, <1>7
        <5> QED
          BY <5>1
      <4> QED
        BY <4>1, <4>2, <1>10
    <3> QED
      BY <3>1, <3>2, <1>5, <1>7 DEF Holds
  <2>4. \A q \in 1 .. n + 1 : person'[q].status # "OUT_QUEUE" => person'[q].out_queue_exit = -1
    BY <1>3, <1>5, <1>10 DEF SInv, Places
  <2> QED
    BY <2>1, <2>2, <2>3, <2>4, <1>5 DEF Places
<1>12. Order'
  <2>1. ASSUME NEW j \in 1 .. m + 1, NEW k \in 1 .. m + 1, j < k PROVE in_queue_'[j] < in_queue_'[k]
    <3>1. j \in 1 .. m /\ (k \in 1 .. m \/ k = m + 1)
      BY <2>1, <1>4
    <3>2. CASE k \in 1 .. m
      BY <2>1, <3>1, <3>2, <1>7 DEF SInv, Order, Increasing
    <3>3. CASE k = m + 1
      BY <3>1, <3>3, <1>4, <1>7, <1>9
    <3> QED
      BY <3>1, <3>2, <3>3
  <2>2. ASSUME NEW j \in 1 .. Len(at_counters_), NEW k \in 1 .. m + 1
        PROVE  at_counters_[j] < in_queue_'[k]
    <3>1. CASE k \in 1 .. m
      BY <3>1, <1>7 DEF SInv, Order
    <3>2. CASE k = m + 1
      BY <3>2, <1>4, <1>7, <1>9
    <3> QED
      BY <3>1, <3>2, <1>4
  <2> QED
    BY <2>1, <2>2, <1>2, <1>7 DEF SInv, Order, Increasing
<1>13. Waits'
  <2>1. Times(r, time_)
    BY <1>3, <1>4 DEF Times
  <2>2. \A q \in 1 .. n + 1 : Times(person'[q], time_')
    BY <2>1, <1>2, <1>5, <1>10 DEF SInv, Waits
  <2>3. Front_'
    <3> SUFFICES ASSUME NEW j \in 1 .. Len(out_queue_), person[out_queue_[j]].till # -1
                 PROVE  LET u == person[out_queue_[j]] IN
                        /\ j = 1 /\ u.out_queue_entry + u.collected <= u.till
                        /\ \A q \in 1 .. n + 1 : Behind(u.till, u, person'[q])
      BY <1>2, <1>5, <1>9 DEF Front_
    <3>1. /\ j = 1 /\ person[out_queue_[j]].out_queue_entry + person[out_queue_[j]].collected
                       <= person[out_queue_[j]].till
          /\ \A q \in 1 .. n : Behind(person[out_queue_[j]].till, person[out_queue_[j]], person[q])
      BY DEF SInv, Waits, Front_
    <3>2. Behind(person[out_queue_[j]].till, person[out_queue_[j]], r)
      BY <1>3 DEF Behind
    <3>3. \A q \in 1 .. n + 1 : Behind(person[out_queue_[j]].till, person[out_queue_[j]], person'[q])
      BY <3>1, <3>2, <1>5, <1>10
    <3> QED
      BY <3>1, <3>3
  <2>4. Spaced'
    BY <1>3, <1>5, <1>10 DEF SInv, Waits, Spaced
  <2> QED
    BY <2>2, <2>3, <2>4, <1>5 DEF Waits
<1>14. Late'
  <2>1. n <= Len(person') /\ Len(person') \in Nat
    BY <1>4, <1>5
  <2> QED
    BY <2>1, <1>2, <1>5, <1>9, LateKept
<1>15. GoodsConserved'
  <2> SUFFICES ASSUME NEW c \in Counter
               PROVE  counters_[c].goods + Collected(person', {q \in People' : person'[q].counter = c})
                      = stock[c]
    BY <1>2 DEF GoodsConserved
  <2> DEFINE S == {q \in People : person[q].counter = c}
  <2>1. People = 1 .. n /\ People' = 1 .. n + 1 /\ c # -1
    BY <1>4, <1>5, LenProperties DEF People, Counter
  <2>2. {q \in People' : person'[q].counter = c} = S
    BY <2>1, <1>3, <1>5, <1>10
  <2>3. IsFiniteSet(S)
    BY <2>1, FinitelyMany
  <2>4. \A q \in S : person[q].collected = person'[q].collected
    BY <2>1, <1>5
  <2>5. Collected(person, S) = Collected(person', S)
    <3> HIDE DEF S
    <3> QED
      BY <2>3, <2>4, CollectedSame
  <2>6. counters_[c].goods + Collected(person, S) = stock[c]
    BY DEF SInv, GoodsConserved
  <2> QED
    BY <2>2, <2>5, <2>6
<1> QED
  BY <1>8, <1>11, <1>12, <1>13, <1>14, <1>15 DEF SInv

(* ExitEntryQueue() gives an open counter the person at the front.         *)
LEMMA ServeStep ==
  ASSUME SInv, ExitEntryQueue, open_counters # {}, in_queue_ # <<>>
  PROVE  SInv'
<1> DEFINE p == Head(in_queue_)
           c == Min(open_counters)
           g == Given(counters_[c], p)
           r == Served(p, c, counters_[c])
           d == Occupied(counters_[c], p)
           n == Len(in_queue_)
           m == Len(at_counters_)
<1>1. /\ p = in_queue_[1] /\ 1 \in 1 .. n /\ p \in 1 .. Len(person)
      /\ person[p] \in Persons /\ person[p].status = "IN_QUEUE" /\ person[p].out_queue_exit = -1
      /\ Times(person[p], time_)
  <2>1. p = in_queue_[1] /\ 1 \in 1 .. n
    BY Queues DEF Queue
  <2> HIDE DEF p
  <2> QED
    BY <2>1, Queues DEF Queue
<1>2. c \in open_counters /\ c \in Counter /\ c \in Nat /\ c # -1
  <2>1. open_counters \subseteq Counter /\ Counter \subseteq Nat
    BY DEF SInv, Types, Counter
  <2>2. c \in open_counters
    BY <2>1, MinIn
  <2>3. -1 \notin Counter
    BY DEF Counter
  <2> HIDE DEF c
  <2> QED
    BY <2>1, <2>2, <2>3
<1>3. /\ pc = "ExitEntryQueue" /\ open_counters' = open_counters \ {c}
      /\ counters_' = [counters_ EXCEPT ![c] = d] /\ person' = [person EXCEPT ![p] = r]
      /\ in_queue_' = Tail(in_queue_) /\ at_counters_' = Append(at_counters_, p)
      /\ UNCHANGED <<pc, turn, time_, out_queue_, stock>>
  BY DEF ExitEntryQueue
<1>4. time_ \in Int /\ time_ >= 0 /\ Len(person) \in Nat /\ n \in Nat /\ m \in Nat
  BY <1>3, Queues DEF SInv, Types, Queue
<1>5. counters_[c] \in Counters /\ counters_[c].goods \in Nat
  BY <1>2 DEF SInv, Types, Counters
<1> HIDE DEF p, c
<1>6. /\ g \in Nat /\ counters_[c].goods - g \in Nat /\ person[p].required - g \in Nat
  <2>1. person[p].required \in Nat
    BY <1>1 DEF Persons
  <2> QED
    BY <2>1, <1>5 DEF Given
<1>7. d \in Counters /\ d.goods = counters_[c].goods - g
  <2> DEFINE x == [counters_[c] EXCEPT !.status = "OCCUPIED"]
             y == [x EXCEPT !.till = time_ + g]
  <2>1. d = [y EXCEPT !.goods = counters_[c].goods - g]
    BY <1>5 DEF Occupied, Counters
  <2> HIDE DEF g
  <2>2. x \in Counters
    BY <1>5 DEF Counters
  <2> HIDE DEF x
  <2>3. y \in Counters
    BY <2>2, <1>4, <1>6 DEF Counters
  <2> HIDE DEF y, d
  <2> QED
    BY <2>1, <2>3, <1>6 DEF Counters
<1>8. /\ r \in Persons /\ r.status = "AT_COUNTER" /\ r.counter = c /\ r.counter_entry = time_
      /\ r.collected = g /\ r.till = time_ + g /\ r.out_queue_entry = -1 /\ r.out_queue_exit = -1
  <2> DEFINE x1 == [person[p] EXCEPT !.status = "AT_COUNTER"]
             x2 == [x1 EXCEPT !.counter = c]
             x3 == [x2 EXCEPT !.counter_entry = time_]
             x4 == [x3 EXCEPT !.collected = g]
             x5 == [x4 EXCEPT !.required = person[p].required - g]
             x6 == [x5 EXCEPT !.till = time_ + g]
  <2>1. r = x6
    BY <1>1 DEF Served, Persons
  <2>2. person[p].out_queue_entry = -1
    BY <1>1 DEF Times
  <2> HIDE DEF r, g
  <2>3. /\ x1 \in Persons /\ x1.status = "AT_COUNTER" /\ x1.out_queue_entry = -1
        /\ x1.out_queue_exit = -1
    BY <1>1, <2>2 DEF Persons, Status
  <2> HIDE DEF x1
  <2>4. /\ x2 \in Persons /\ x2.status = "AT_COUNTER" /\ x2.out_queue_entry = -1
        /\ x2.out_queue_exit = -1 /\ x2.counter = c
    BY <1>2, <2>3 DEF Persons
  <2> HIDE DEF x2
  <2>5. /\ x3 \in Persons /\ x3.status = "AT_COUNTER" /\ x3.out_queue_entry = -1
        /\ x3.out_queue_exit = -1 /\ x3.counter = c /\ x3.counter_entry = time_
    BY <1>4, <2>4 DEF Persons
  <2> HIDE DEF x3
  <2>6. /\ x4 \in Persons /\ x4.status = "AT_COUNTER" /\ x4.out_queue_entry = -1
        /\ x4.out_queue_exit = -1 /\ x4.counter = c /\ x4.counter_entry = time_
        /\ x4.collected = g
    BY <1>6, <2>5 DEF Persons
  <2> HIDE DEF x4
  <2>7. /\ x5 \in Persons /\ x5.status = "AT_COUNTER" /\ x5.out_queue_entry = -1
        /\ x5.out_queue_exit = -1 /\ x5.counter = c /\ x5.counter_entry = time_
        /\ x5.collected = g
    BY <1>6, <2>6 DEF Persons
  <2> HIDE DEF x5
  <2>8. time_ + g \in Int
    BY <1>4, <1>6
  <2>9. /\ x6 \in Persons /\ x6.status = "AT_COUNTER" /\ x6.out_queue_entry = -1
        /\ x6.out_queue_exit = -1 /\ x6.counter = c /\ x6.counter_entry = time_
        /\ x6.collected = g /\ x6.till = time_ + g
    BY <2>7, <2>8 DEF Persons
  <2> QED
    BY <2>1, <2>9
<1> HIDE DEF r, d, g
<1>9. Becomes(p, r)
  BY <1>1, <1>3, <1>8, Replaced
<1>10. /\ counters_' \in [Counter -> Counters] /\ counters_'[c] = d
       /\ \A e \in Counter : e # c => counters_'[e] = counters_[e]
  BY <1>2, <1>3, <1>7 DEF SInv, Types
<1>11. /\ in_queue_' \in Seq(1 .. Len(person)) /\ Len(in_queue_') = n - 1
       /\ \A j \in 1 .. n - 1 : j + 1 \in 1 .. n /\ in_queue_'[j] = in_queue_[j + 1]
  <2>1. in_queue_ \in Seq(1 .. Len(person))
    BY DEF SInv, Types
  <2> QED
    BY <2>1, <1>1, <1>3, <1>4, HeadTailProperties
<1>12. /\ at_counters_' \in Seq(1 .. Len(person)) /\ Len(at_counters_') = m + 1
       /\ at_counters_'[m + 1] = p /\ \A j \in 1 .. m : at_counters_'[j] = at_counters_[j]
  <2>1. at_counters_ \in Seq(1 .. Len(person))
    BY DEF SInv, Types
  <2> QED
    BY <2>1, <1>1, <1>3, AppendProperties
<1>13. Types'
  BY <1>3, <1>4, <1>9, <1>10, <1>11, <1>12 DEF SInv, Types, Becomes
<1>14. /\ Len(person') = Len(person) /\ person'[p] = r
       /\ \A q \in 1 .. Len(person) : q # p => person'[q] = person[q]
  BY <1>1, <1>9 DEF Becomes
<1>15. /\ \A j \in 1 .. m : person'[at_counters_[j]] = person[at_counters_[j]]
       /\ \A j \in 1 .. Len(out_queue_) : person'[out_queue_[j]] = person[out_queue_[j]]
       /\ \A j \in 1 .. n : in_queue_[j] = p => j = 1
  BY <1>1, <1>14, Queues DEF Queue
<1>16. \A j \in 1 .. m + 1 : j \in 1 .. m \/ j = m + 1
  BY <1>4
<1>17. Places'
  <2>1. Holds(in_queue_, "IN_QUEUE")'
    <3>1. ASSUME NEW j \in 1 .. n - 1
          PROVE  person'[in_queue_'[j]].status = "IN_QUEUE" /\ person'[in_queue_'[j]].out_queue_exit = -1
      <4>1. j + 1 # 1 /\ j + 1 \in 1 .. n /\ in_queue_'[j] = in_queue_[j + 1]
        BY <1>11
      <4>2. person'[in_queue_[j + 1]] = person[in_queue_[j + 1]]
        BY <4>1, <1>14, <1>15, Queues DEF Queue
      <4> QED
        BY <4>1, <4>2, Queues DEF Queue
    <3>2. ASSUME NEW q \in 1 .. Len(person), person'[q].status = "IN_QUEUE", person'[q].out_queue_exit = -1
          PROVE  \E j \in 1 .. n - 1 : in_queue_'[j] = q
      <4>1. q # p /\ person'[q] = person[q]
        BY <3>2, <1>8, <1>14
      <4>2. PICK k \in 1 .. n : in_queue_[k] = q
        BY <4>1, <3>2 DEF SInv, Places, Holds
      <4>3. k # 1
        BY <4>1, <4>2, <1>1
      <4>4. k - 1 \in 1 .. n - 1 /\ (k - 1) + 1 = k
        BY <4>3, <1>4
      <4>5. in_queue_'[k - 1] = q
        BY <4>2, <4>4, <1>11
      <4> QED
        BY <4>4, <4>5
    <3> QED
      BY <3>1, <3>2, <1>11, <1>14 DEF Holds
  <2>2. Holds(at_counters_, "AT_COUNTER")'
    <3>1. ASSUME NEW j \in 1 .. m + 1
          PROVE  person'[at_counters_'[j]].status = "AT_COUNTER" /\ person'[at_counters_'[j]].out_queue_exit = -1
      <4>1. CASE j \in 1 .. m
        <5>1. at_counters_'[j] = at_counters_[j] /\ person'[at_counters_[j]] = person[at_counters_[j]]
          BY <4>1, <1>12, <1>15
        <5> QED
          BY <4>1, <5>1, Queues DEF Queue
      <4>2. CASE j = m + 1
        BY <4>2, <1>8, <1>12, <1>14
      <4> QED
        BY <4>1, <4>2, <1>16
    <3>2. ASSUME NEW q \in 1 .. Len(person), person'[q].status = "AT_COUNTER", person'[q].out_queue_exit = -1
          PROVE  \E j \in 1 .. m + 1 : at_counters_'[j] = q
      <4>1. CASE q = p
        <5>1. m + 1 \in 1 .. m + 1 /\ at_counters_'[m + 1] = q
          BY <4>1, <1>4, <1>12
        <5> QED
          BY <5>1
      <4>2. CASE q # p
        <5>1. PICK j \in 1 .. m : at_counters_[j] = q
          BY <4>2, <3>2, <1>14 DEF SInv, Places, Holds
        <5>2. j \in 1 .. m + 1 /\ at_counters_'[j] = q
          BY <5>1, <1>4, <1>12
        <5> QED
          BY <5>2
      <4> QED
        BY <4>1, <4>2
    <3> QED
      BY <3>1, <3>2, <1>12, <1>14 DEF Holds
  <2>3. Holds(out_queue_, "OUT_QUEUE")'
    <3>1. \A j \in 1 .. Len(out_queue_) :
             person'[out_queue_[j]].status = "OUT_QUEUE" /\ person'[out_queue_[j]].out_queue_exit = -1
      BY <1>15, Queues DEF Queue
    <3>2. ASSUME NEW q \in 1 .. Len(person), person'[q].status = "OUT_QUEUE", person'[q].out_queue_exit = -1
          PROVE  \E j \in 1 .. Len(out_queue_) : out_queue_[j] = q
      <4>1. q # p /\ person'[q] = person[q]
        BY <3>2, <1>8, <1>14
      <4> QED
        BY <4>1, <3>2 DEF SInv, Places, Holds
    <3> QED
      BY <3>1, <3>2, <1>3, <1>14 DEF Holds
  <2>4. \A q \in 1 .. Len(person) : person'[q].status # "OUT_QUEUE" => person'[q].out_queue_exit = -1
    BY <1>8, <1>14 DEF SInv, Places
  <2> QED
    BY <2>1, <2>2, <2>3, <2>4, <1>14 DEF Places
<1>18. Order'
  <2>1. ASSUME NEW j \in 1 .. n - 1, NEW k \in 1 .. n - 1, j < k PROVE in_queue_'[j] < in_queue_'[k]
    <3>1. j + 1 \in 1 .. n /\ k + 1 \in 1 .. n /\ j + 1 < k + 1
      BY <2>1, <1>11
    <3> QED
      BY <3>1, <1>11 DEF SInv, Order, Increasing
  <2>2. ASSUME NEW j \in 1 .. m + 1, NEW k \in 1 .. m + 1, j < k
        PROVE  at_counters_'[j] < at_counters_'[k]
    <3>1. j \in 1 .. m
      BY <2>2, <1>4
    <3>2. CASE k \in 1 .. m
      BY <2>2, <3>1, <3>2, <1>12 DEF SInv, Order, Increasing
    <3>3. CASE k = m + 1
      BY <3>1, <3>3, <1>1, <1>12 DEF SInv, Order
    <3> QED
      BY <3>2, <3>3, <1>16
  <2>3. ASSUME NEW j \in 1 .. m + 1, NEW k \in 1 .. n - 1 PROVE at_counters_'[j] < in_queue_'[k]
    <3>1. k + 1 \in 1 .. n /\ 1 < k + 1 /\ in_queue_'[k] = in_queue_[k + 1]
      BY <1>11
    <3>2. CASE j \in 1 .. m
      BY <3>1, <3>2, <1>12 DEF SInv, Order
    <3>3. CASE j = m + 1
      BY <3>1, <3>3, <1>1, <1>12 DEF SInv, Order, Increasing
    <3> QED
      BY <3>2, <3>3, <1>16
  <2> QED
    BY <2>1, <2>2, <2>3, <1>3, <1>11, <1>12 DEF SInv, Order, Increasing
<1>19. Waits'
  <2>1. Times(r, time_)
    BY <1>4, <1>8 DEF Times
  <2>2. \A q \in 1 .. Len(person) : Times(person'[q], time_')
    BY <2>1, <1>3, <1>14 DEF SInv, Waits
  <2>3. \A q \in 1 .. Len(person) : person'[q].out_queue_exit = person[q].out_queue_exit
    BY <1>1, <1>8, <1>14
  <2>4. Front_'
    <3> SUFFICES ASSUME NEW j \in 1 .. Len(out_queue_), person[out_queue_[j]].till # -1
                 PROVE  LET u == person[out_queue_[j]] IN
                        /\ j = 1 /\ u.out_queue_entry + u.collected <= u.till
                        /\ \A q \in 1 .. Len(person) : Behind(u.till, u, person'[q])
      BY <1>3, <1>14, <1>15 DEF Front_
    <3> QED
      BY <2>3 DEF SInv, Waits, Front_, Behind
  <2>5. Spaced'
    BY <1>1, <1>8, <1>14 DEF SInv, Waits, Spaced
  <2> QED
    BY <2>2, <2>4, <2>5, <1>14 DEF Waits
<1>20. Late'
  <2> SUFFICES ASSUME NEW j \in 1 .. m + 1, NEW t \in 0 .. time_,
                      person'[at_counters_'[j]].till <= t, person'[at_counters_'[j]].counter_entry < t
               PROVE  \E q \in 1 .. Len(person) : q < at_counters_'[j] /\ person'[q].out_queue_entry = t
    BY <1>3, <1>12, <1>14 DEF Late, Left, Seen
  <2>1. j # m + 1
    <3>1. SUFFICES ASSUME j = m + 1 PROVE FALSE
      OBVIOUS
    <3>2. time_ < t
      BY <3>1, <1>8, <1>12, <1>14
    <3> QED
      BY <3>2, <1>4
  <2>2. /\ j \in 1 .. m /\ at_counters_'[j] = at_counters_[j]
        /\ person'[at_counters_[j]] = person[at_counters_[j]]
    BY <2>1, <1>12, <1>15, <1>16
  <2>3. PICK q \in 1 .. Len(person) : q < at_counters_[j] /\ person[q].out_queue_entry = t
    BY <2>2, <1>3 DEF SInv, Late, Left, Seen
  <2>4. q # p
    <3>1. person[p].out_queue_entry = -1 /\ t # -1
      BY <1>1 DEF Times
    <3> QED
      BY <3>1, <2>3
  <2> QED
    BY <2>2, <2>3, <2>4, <1>14
<1>21. GoodsConserved'
  <2> SUFFICES ASSUME NEW e \in Counter
               PROVE  counters_'[e].goods + Collected(person', {q \in People' : person'[q].counter = e})
                      = stock[e]
    BY <1>3 DEF GoodsConserved
  <2> DEFINE S == {q \in People : person[q].counter = e}
             U == {q \in People' : person'[q].counter = e}
  <2>1. People = 1 .. Len(person) /\ People' = 1 .. Len(person)
    BY <1>9, LenProperties DEF People, Becomes, SInv, Types
  <2>2. p \notin S
    <3>1. person[p].counter = -1 /\ e # -1
      BY <1>1 DEF Times, Counter
    <3> QED
      BY <3>1
  <2>3. IsFiniteSet(S)
    BY <2>1, FinitelyMany
  <2>4. \A q \in S : person'[q].collected = person[q].collected /\ person'[q].collected \in Nat
    <3>1. \A q \in S : q \in 1 .. Len(person) /\ q # p /\ person[q] \in Persons
      BY <2>1, <2>2 DEF SInv, Types
    <3> QED
      BY <3>1, <1>14 DEF Persons
  <2>5. counters_[e].goods + Collected(person, S) = stock[e]
    BY DEF SInv, GoodsConserved
  <2>6. Collected(person, S) = Collected(person', S)
    <3> HIDE DEF S
    <3> QED
      BY <2>3, <2>4, CollectedSame
  <2>7. CASE e # c
    <3>1. U = S
      BY <2>1, <2>2, <2>7, <1>8, <1>14
    <3>2. counters_'[e] = counters_[e]
      BY <2>7, <1>10
    <3> QED
      BY <3>1, <3>2, <2>5, <2>6
  <2>8. CASE e = c
    <3>1. U = S \cup {p}
      BY <2>1, <2>2, <2>8, <1>1, <1>8, <1>14
    <3>2. \A q \in S \cup {p} : person'[q].collected \in Nat
      BY <2>4, <1>6, <1>8, <1>14
    <3> HIDE DEF S, U
    <3>3. Collected(person', U) = g + Collected(person, S)
      BY <3>1, <3>2, <2>2, <2>3, <2>6, <1>8, <1>14, CollectedMore
    <3>4. Collected(person, S) \in Nat
      BY <2>3, <2>4, <2>6, CollectedNat
    <3>5. counters_'[e].goods = counters_[e].goods - g /\ counters_[e].goods \in Nat
      BY <2>8, <1>5, <1>7, <1>10
    <3>6. counters_'[e].goods + Collected(person', U) = stock[e]
      BY <3>3, <3>4, <3>5, <2>5, <1>6
    <3> QED
      BY <3>6 DEF U
  <2> QED
    BY <2>7, <2>8
<1> QED
  BY <1>13, <1>17, <1>18, <1>19, <1>20, <1>21 DEF SInv

-----------------------------------------------------------------------------
(* The first state, and the theorems.                                      *)

LEMMA InitStep ==
  ASSUME Init
  PROVE  SInv
<1>1. PICK require \in Initial :
        /\ person = [p \in DOMAIN require |-> NewPerson(require[p], -1)]
        /\ in_queue_ = [p \in DOMAIN require |-> p]
  BY DEF Init
<1> DEFINE n == Len(require)
<1>2. n \in Nat /\ DOMAIN require = 1 .. n /\ \A p \in 1 .. n : require[p] \in Nat
  BY SimulatorAssumption, LenProperties
<1> HIDE DEF n
<1>3. ASSUME NEW p \in 1 .. n
      PROVE  /\ person[p] \in Persons /\ person[p].status = "IN_QUEUE" /\ person[p].counter = -1
             /\ person[p].out_queue_entry = -1 /\ person[p].out_queue_exit = -1
  BY <1>1, <1>2 DEF NewPerson, Persons, Status
<1>4. person \in [1 .. n -> Persons] /\ in_queue_ \in [1 .. n -> 1 .. n]
  <2>1. \A p \in 1 .. n : NewPerson(require[p], -1) \in Persons
    BY <1>1, <1>2, <1>3
  <2> QED
    BY <2>1, <1>1, <1>2
<1>5. /\ person \in Seq(Persons) /\ Len(person) = n
      /\ in_queue_ \in Seq(1 .. n) /\ Len(in_queue_) = n
      /\ \A j \in 1 .. n : in_queue_[j] = j
  <2>1. person \in Seq(Persons) /\ in_queue_ \in Seq(1 .. n)
    BY <1>2, <1>4, SeqDef
  <2>2. DOMAIN person = 1 .. n /\ DOMAIN in_queue_ = 1 .. n
    BY <1>4
  <2> QED
    BY <2>1, <2>2, <1>1, <1>2, LenProperties
<1>6. /\ at_counters_ = <<>> /\ out_queue_ = <<>> /\ time_ = -1 /\ pc = "time_++" /\ turn = 1
      /\ open_counters = {} /\ stock \in [Counter -> Nat]
      /\ counters_ = [c \in Counter |-> NewCounter(stock[c])]
  BY SimulatorAssumption DEF Init
<1>7. \A c \in Counter : counters_[c] \in Counters /\ counters_[c].goods = stock[c]
  BY <1>6 DEF NewCounter, Counters
<1>8. Types
  BY <1>5, <1>6, <1>7 DEF Types, Calls
<1>9. Places /\ Order
  BY <1>3, <1>5, <1>6 DEF Places, Holds, Order, Increasing
<1>10. Waits /\ Late
  BY <1>3, <1>5, <1>6 DEF Waits, Times, Front_, Spaced, Late
<1>11. GoodsConserved
  <2> SUFFICES ASSUME NEW c \in Counter
               PROVE  counters_[c].goods + Collected(person, {p \in People : person[p].counter = c}) = stock[c]
    BY DEF GoodsConserved
  <2>1. {p \in People : person[p].counter = c} = {}
    BY <1>3, <1>4 DEF People, Counter
  <2>2. counters_[c].goods \in Nat /\ counters_[c].goods = stock[c]
    BY <1>6, <1>7
  <2> QED
    BY <2>1, <2>2, CollectedNone
<1> QED
  BY <1>8, <1>9, <1>10, <1>11 DEF SInv

LEMMA Step ==
  ASSUME SInv, [Next]_vars
  PROVE  SInv'
<1>1. CASE Tick
  BY <1>1, TickStep
<1>2. CASE JoinExitQueue
  BY <1>2, StayStep, LeaveStep
<1>3. CASE ExitExitQueue
  <2>1. CASE out_queue_ = <<>>
    <3>1. UNCHANGED <<person, queues>>
      BY <1>3, <2>1 DEF ExitExitQueue, queues
    <3> QED
      BY <1>3, <3>1, EndStep
  <2> QED
    BY <1>3, <2>1, ExitStep
<1>4. CASE JoinEntryQueue
  <2>1. CASE turn > RATE
    <3>1. UNCHANGED <<person, queues>>
      BY <1>4, <2>1 DEF JoinEntryQueue, queues
    <3> QED
      BY <1>4, <3>1, EndStep
  <2>2. CASE ~ (turn > RATE)
    <3>1. turn <= RATE
      BY <2>2, SimulatorAssumption DEF SInv, Types
    <3> QED
      BY <1>4, <3>1, ArriveStep
  <2> QED
    BY <2>1, <2>2
<1>5. CASE FindEmptyCounters
  BY <1>5, FindStep
<1>6. CASE ExitEntryQueue
  <2>1. CASE open_counters = {} \/ in_queue_ = <<>>
    <3>1. UNCHANGED <<person, queues>>
      BY <1>6, <2>1 DEF ExitEntryQueue, queues
    <3> QED
      BY <1>6, <2>1, <3>1, EndStep
  <2> QED
    BY <1>6, <2>1, ServeStep
<1>7. CASE UNCHANGED vars
  <2>1. /\ UNCHANGED <<person, queues, stock>> /\ time_' = time_ /\ pc' = pc /\ turn' = turn
        /\ counters_' = counters_ /\ open_counters' = open_counters
    BY <1>7 DEF vars
  <2>2. Types' /\ Late'
    BY <2>1 DEF SInv, Types, Late, Left, Seen, queues
  <2>3. time_ <= time_'
    BY <2>1 DEF SInv, Types
  <2> QED
    BY <2>1, <2>2, <2>3, QuietStep
<1> QED
  BY <1>1, <1>2, <1>3, <1>4, <1>5, <1>6, <1>7 DEF Next

(* The simulator, whatever the counters, their goods and the persons who   *)
(* come, keeps the invariant.                                              *)
THEOREM SimulatorInvariance == Spec => []SInv
BY InitStep, Step, PTL DEF Spec

LEMMA Typed ==
  ASSUME SInv
  PROVE  TypeOK
<1>1. ASSUME NEW c \in Counter
      PROVE  /\ counters_[c].status \in {"CLOSED", "OPEN", "OCCUPIED"}
             /\ counters_[c].goods \in 0 .. stock[c]
  <2> DEFINE S == {p \in People : person[p].counter = c}
  <2>1. S \subseteq 1 .. Len(person) /\ \A p \in S : person[p] \in Persons
    BY LenProperties DEF SInv, Types, People
  <2>2. counters_[c] \in Counters /\ stock[c] \in Nat /\ counters_[c].goods + Collected(person, S) = stock[c]
    BY DEF SInv, Types, GoodsConserved
  <2> HIDE DEF S
  <2>3. IsFiniteSet(S) /\ \A p \in S : person[p].collected \in Nat
    BY <2>1, FinitelyMany DEF Persons
  <2>4. Collected(person, S) \in Nat
    BY <2>3, CollectedNat
  <2> QED
    BY <2>2, <2>4 DEF Counters
<1>2. ASSUME NEW p \in People
      PROVE  /\ person[p].status \in Status
             /\ person[p].counter \in Counter \cup {-1}
             /\ person[p].collected \in Nat /\ person[p].required \in Nat
  <2>1. person[p] \in Persons
    BY LenProperties DEF SInv, Types, People
  <2> QED
    BY <2>1 DEF Persons
<1>3. Status = ToSet(Where)
  <2>1. DOMAIN Where = {1, 2, 3} /\ Where[1] = "IN_QUEUE" /\ Where[2] = "AT_COUNTER" /\ Where[3] = "OUT_QUEUE"
    BY DEF Where
  <2> QED
    BY <2>1 DEF Status, ToSet
<1> QED
  BY <1>1, <1>2, <1>3 DEF SInv, Types, TypeOK, Calls

(* The fields keep their types, and no counter has less than nothing or    *)
(* more than it had (AcceptRequest() never gives what there is not).       *)
THEOREM TypeTheorem == Spec => []TypeOK
BY SimulatorInvariance, Typed, PTL

LEMMA OncePlaced ==
  ASSUME SInv
  PROVE  NothingLost
<1> USE DEF Queue
<1>1. People = 1 .. Len(person) /\ Gone = {p \in 1 .. Len(person) : person[p].out_queue_exit # -1}
  BY LenProperties DEF SInv, Types, People, Gone
<1>2. /\ DOMAIN in_queue_ = 1 .. Len(in_queue_) /\ DOMAIN at_counters_ = 1 .. Len(at_counters_)
      /\ DOMAIN out_queue_ = 1 .. Len(out_queue_)
  BY LenProperties DEF SInv, Types
<1>3. \A q \in {in_queue_, at_counters_, out_queue_} : IsInjective(q)
  <2>1. /\ \A j, k \in 1 .. Len(in_queue_) : in_queue_[j] = in_queue_[k] => j = k
        /\ \A j, k \in 1 .. Len(at_counters_) : at_counters_[j] = at_counters_[k] => j = k
        /\ \A j, k \in 1 .. Len(out_queue_) : out_queue_[j] = out_queue_[k] => j = k
    BY Queues
  <2>2. IsInjective(in_queue_) /\ IsInjective(at_counters_) /\ IsInjective(out_queue_)
    BY <1>2, <2>1 DEF IsInjective
  <2> QED
    BY <2>2
<1>4. ASSUME NEW p \in 1 .. Len(person), NEW q, NEW s, Holds(q, s)
      PROVE  Contains(q, p) <=> person[p].status = s /\ p \notin Gone
  BY <1>1, <1>4 DEF Holds, Contains
<1>5. EveryoneOnce
  BY <1>1, <1>3, <1>4 DEF SInv, Places, EveryoneOnce
<1> QED
  BY <1>5 DEF SInv, NothingLost

(* Nobody who waits is lost or in two places, whatever is erased, popped   *)
(* and pushed while a loop goes through a queue, and what persons have     *)
(* collected at each counter and what is left there is what it had.        *)
THEOREM NothingLostTheorem == Spec => []NothingLost
BY SimulatorInvariance, OncePlaced, PTL

LEMMA MaxOfPair ==
  ASSUME NEW a \in Int, NEW b \in Int
  PROVE  Max({a, b}) \in Int /\ a <= Max({a, b}) /\ b <= Max({a, b})
<1>1. PICK x \in {a, b} : \A y \in {a, b} : x >= y
  OBVIOUS
<1>2. Max({a, b}) \in {a, b} /\ \A y \in {a, b} : Max({a, b}) >= y
  BY <1>1 DEF Max
<1> QED
  BY <1>2

LEMMA WaitsKept ==
  ASSUME SInv
  PROVE  WaitsExact
<1>1. People = 1 .. Len(person) /\ Gone = {p \in 1 .. Len(person) : person[p].out_queue_exit # -1}
  BY LenProperties DEF SInv, Types, People, Gone
<1>2. ASSUME NEW p \in 1 .. Len(person)
      PROVE  /\ Times(person[p], time_) /\ person[p].collected \in Nat /\ person[p].till \in Int
             /\ person[p].counter_entry \in Int /\ person[p].out_queue_entry \in Int
             /\ person[p].out_queue_exit \in Int
             /\ person[p].out_queue_exit # -1 => person[p].status = "OUT_QUEUE"
  <2>1. person[p] \in Persons
    BY DEF SInv, Types
  <2> QED
    BY <2>1 DEF Persons, SInv, Waits, Places
<1>3. WaitsAtHead
  <2>1. ASSUME NEW p \in 1 .. Len(person)
        PROVE  /\ person[p].status = "OUT_QUEUE" =>
                    person[p].out_queue_entry >= person[p].counter_entry + person[p].collected
               /\ person[p].out_queue_exit # -1 =>
                    person[p].out_queue_exit >= person[p].out_queue_entry + person[p].collected
    BY <1>2 DEF Times
  <2>2. Spaced
    BY DEF SInv, Waits
  <2> QED
    BY <1>1, <2>1, <2>2 DEF WaitsAtHead, Spaced
<1>4. LateForOthers
  <2> SUFFICES ASSUME pc = "ExitExitQueue", NEW p \in ToSet(at_counters_),
                      NEW t \in Max({person[p].till, person[p].counter_entry + 1}) .. time_
               PROVE  \E q \in 1 .. p - 1 : person[q].out_queue_entry = t
    BY DEF LateForOthers
  <2>1. PICK j \in 1 .. Len(at_counters_) : at_counters_[j] = p
    BY LenProperties DEF SInv, Types, ToSet
  <2>2. p \in 1 .. Len(person) /\ person[p].status = "AT_COUNTER" /\ time_ \in Int
    BY <2>1, Queues DEF Queue
  <2>3. person[p].till \in Int /\ person[p].counter_entry \in Int /\ 0 <= person[p].counter_entry
    BY <1>2, <2>2 DEF Times
  <2>4. t \in Int /\ t <= time_ /\ person[p].till <= t /\ person[p].counter_entry + 1 <= t
    <3> DEFINE a == person[p].till
               b == person[p].counter_entry + 1
               least == Max({a, b})
    <3>1. a \in Int /\ b \in Int /\ t \in least .. time_
      BY <2>3
    <3>2. SUFFICES t \in Int /\ t <= time_ /\ a <= t /\ b <= t
      OBVIOUS
    <3> HIDE DEF a, b
    <3>3. least \in Int /\ a <= least /\ b <= least
      BY <3>1, MaxOfPair
    <3> HIDE DEF least
    <3> QED
      BY <3>1, <3>3, <2>2
  <2>5. t \in 0 .. Seen(j) /\ person[p].counter_entry < t
    BY <2>2, <2>3, <2>4 DEF Seen
  <2>6. PICK q \in 1 .. Len(person) : q < p /\ person[q].out_queue_entry = t
    BY <2>1, <2>4, <2>5 DEF SInv, Late, Left
  <2> QED
    BY <2>2, <2>6
<1> QED
  BY <1>3, <1>4 DEF WaitsExact

(* Nobody leaves a counter or the exit queue before the goods are counted  *)
(* out, nobody at the exit counts together with another, and who leaves a  *)
(* counter late was behind somebody else in every tick of the delay.       *)
THEOREM WaitsTheorem == Spec => []WaitsExact
BY SimulatorInvariance, WaitsKept, PTL
=============================================================================
