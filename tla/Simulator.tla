----------------------------- MODULE Simulator -----------------------------
(***************************************************************************)
(* The queue simulator of 5-sem-Programming/Simulator (simulator.cpp with   *)
(* counter.cpp, person.cpp and queue_sim.cpp): persons wait in an entry     *)
(* queue, collect goods at a counter, and leave through an exit queue.      *)
(*                                                                         *)
(* A turn of a loop is a step: RunSimulation() makes its four calls one     *)
(* after the other, and each walks its queue, or the counters, by turns.    *)
(* Persons are pointed to by their place in the sequence person.  The       *)
(* fields that are only displayed are left out, and so is the display.      *)
(***************************************************************************)
EXTENDS Integers, SequencesExt, FiniteSetsExt

CONSTANTS
    NCOUNTERS,      \* num_counters
    Goods,          \* initial numbers of goods a counter may have
    Initial,        \* what the initial entry queue may ask for, sequences
    RATE,           \* rate_in_queue_
    Sample          \* what Sampling() may return

ASSUME SimulatorAssumption ==
    /\ NCOUNTERS \in Nat /\ RATE \in Nat
    /\ Goods \subseteq Nat /\ Sample \subseteq Nat /\ Sample # {}
    /\ Initial \subseteq Seq(Nat)

VARIABLES
    time_,
    pc, turn,                       \* the call, and the next turn of its loop
    open_counters,                  \* those not yet given a person
    counters_,                      \* [status, till, goods]
    person,                         \* every Person ever made
    in_queue_, at_counters_, out_queue_,
    stock                           \* the goods there were (history)

queues == <<in_queue_, at_counters_, out_queue_>>
vars == <<time_, pc, turn, open_counters, counters_, person, queues, stock>>

Counter == 0 .. NCOUNTERS - 1

(* The constructors.                                                       *)
NewPerson(require, t) ==
    [status |-> "IN_QUEUE", till |-> -1, counter |-> -1, required |-> require, collected |-> 0,
     in_queue_entry |-> t, counter_entry |-> -1, out_queue_entry |-> -1, out_queue_exit |-> -1]
NewCounter(goods) ==
    [status |-> IF goods = 0 THEN "CLOSED" ELSE "OPEN", till |-> -1, goods |-> goods]

(* LoadSpecifications().                                                   *)
Init ==
    /\ time_ = -1
    /\ pc = "time_++" /\ turn = 1 /\ open_counters = {}
    /\ stock \in [Counter -> Goods]
    /\ counters_ = [c \in Counter |-> NewCounter(stock[c])]
    /\ \E require \in Initial :
          /\ person = [p \in DOMAIN require |-> NewPerson(require[p], -1)]
          /\ in_queue_ = [p \in DOMAIN require |-> p]
    /\ at_counters_ = <<>> /\ out_queue_ = <<>>

-----------------------------------------------------------------------------
Call(f) == pc' = f /\ turn' = 1

Tick ==
    /\ pc = "time_++" /\ Call("JoinExitQueue")
    /\ time_' = time_ + 1
    /\ UNCHANGED <<open_counters, counters_, person, queues, stock>>

(* Mutant (WaitsExact): the test is <.                                     *)
Mut_Before(p) == person[p].till < time_

Finished(p) == person[p].till <= time_

Leaving(p) == [person[p] EXCEPT !.status = "OUT_QUEUE", !.till = -1, !.out_queue_entry = time_]

(* Mutant (NothingLost): the person after the one erased is lost.          *)
Mut_EraseTwo(p) ==
    /\ at_counters_' = SubSeq(at_counters_, 1, turn - 1) \o SubSeq(at_counters_, turn + 2, Len(at_counters_))
    /\ out_queue_' = Append(out_queue_, p)
    /\ person' = [person EXCEPT ![p] = Leaving(p)]

Leave(p) ==
    /\ at_counters_' = RemoveAt(at_counters_, turn)
    /\ out_queue_' = Append(out_queue_, p)
    /\ person' = [person EXCEPT ![p] = Leaving(p)]

(* After at_counters_.erase() the next person has the index of the erased  *)
(* one, and ++i passes it by.                                              *)
JoinExitQueue ==
    /\ pc = "JoinExitQueue"
    /\ IF turn > Len(at_counters_) THEN Call("ExitExitQueue") /\ UNCHANGED <<person, at_counters_, out_queue_>>
       ELSE /\ turn' = turn + 1 /\ UNCHANGED pc
            /\ IF Finished(at_counters_[turn]) THEN Leave(at_counters_[turn])
               ELSE UNCHANGED <<person, at_counters_, out_queue_>>
    /\ UNCHANGED <<time_, open_counters, counters_, in_queue_, stock>>

(* The time the person at the front of the exit queue waits for.           *)
Till(p) == IF person[p].till = -1 THEN time_ + person[p].collected ELSE person[p].till

ExitExitQueue ==
    /\ pc = "ExitExitQueue"
    /\ IF out_queue_ = <<>> THEN Call("JoinEntryQueue") /\ UNCHANGED <<person, out_queue_>>
       ELSE LET p == Head(out_queue_) IN
            IF Till(p) <= time_
            THEN /\ person' = [person EXCEPT ![p].till = Till(p), ![p].out_queue_exit = time_]
                 /\ out_queue_' = Tail(out_queue_)
                 /\ UNCHANGED <<pc, turn>>
            ELSE /\ person' = [person EXCEPT ![p].till = Till(p)]
                 /\ Call("JoinEntryQueue") /\ UNCHANGED out_queue_
    /\ UNCHANGED <<time_, open_counters, counters_, in_queue_, at_counters_, stock>>

JoinEntryQueue ==
    /\ pc = "JoinEntryQueue"
    /\ IF turn > RATE THEN Call("FindEmptyCounters") /\ UNCHANGED <<person, in_queue_>>
       ELSE /\ \E goods \in Sample : person' = Append(person, NewPerson(goods, time_))
            /\ in_queue_' = Append(in_queue_, Len(person) + 1)
            /\ turn' = turn + 1 /\ UNCHANGED pc
    /\ UNCHANGED <<time_, open_counters, counters_, at_counters_, out_queue_, stock>>

(* Mutant (EverythingSold): a counter closes after one person.             *)
Mut_CloseAnyway(c) ==
    IF c.status = "OCCUPIED" /\ c.till <= time_ THEN [c EXCEPT !.status = "CLOSED", !.till = -1] ELSE c

(* What FindEmptyCounters() makes of a counter.                            *)
Refreshed(c) ==
    IF \/ c.status = "OPEN" /\ c.goods = 0
       \/ c.status = "OCCUPIED" /\ c.till <= time_ /\ c.goods = 0
    THEN [c EXCEPT !.status = "CLOSED", !.till = -1]
    ELSE IF c.status = "OCCUPIED" /\ c.till <= time_ THEN [c EXCEPT !.status = "OPEN"]
    ELSE c

(* Counter::AcceptRequest(): what the person gets, and the two after it.   *)
Given(c, p) == IF person[p].required < c.goods THEN person[p].required ELSE c.goods

Occupied(c, p) ==
    [c EXCEPT !.status = "OCCUPIED", !.till = time_ + Given(c, p), !.goods = @ - Given(c, p)]

Served(p, i, c) ==
    [person[p] EXCEPT !.status = "AT_COUNTER", !.counter = i, !.counter_entry = time_,
                      !.collected = Given(c, p), !.required = @ - Given(c, p),
                      !.till = time_ + Given(c, p)]

FindEmptyCounters ==
    /\ pc = "FindEmptyCounters" /\ Call("ExitEntryQueue")
    /\ counters_' = [c \in Counter |-> Refreshed(counters_[c])]
    /\ open_counters' = {c \in Counter : Refreshed(counters_[c]).status = "OPEN"}
    /\ UNCHANGED <<time_, person, queues, stock>>

(* The open counters in order each take the person at the front.           *)
ExitEntryQueue ==
    /\ pc = "ExitEntryQueue"
    /\ IF open_counters = {} \/ in_queue_ = <<>>
       THEN /\ Call(IF \A c \in Counter : counters_[c].status = "CLOSED" THEN "ended" ELSE "time_++")
            /\ open_counters' = {}
            /\ UNCHANGED <<counters_, person, in_queue_, at_counters_>>
       ELSE LET p == Head(in_queue_)
                c == Min(open_counters)
            IN  /\ open_counters' = open_counters \ {c}
                /\ counters_' = [counters_ EXCEPT ![c] = Occupied(@, p)]
                /\ person' = [person EXCEPT ![p] = Served(p, c, counters_[c])]
                /\ in_queue_' = Tail(in_queue_)
                /\ at_counters_' = Append(at_counters_, p)
                /\ UNCHANGED <<pc, turn>>
    /\ UNCHANGED <<time_, out_queue_, stock>>

Next ==
    \/ Tick \/ JoinExitQueue \/ ExitExitQueue
    \/ JoinEntryQueue \/ FindEmptyCounters \/ ExitEntryQueue

Spec == Init /\ [][Next]_vars /\ WF_vars(Next)

-----------------------------------------------------------------------------
(* Properties.                                                             *)

People == DOMAIN person
Where == <<"IN_QUEUE", "AT_COUNTER", "OUT_QUEUE">>

TypeOK ==
    /\ time_ \in Int
    /\ pc \in {"time_++", "JoinExitQueue", "ExitExitQueue", "JoinEntryQueue", "FindEmptyCounters",
              "ExitEntryQueue", "ended"}
    /\ turn \in Nat \ {0} /\ open_counters \subseteq Counter
    /\ \A c \in Counter :
          /\ counters_[c].status \in {"CLOSED", "OPEN", "OCCUPIED"}
          /\ counters_[c].goods \in 0 .. stock[c]
    /\ \A p \in People :
          /\ person[p].status \in ToSet(Where)
          /\ person[p].counter \in Counter \cup {-1}
          /\ person[p].collected \in Nat /\ person[p].required \in Nat

Gone == {p \in People : person[p].out_queue_exit # -1}

(* Every person is in one place, once, and its status says where: the      *)
(* erasing, popping and pushing lose nobody and double nobody.             *)
EveryoneOnce ==
    /\ \A q \in {in_queue_, at_counters_, out_queue_} : IsInjective(q)
    /\ \A p \in People :
          LET in(q, s) == Contains(q, p) <=> person[p].status = s /\ p \notin Gone IN
          in(in_queue_, "IN_QUEUE") /\ in(at_counters_, "AT_COUNTER") /\ in(out_queue_, "OUT_QUEUE")

(* What the persons of S have collected.                                   *)
Collected(ps, S) == MapThenSumSet(LAMBDA p : ps[p].collected, S)

(* Goods are neither lost nor made: what persons have collected at a       *)
(* counter and what is left there is what it had at first.                 *)
GoodsConserved ==
    \A c \in Counter :
       counters_[c].goods + Collected(person, {p \in People : person[p].counter = c}) = stock[c]

(* Neither persons nor goods are lost or doubled (JoinExitQueue(),         *)
(* ExitExitQueue(), ExitEntryQueue(), Counter::AcceptRequest()).           *)
NothingLost == EveryoneOnce /\ GoodsConserved

(* "While exiting, the person has to stop at the head of the exit queue    *)
(* for an amount of time equal to the goods" (README): two who left are as *)
(* far apart as the second one's goods, and nobody leaves the counter or   *)
(* the exit queue early.                                                   *)
WaitsAtHead ==
    /\ \A p \in People : person[p].status = "OUT_QUEUE" =>
          person[p].out_queue_entry >= person[p].counter_entry + person[p].collected
    /\ \A p \in Gone :
          person[p].out_queue_exit >= person[p].out_queue_entry + person[p].collected
    /\ \A p, q \in Gone :
          \/ p = q
          \/ person[p].out_queue_exit >= person[q].out_queue_exit + person[p].collected
          \/ person[q].out_queue_exit >= person[p].out_queue_exit + person[q].collected

(* Although JoinExitQueue() passes over persons who are finished, nobody   *)
(* is passed over for long: for each tick that someone is late, another    *)
(* who came to a counter before has left in that tick.  (Who comes in a    *)
(* tick and wants nothing is finished in the next.)                        *)
LateForOthers ==
    pc = "ExitExitQueue" => \A p \in ToSet(at_counters_) : Finished(p) =>
       \A t \in Max({person[p].till, person[p].counter_entry + 1}) .. time_ :
          \E q \in 1 .. p - 1 : person[q].out_queue_entry = t

(* Nobody leaves the counter or the exit queue too early, and those who    *)
(* leave the counter late do so behind others.                             *)
WaitsExact == WaitsAtHead /\ LateForOthers

(* The simulation ends, with everything sold, if persons keep coming who   *)
(* want something: no counter closes early and none stays open for ever.   *)
EverythingSold == <>(pc = "ended" /\ \A c \in Counter : counters_[c].goods = 0)

(* "Moves all the Person objects that have finished their transactions to  *)
(* the exit queue" (simulator.h:28-30).                                    *)
AllFinishedMove ==
    pc = "ExitExitQueue" => \A p \in ToSet(at_counters_) : ~Finished(p)
=============================================================================
