-------------------------- MODULE InterruptProofs --------------------------
(***************************************************************************)
(* Theorems about module Interrupts, for any devices, delays and ticks.    *)
(***************************************************************************)
EXTENDS Interrupts, WellFoundedInduction, TLAPS

-----------------------------------------------------------------------------
(* The sorted list *)

\* A set of natural numbers that is not empty has a least element.
LEMMA Least ==
  ASSUME NEW T \in SUBSET Nat, T # {}
  PROVE  \E x \in T : \A y \in T : x <= y
<1> DEFINE R == OpToRel(<, Nat)
<1>1. IsWellFoundedOn(R, Nat)
  BY NatLessThanWellFounded
<1>2. PICK x \in T : \A y \in T : ~ (<<y, x>> \in R)
  <2> HIDE DEF R
  <2> QED BY <1>1, WFMin
<1>3. \A y \in T : ~(y < x)
  BY <1>2 DEF OpToRel
<1> QED BY <1>3

\* An item has a place in every list: SortedInsert finds one.
LEMMA Place ==
  ASSUME NEW list \in Seq(Interrupt), NEW item \in Interrupt
  PROVE  LET k == InsertAtPlace(list, item) IN
         /\ k \in 1..(Len(list) + 1)
         /\ \A j \in 1..(k - 1) : list[j].left <= item.left
         /\ k <= Len(list) => list[k].left > item.left
<1> DEFINE Good(k) == /\ \A j \in 1..(k - 1) : list[j].left <= item.left
                      /\ k <= Len(list) => list[k].left > item.left
           Bigger == {k \in 1..Len(list) : list[k].left > item.left}
<1>1. \A k \in 1..Len(list) : list[k] \in Interrupt
  OBVIOUS
<1>2. item.left \in Int /\ \A k \in 1..Len(list) : list[k].left \in Int
  BY <1>1 DEF Interrupt
<1>3. Len(list) \in Nat
  OBVIOUS
<1>4. \E k \in 1..(Len(list) + 1) : Good(k)
  <2>1. CASE Bigger = {}
    <3>1. \A j \in 1..Len(list) : list[j].left <= item.left
      BY <2>1, <1>2
    <3>2. Good(Len(list) + 1)
      BY <3>1, <1>3
    <3> QED BY <3>2, <1>3
  <2>2. CASE Bigger # {}
    <3>1. Bigger \in SUBSET Nat
      BY <1>3
    <3>2. PICK k \in Bigger : \A y \in Bigger : k <= y
      <4> HIDE DEF Bigger
      <4> QED BY <2>2, <3>1, Least
    <3>3. \A j \in 1..(k - 1) : j \in 1..Len(list) /\ j \notin Bigger
      BY <3>2, <1>3
    <3>4. Good(k)
      BY <3>2, <3>3, <1>2
    <3> QED BY <3>2, <3>4, <1>3
  <2> QED BY <2>1, <2>2
<1>5. InsertAtPlace(list, item) = CHOOSE k \in 1..(Len(list) + 1) : Good(k)
  BY DEF InsertAtPlace
<1>6. InsertAtPlace(list, item) \in 1..(Len(list) + 1) /\ Good(InsertAtPlace(list, item))
  <2> HIDE DEF Good
  <2> QED BY <1>4, <1>5
<1> QED BY <1>6

\* What the list is after an insertion.
LEMMA Inserted ==
  ASSUME NEW S, NEW list \in Seq(S), NEW i \in 1..(Len(list) + 1), NEW e \in S
  PROVE  LET new == InsertAt(list, i, e) IN
         /\ new \in Seq(S)
         /\ Len(new) = Len(list) + 1
         /\ \A k \in 1..Len(new) :
              new[k] = IF k < i THEN list[k] ELSE IF k = i THEN e ELSE list[k - 1]
<1> DEFINE front == SubSeq(list, 1, i - 1)
           back  == SubSeq(list, i, Len(list))
<1>1. Len(list) \in Nat /\ i \in Nat /\ i >= 1 /\ i <= Len(list) + 1
  OBVIOUS
<1>2. /\ front \in Seq(S) /\ Len(front) = i - 1
      /\ \A k \in 1..(i - 1) : front[k] = list[k]
  BY <1>1
<1>3. /\ back \in Seq(S) /\ Len(back) = Len(list) - i + 1
      /\ \A k \in 1..(Len(list) - i + 1) : back[k] = list[i + k - 1]
  BY <1>1
<1>4. <<e>> \in Seq(S) /\ Len(<<e>>) = 1 /\ <<e>>[1] = e
  OBVIOUS
<1> HIDE DEF front, back
<1> DEFINE left == front \o <<e>>
<1>5. /\ left \in Seq(S) /\ Len(left) = i
      /\ \A k \in 1..i : left[k] = IF k < i THEN list[k] ELSE e
  BY <1>1, <1>2, <1>4
<1> HIDE DEF left
<1>6. InsertAt(list, i, e) = left \o back
  BY DEF InsertAt, left, front, back
<1>7. /\ left \o back \in Seq(S) /\ Len(left \o back) = Len(list) + 1
  BY <1>1, <1>3, <1>5
<1>8. ASSUME NEW k \in 1..(Len(list) + 1)
      PROVE  (left \o back)[k] = IF k < i THEN list[k] ELSE IF k = i THEN e ELSE list[k - 1]
  <2>1. CASE k <= i
    BY <2>1, <1>1, <1>3, <1>5
  <2>2. CASE k > i
    <3>1. (left \o back)[k] = back[k - i]
      BY <2>2, <1>1, <1>3, <1>5
    <3>2. k - i \in 1..(Len(list) - i + 1) /\ i + (k - i) - 1 = k - 1
      BY <2>2, <1>1
    <3>3. ~(k < i) /\ k # i
      BY <2>2, <1>1
    <3> QED BY <3>1, <3>2, <3>3, <1>3
  <2>3. k <= i \/ k > i
    BY <1>1
  <2> QED BY <2>1, <2>2, <2>3
<1> QED BY <1>6, <1>7, <1>8

Sorted(list) == \A i, j \in DOMAIN list : i < j => list[i].left <= list[j].left
AllAbove(list, n) == \A i \in DOMAIN list : list[i].left > n

\* List::SortedInsert keeps a list sorted and adds nothing but the item.
LEMMA SortedInsertKeeps ==
  ASSUME NEW list \in Seq(Interrupt), NEW item \in Interrupt
  PROVE  LET new == SortedInsert(list, item) IN
         /\ new \in Seq(Interrupt)
         /\ Sorted(list) => Sorted(new)
         /\ \A n \in Int : AllAbove(list, n) /\ item.left > n => AllAbove(new, n)
<1> DEFINE k == InsertAtPlace(list, item)
           new == InsertAt(list, k, item)
<1>1. /\ k \in 1..(Len(list) + 1)
      /\ \A j \in 1..(k - 1) : list[j].left <= item.left
      /\ k <= Len(list) => list[k].left > item.left
  BY Place
<1> HIDE DEF k
<1>2. /\ new \in Seq(Interrupt)
      /\ Len(new) = Len(list) + 1
      /\ \A i \in 1..Len(new) :
           new[i] = IF i < k THEN list[i] ELSE IF i = k THEN item ELSE list[i - 1]
  BY <1>1, Inserted
<1>3. SortedInsert(list, item) = new
  BY DEF SortedInsert, k
<1> HIDE DEF new
<1>4. Len(list) \in Nat /\ DOMAIN list = 1..Len(list) /\ DOMAIN new = 1..(Len(list) + 1)
  BY <1>2
<1>5. item.left \in Int /\ \A i \in 1..Len(list) : list[i].left \in Int
  <2>1. \A i \in 1..Len(list) : list[i] \in Interrupt
    OBVIOUS
  <2> QED BY <2>1 DEF Interrupt
<1>6. ASSUME Sorted(list) PROVE Sorted(new)
  <2>1. \A i, j \in 1..Len(list) : i < j => list[i].left <= list[j].left
    BY <1>6, <1>4 DEF Sorted
  <2>2. \A j \in k..Len(list) : list[j].left > item.left
    BY <2>1, <1>1, <1>4, <1>5
  <2>3. ASSUME NEW i \in 1..(Len(list) + 1), NEW j \in 1..(Len(list) + 1), i < j
        PROVE  new[i].left <= new[j].left
    <3>1. CASE j < k
      BY <3>1, <2>1, <2>3, <1>1, <1>2, <1>4
    <3>2. CASE j = k
      BY <3>2, <2>3, <1>1, <1>2, <1>4
    <3>3. CASE j > k /\ i = k
      BY <3>3, <2>2, <1>1, <1>2, <1>4, <1>5
    <3>4. CASE j > k /\ i > k
      <4>1. /\ i \in 1..Len(new) /\ j \in 1..Len(new)
            /\ ~(i < k) /\ i # k /\ ~(j < k) /\ j # k
        BY <3>4, <1>1, <1>2, <1>4
      <4>2. new[i] = list[i - 1] /\ new[j] = list[j - 1]
        BY <4>1, <1>2
      <4>3. i - 1 \in 1..Len(list) /\ j - 1 \in 1..Len(list) /\ i - 1 < j - 1
        BY <3>4, <2>3, <1>1, <1>4
      <4> QED BY <4>2, <4>3, <2>1
    <3>5. CASE j > k /\ i < k
      <4>1. new[i] = list[i] /\ new[j] = list[j - 1]
        <5>1. i \in 1..Len(new) /\ j \in 1..Len(new) /\ k \in Int
          BY <1>1, <1>2, <1>4
        <5>2. ~(j < k) /\ j # k
          BY <3>5, <5>1
        <5> QED BY <1>2, <3>5, <5>1, <5>2
      <4>2. i \in 1..Len(list) /\ j - 1 \in 1..Len(list) /\ i < j - 1
        BY <3>5, <1>1, <1>4
      <4> QED BY <4>1, <4>2, <2>1
    <3> QED BY <3>1, <3>2, <3>3, <3>4, <3>5, <1>1, <1>4
  <2> QED BY <2>3, <1>4 DEF Sorted
<1>7. ASSUME NEW n \in Int, AllAbove(list, n), item.left > n PROVE AllAbove(new, n)
  <2>1. \A i \in 1..Len(list) : list[i].left > n
    BY <1>7, <1>4 DEF AllAbove
  <2>2. ASSUME NEW i \in 1..(Len(list) + 1) PROVE new[i].left > n
    <3>1. CASE i < k
      BY <3>1, <2>1, <1>1, <1>2, <1>4
    <3>2. CASE i = k
      BY <3>2, <1>7, <1>1, <1>2, <1>4
    <3>3. CASE i > k
      <4>1. new[i] = list[i - 1] /\ i - 1 \in 1..Len(list)
        BY <3>3, <1>1, <1>2, <1>4
      <4> QED BY <4>1, <2>1
    <3> QED BY <3>1, <3>2, <3>3, <1>1, <1>4
  <2> QED BY <2>2, <1>4 DEF AllAbove
<1> QED BY <1>2, <1>3, <1>6, <1>7

\* List::SortedRemove keeps a list sorted.
LEMMA SortedRemoveKeeps ==
  ASSUME NEW list \in Seq(Interrupt), list # <<>>
  PROVE  LET new == SortedRemove(list) IN
         /\ new \in Seq(Interrupt)
         /\ Head(list) \in Interrupt
         /\ Sorted(list) => Sorted(new)
         /\ \A n \in Int : AllAbove(list, n) => AllAbove(new, n) /\ Head(list).left > n
<1>1. Tail(list) \in Seq(Interrupt) /\ Head(list) \in Interrupt /\ Head(list) = list[1]
  OBVIOUS
<1>2. /\ Len(list) \in Nat \ {0} /\ DOMAIN list = 1..Len(list)
      /\ DOMAIN Tail(list) = 1..(Len(list) - 1)
      /\ \A i \in 1..(Len(list) - 1) : Tail(list)[i] = list[i + 1]
  OBVIOUS
<1>3. Sorted(list) => Sorted(Tail(list))
  BY <1>2 DEF Sorted
<1>4. \A n \in Int : AllAbove(list, n) => AllAbove(Tail(list), n) /\ Head(list).left > n
  BY <1>1, <1>2 DEF AllAbove
<1> QED BY <1>1, <1>3, <1>4 DEF SortedRemove

\* Looking at the first interrupt and putting it back keeps the list sorted.
LEMMA PutBackKeeps ==
  ASSUME NEW list \in Seq(Interrupt)
  PROVE  LET new == PutBack(list) IN
         /\ new \in Seq(Interrupt)
         /\ Sorted(list) => Sorted(new)
         /\ \A n \in Int : AllAbove(list, n) => AllAbove(new, n)
<1>1. CASE list = <<>>
  BY <1>1 DEF PutBack
<1>2. CASE list # <<>>
  <2>1. PutBack(list) = SortedInsert(SortedRemove(list), Head(list))
    BY <1>2 DEF PutBack
  <2> QED BY <1>2, <2>1, SortedRemoveKeeps, SortedInsertKeeps
<1> QED BY <1>1, <1>2

\* Time passes for all interrupts alike.
LEMMA ElapseKeeps ==
  ASSUME NEW list \in Seq(Interrupt), NEW n \in Int
  PROVE  LET new == Elapse(list, n) IN
         /\ new \in Seq(Interrupt)
         /\ Sorted(list) => Sorted(new)
         /\ list # <<>> => new # <<>> /\ Head(new).left = Head(list).left - n
         /\ \A m \in Int : AllAbove(list, m) => AllAbove(new, m - n)
<1> DEFINE new == Elapse(list, n)
<1>1. /\ Len(list) \in Nat /\ DOMAIN list = 1..Len(list)
      /\ \A i \in 1..Len(list) : list[i] \in Interrupt
  OBVIOUS
<1>2. \A i \in 1..Len(list) : list[i].left \in Int
  BY <1>1 DEF Interrupt
<1>3. new = [i \in 1..Len(list) |-> [list[i] EXCEPT !.left = @ - n]]
  BY <1>1 DEF Elapse
<1>4. \A i \in 1..Len(list) : new[i] \in Interrupt /\ new[i].left = list[i].left - n
  <2>1. ASSUME NEW r \in Interrupt
        PROVE  /\ [r EXCEPT !.left = @ - n] \in Interrupt
               /\ [r EXCEPT !.left = @ - n].left = r.left - n
    BY DEF Interrupt
  <2>2. \A i \in 1..Len(list) : new[i] = [list[i] EXCEPT !.left = @ - n]
    BY <1>3
  <2> QED BY <2>1, <2>2, <1>1
<1>5. new \in Seq(Interrupt) /\ Len(new) = Len(list) /\ DOMAIN new = 1..Len(list)
  <2>1. DOMAIN new = 1..Len(list)
    BY <1>3
  <2>2. new \in [1..Len(list) -> Interrupt]
    <3> DEFINE f(i) == [list[i] EXCEPT !.left = @ - n]
    <3>1. new = [i \in 1..Len(list) |-> f(i)] /\ \A i \in 1..Len(list) : new[i] = f(i)
      BY <1>3
    <3>2. \A i \in 1..Len(list) : f(i) \in Interrupt
      <4> HIDE DEF f
      <4> QED BY <3>1, <1>4
    <3> HIDE DEF f, new
    <3> QED BY <3>1, <3>2
  <2> HIDE DEF new
  <2> QED BY <1>1, <2>1, <2>2
<1> HIDE DEF new
<1>6. Sorted(list) => Sorted(new)
  BY <1>1, <1>2, <1>4, <1>5 DEF Sorted
<1>7. list # <<>> => new # <<>> /\ Head(new).left = Head(list).left - n
  BY <1>1, <1>4, <1>5
<1>8. \A m \in Int : AllAbove(list, m) => AllAbove(new, m - n)
  BY <1>1, <1>2, <1>4, <1>5 DEF AllAbove
<1> QED BY <1>5, <1>6, <1>7, <1>8 DEF new

-----------------------------------------------------------------------------
(* The invariant *)

TimeTypeOK ==
  /\ pending \in Seq(Interrupt)
  /\ level \in {"on", "off"}
  /\ status \in {"user", "system", "idle"}
  /\ at \in {"run", "OneTick", "Idle", "halted"}
  /\ yieldOnReturn \in BOOLEAN

\* Nothing is overdue outside the loop of OneTick.  An interrupt may be due
\* now while the kernel has interrupts disabled: it is the timer's, which Idle
\* has put back.  Once interrupts are enabled nothing is due.
NothingLate ==
  /\ at # "OneTick" => AllAbove(pending, -1)
  /\ at = "run" /\ level = "on" => AllAbove(pending, 0)

\* Where the modes occur.
ModesOK ==
  /\ at = "run" => ~yieldOnReturn
  /\ at = "run" /\ status = "user" => level = "on"
  /\ status = "idle" => at \in {"Idle", "halted"}
  /\ at = "Idle" => level = "off"

TimeInv == TimeTypeOK /\ Sorted(pending) /\ NothingLate /\ ModesOK

\* The times in a list are numbers.
LEMMA Times ==
  ASSUME NEW list \in Seq(Interrupt)
  PROVE  \A i \in DOMAIN list : list[i].left \in Int
<1>1. \A i \in DOMAIN list : list[i] \in Interrupt
  OBVIOUS
<1> QED BY <1>1 DEF Interrupt

\* A new interrupt goes into the list, in the future.
LEMMA ScheduleKeeps ==
  ASSUME NEW list \in Seq(Interrupt), NEW d \in Device \cup {TIMER_INT},
         NEW n \in Nat \ {0}
  PROVE  LET new == Schedule(list, d, n) IN
         /\ new \in Seq(Interrupt)
         /\ Sorted(list) => Sorted(new)
         /\ \A m \in {-1, 0} : AllAbove(list, m) => AllAbove(new, m)
<1> DEFINE item == [left |-> n, type |-> d]
<1>1. item \in Interrupt /\ item.left = n
  BY DEF Interrupt
<1>2. Schedule(list, d, n) = SortedInsert(list, item)
  BY DEF Schedule
<1> HIDE DEF item
<1>3. \A m \in {-1, 0} : m \in Int /\ item.left > m
  BY <1>1
<1> QED BY <1>1, <1>2, <1>3, SortedInsertKeeps

\* A handler takes the first interrupt away and may schedule another one.
LEMMA HandlerKeeps ==
  ASSUME NEW list \in Seq(Interrupt), list # <<>>, Sorted(list),
         yieldOnReturn \in BOOLEAN, Handler(list)
  PROVE  /\ pending' \in Seq(Interrupt)
         /\ Sorted(pending')
         /\ AllAbove(list, -1) => AllAbove(pending', -1)
         /\ yieldOnReturn' \in BOOLEAN
<1> DEFINE rest == SortedRemove(list)
           type == Head(list).type
<1>1. /\ rest \in Seq(Interrupt) /\ Sorted(rest)
      /\ AllAbove(list, -1) => AllAbove(rest, -1)
  BY SortedRemoveKeeps
<1>2. type \in Device \cup {TIMER_INT}
  BY SortedRemoveKeeps DEF Interrupt
<1>3. /\ \/ pending' = rest
         \/ pending' = Schedule(rest, TIMER_INT, TimerDelay)
         \/ \E n \in Delays : pending' = Schedule(rest, type, n)
      /\ yieldOnReturn' \in {TRUE, yieldOnReturn}
  BY DEF Handler
<1> HIDE DEF rest, type
<1>4. CASE pending' = rest
  BY <1>1, <1>3, <1>4
<1>5. CASE pending' = Schedule(rest, TIMER_INT, TimerDelay)
  <2>1. TimerDelay \in Nat \ {0} /\ TIMER_INT \in Device \cup {TIMER_INT}
    BY DelaysAssumption
  <2> QED BY <1>1, <1>3, <1>5, <2>1, ScheduleKeeps
<1>6. CASE \E n \in Delays : pending' = Schedule(rest, type, n)
  <2>1. PICK n \in Delays : pending' = Schedule(rest, type, n)
    BY <1>6
  <2>2. n \in Nat \ {0}
    BY DelaysAssumption
  <2> QED BY <1>1, <1>2, <1>3, <2>1, <2>2, ScheduleKeeps
<1> QED BY <1>3, <1>4, <1>5, <1>6

\* When the first interrupt of a sorted list is not due, none is.
LEMMA NoneDue ==
  ASSUME NEW list \in Seq(Interrupt), Sorted(list), ~Due(list)
  PROVE  AllAbove(list, 0)
<1>1. CASE list = <<>>
  BY <1>1 DEF AllAbove
<1>2. CASE list # <<>>
  <2>1. /\ Len(list) \in Nat \ {0} /\ DOMAIN list = 1..Len(list)
        /\ \A i \in 1..Len(list) : list[i] \in Interrupt
    BY <1>2
  <2>2. \A i \in 1..Len(list) : list[i].left \in Int
    BY <2>1 DEF Interrupt
  <2>3. list[1].left > 0
    BY <1>2, <2>1, <2>2 DEF Due
  <2>4. \A i \in 1..Len(list) : i = 1 \/ list[1].left <= list[i].left
    BY <2>1 DEF Sorted
  <2> QED BY <2>1, <2>2, <2>3, <2>4 DEF AllAbove
<1> QED BY <1>1, <1>2

\* Idle moves the clock to the first interrupt and not past any.
LEMMA IdleTimeKeeps ==
  ASSUME NEW list \in Seq(Interrupt), list # <<>>, Sorted(list), AllAbove(list, -1)
  PROVE  LET new == Elapse(list, IdleTime(list)) IN
         /\ new \in Seq(Interrupt) /\ new # <<>> /\ Sorted(new)
         /\ AllAbove(new, -1)
<1> DEFINE first == list[1].left
<1>1. /\ Len(list) \in Nat \ {0} /\ DOMAIN list = 1..Len(list)
      /\ \A i \in 1..Len(list) : list[i] \in Interrupt
      /\ Head(list) = list[1]
  OBVIOUS
<1>2. \A i \in 1..Len(list) : list[i].left \in Int
  BY <1>1 DEF Interrupt
<1>3. first \in Int /\ first > -1
  BY <1>1, <1>2 DEF AllAbove
<1>4. IdleTime(list) = first
  BY <1>1, <1>3 DEF IdleTime
<1>5. \A i \in 1..Len(list) : i = 1 \/ first <= list[i].left
  BY <1>1 DEF Sorted
<1>6. AllAbove(list, first - 1)
  BY <1>1, <1>2, <1>3, <1>5 DEF AllAbove
<1> HIDE DEF first
<1>7. first - 1 \in Int /\ (first - 1) - first = -1
  BY <1>3
<1> QED BY <1>3, <1>4, <1>6, <1>7, ElapseKeeps

\* The boot establishes the invariant.
LEMMA TimeInvInit == Init => TimeInv
<1> SUFFICES ASSUME Init PROVE TimeInv
  OBVIOUS
<1>1. CASE pending = <<>>
  <2>1. pending \in Seq(Interrupt) /\ DOMAIN pending = {}
    BY <1>1
  <2>2. Sorted(pending) /\ AllAbove(pending, 0) /\ AllAbove(pending, -1)
    BY <2>1 DEF Sorted, AllAbove
  <2> QED BY <2>1, <2>2 DEF Init, TimeInv, TimeTypeOK, NothingLate, ModesOK
<1>2. CASE pending = FirstTimer
  <2>1. TimerDelay \in Nat \ {0}
    BY DelaysAssumption
  <2> DEFINE item == [left |-> TimerDelay, type |-> TIMER_INT]
  <2>2. item \in Interrupt /\ item.left = TimerDelay
    BY <2>1 DEF Interrupt
  <2>3. pending = <<item>>
    BY <1>2 DEF FirstTimer
  <2> HIDE DEF item
  <2>4. pending \in Seq(Interrupt) /\ DOMAIN pending = 1..1 /\ pending[1] = item
    BY <2>2, <2>3
  <2>5. Sorted(pending) /\ AllAbove(pending, 0) /\ AllAbove(pending, -1)
    BY <2>1, <2>2, <2>4 DEF Sorted, AllAbove
  <2> QED BY <2>4, <2>5 DEF Init, TimeInv, TimeTypeOK, NothingLate, ModesOK
<1> QED BY <1>1, <1>2 DEF Init

\* Every step keeps the invariant.
LEMMA TimeInvStep == TimeInv /\ [Next]_vars => TimeInv'
<1> SUFFICES ASSUME TimeInv, [Next]_vars PROVE TimeInv'
  OBVIOUS
<1> USE DEF TimeInv, TimeTypeOK
<1>1. ASSUME NEW n \in Nat, OneTick(n), UNCHANGED <<status, yieldOnReturn>>, at = "run"
      PROVE  TimeInv'
  <2>1. pending' \in Seq(Interrupt) /\ Sorted(pending')
    BY <1>1, ElapseKeeps DEF OneTick
  <2> QED BY <1>1, <2>1 DEF OneTick, NothingLate, ModesOK
<1>2. ASSUME Run(0) \/ Run(USER_TICK) PROVE TimeInv'
  BY <1>1, <1>2, DelaysAssumption DEF Run
<1>3. CASE DisableInterrupts
  BY <1>3 DEF DisableInterrupts, NothingLate, ModesOK
<1>4. CASE EnableInterrupts
  BY <1>1, <1>4, DelaysAssumption DEF EnableInterrupts
<1>5. CASE LeaveKernel
  BY <1>5 DEF LeaveKernel, NothingLate, ModesOK
<1>6. CASE Sleep
  BY <1>6 DEF Sleep, NothingLate, ModesOK
<1>7. ASSUME NEW d \in Device, Request(d) PROVE TimeInv'
  <2>1. PICK n \in Delays : pending' = Schedule(pending, d, n)
    BY <1>7 DEF Request
  <2>2. n \in Nat \ {0}
    BY DelaysAssumption
  <2>3. /\ pending' \in Seq(Interrupt) /\ Sorted(pending')
        /\ AllAbove(pending, -1) => AllAbove(pending', -1)
    BY <2>1, <2>2, ScheduleKeeps
  <2> QED BY <1>7, <2>3 DEF Request, NothingLate, ModesOK
<1>8. CASE TickHandler
  <2>1. /\ pending' \in Seq(Interrupt) /\ Sorted(pending') /\ yieldOnReturn' \in BOOLEAN
    BY <1>8, HandlerKeeps DEF TickHandler, Due
  <2> QED BY <1>8, <2>1 DEF TickHandler, NothingLate, ModesOK
<1>9. ASSUME EndOfTick \/ Preempt PROVE TimeInv'
  <2>1. AllAbove(pending, 0) /\ AllAbove(pending, -1)
    <3>1. AllAbove(pending, 0)
      BY <1>9, NoneDue DEF EndOfTick, Preempt
    <3>2. \A i \in DOMAIN pending : pending[i].left \in Int
      BY Times
    <3> QED BY <3>1, <3>2 DEF AllAbove
  <2>2. /\ pending' \in Seq(Interrupt) /\ Sorted(pending')
        /\ AllAbove(pending', 0) /\ AllAbove(pending', -1)
    <3>1. pending' = PutBack(pending)
      BY <1>9 DEF EndOfTick, Preempt
    <3>2. 0 \in Int /\ -1 \in Int
      OBVIOUS
    <3> QED BY <2>1, <3>1, <3>2, PutBackKeeps
  <2>3. CASE EndOfTick
    BY <2>2, <2>3 DEF EndOfTick, NothingLate, ModesOK
  <2>4. CASE Preempt
    BY <2>2, <2>4 DEF Preempt, NothingLate, ModesOK
  <2> QED BY <1>9, <2>3, <2>4
<1>10. CASE Idle
  <2> DEFINE list == Elapse(pending, IdleTime(pending))
  <2>1. list \in Seq(Interrupt) /\ list # <<>> /\ Sorted(list) /\ AllAbove(list, -1)
    BY <1>10, IdleTimeKeeps DEF Idle, NothingLate
  <2>2. Handler(list)
    BY <1>10 DEF Idle
  <2> HIDE DEF list
  <2>3. /\ pending' \in Seq(Interrupt) /\ Sorted(pending') /\ AllAbove(pending', -1)
        /\ yieldOnReturn' \in BOOLEAN
    BY <2>1, <2>2, HandlerKeeps
  <2> QED BY <1>10, <2>3 DEF Idle, NothingLate, ModesOK
<1>11. CASE IdleHandler
  <2>1. /\ pending' \in Seq(Interrupt) /\ Sorted(pending') /\ AllAbove(pending', -1)
        /\ yieldOnReturn' \in BOOLEAN
    BY <1>11, HandlerKeeps DEF IdleHandler, Due, NothingLate
  <2> QED BY <1>11, <2>1 DEF IdleHandler, NothingLate, ModesOK
<1>12. CASE EndOfIdle
  <2>1. pending' \in Seq(Interrupt) /\ Sorted(pending') /\ AllAbove(pending', -1)
    BY <1>12, PutBackKeeps DEF EndOfIdle, NothingLate
  <2>2. level = "off"
    BY <1>12 DEF EndOfIdle, ModesOK
  <2> QED BY <1>12, <2>1, <2>2 DEF EndOfIdle, NothingLate, ModesOK
<1>13. CASE IdleHalts
  BY <1>13 DEF IdleHalts, NothingLate, ModesOK
<1>14. CASE UNCHANGED vars
  BY <1>14 DEF vars, NothingLate, ModesOK
<1> QED
  BY <1>2, <1>3, <1>4, <1>5, <1>6, <1>7, <1>8, <1>9, <1>10, <1>11, <1>12, <1>13, <1>14
  DEF Next

-----------------------------------------------------------------------------
(* Theorems *)

\* The inductive invariant holds throughout.
THEOREM TimeInvariant == InterruptSpec => []TimeInv
<1> QED BY TimeInvInit, TimeInvStep, PTL DEF InterruptSpec

\* The list of pending interrupts stays sorted by time, through every
\* Schedule, every handler and every removal and reinsertion of CheckIfDue.
THEOREM ListStaysSorted == InterruptSpec => []EarliestFirst
<1>1. TimeInv => EarliestFirst
  BY DEF TimeInv, Sorted, EarliestFirst
<1> QED BY <1>1, TimeInvariant, PTL

\* No program runs with an interrupt due or a context switch owed, and the
\* idle loop moves the clock past no interrupt, for any delays and ticks.
THEOREM NoInterruptOverdue == InterruptSpec => []NothingOverdue
<1>1. TimeInv => NothingOverdue
  <2> SUFFICES ASSUME TimeInv PROVE NothingOverdue
    OBVIOUS
  <2>1. \A i \in DOMAIN pending : pending[i].left \in Int
    BY Times DEF TimeInv, TimeTypeOK
  <2> QED BY <2>1 DEF TimeInv, NothingLate, ModesOK, AllAbove, NothingOverdue
<1> QED BY <1>1, TimeInvariant, PTL
=============================================================================
