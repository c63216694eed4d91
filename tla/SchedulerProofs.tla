--------------------------- MODULE SchedulerProofs ---------------------------
(***************************************************************************)
(* The invariants of module Scheduler, for any number of timers and        *)
(* events, any length of the simulation and any delays, and of the two     *)
(* structures it waits on: the linked list of timers (module TimerList)    *)
(* implements the queue of timers (TimerQueue) for any number of timers,   *)
(* and the heap (module EventHeap) the agenda of events (EventQueue) for   *)
(* an array of any size.                                                   *)
(***************************************************************************)
EXTENDS Scheduler, TimerList, EventHeap, FiniteSetTheorems, WellFoundedInduction, TLAPS

-----------------------------------------------------------------------------
(* What linking and unlinking do to the timer list, for lists of any       *)
(* length: the facts the scheduler's invariant rests on.                   *)

(* A nonempty set of naturals has a least element. *)
LEMMA LeastNat ==
  ASSUME NEW S, S \subseteq Nat, S # {}
  PROVE  \E n \in S : \A m \in S : n <= m
<1> DEFINE R == OpToRel(<, Nat)
<1>1. IsWellFoundedOn(R, Nat)
  BY NatLessThanWellFounded
<1>2. \E n \in S : \A m \in S : ~ (<<m, n>> \in R)
  <2> HIDE DEF R
  <2> QED BY <1>1, WFMin
<1>3. PICK n \in S : \A m \in S : ~ (<<m, n>> \in R)
  BY <1>2
<1>4. \A a, b \in Nat : a < b => <<a, b>> \in R
  BY DEF OpToRel
<1>5. ASSUME NEW m \in S PROVE n <= m
  <2> HIDE DEF R
  <2>1. m \in Nat /\ n \in Nat OBVIOUS
  <2>2. m < n => <<m, n>> \in R BY <2>1, <1>4
  <2>3. ~ (<<m, n>> \in R) BY <1>3
  <2>4. ~ (m < n) BY <2>2, <2>3
  <2> QED BY <2>1, <2>4
<1> QED BY <1>5

(* The place where schedule_timer links: everything before expires by s,   *)
(* the timer found there, if any, later than s.                            *)
LEMMA FirstLaterSpec ==
  ASSUME NEW T, NEW l \in Seq(T), NEW x \in [T -> Nat], NEW s \in Nat
  PROVE  /\ FirstLater(l, x, s) \in 1 .. Len(l) + 1
         /\ \A i \in 1 .. FirstLater(l, x, s) - 1 : x[l[i]] <= s
         /\ FirstLater(l, x, s) <= Len(l) => s < x[l[FirstLater(l, x, s)]]
<1> DEFINE S == {i \in 1 .. Len(l) : s < x[l[i]]}
           P(p) == /\ \A i \in 1 .. p - 1 : x[l[i]] <= s
                   /\ p <= Len(l) => s < x[l[p]]
<1>0. Len(l) \in Nat /\ \A i \in 1 .. Len(l) : x[l[i]] \in Nat
  OBVIOUS
<1>1. \E p \in 1 .. Len(l) + 1 : P(p)
  <2>1. CASE S = {}
    <3>1. P(Len(l) + 1) BY <2>1, <1>0
    <3> QED BY <3>1, <1>0
  <2>2. CASE S # {}
    <3>1. S \subseteq Nat BY <1>0
    <3>2. PICK n \in S : \A m \in S : n <= m BY <3>1, <2>2, LeastNat
    <3>3. P(n) BY <3>2, <1>0
    <3> QED BY <3>3, <3>2, <1>0
  <2> QED BY <2>1, <2>2
<1> QED BY <1>1 DEF FirstLater

(* Linking t adds t to the list and disturbs nothing else. *)
LEMMA InsertMembers ==
  ASSUME NEW T, NEW l \in Seq(T), NEW t \in T, NEW p \in 1 .. Len(l) + 1
  PROVE  /\ InsertAt(l, p, t) \in Seq(T)
         /\ Len(InsertAt(l, p, t)) = Len(l) + 1
         /\ \A u : InList(u, InsertAt(l, p, t)) <=> u = t \/ InList(u, l)
<1> DEFINE m == InsertAt(l, p, t)
<1>0. Len(l) \in Nat /\ DOMAIN l = 1 .. Len(l) /\ p \in Nat
  OBVIOUS
<1>1. m \in [1 .. Len(l) + 1 -> T] BY <1>0 DEF InsertAt
<1>2. m \in Seq(T) /\ Len(m) = Len(l) + 1 BY <1>1, <1>0
<1>3. DOMAIN m = 1 .. Len(l) + 1 BY <1>1
<1>4. ASSUME NEW u, InList(u, m) PROVE u = t \/ InList(u, l)
  <2>1. PICK i \in 1 .. Len(l) + 1 : m[i] = u BY <1>4, <1>3 DEF InList
  <2>2. CASE i < p
    BY <2>1, <2>2, <1>0 DEF InsertAt, InList
  <2>3. CASE i = p
    BY <2>1, <2>3, <1>0 DEF InsertAt
  <2>4. CASE i > p
    <3>1. i - 1 \in DOMAIN l /\ m[i] = l[i - 1] BY <2>4, <1>0 DEF InsertAt
    <3> QED BY <3>1, <2>1 DEF InList
  <2> QED BY <2>2, <2>3, <2>4, <1>0
<1>5. InList(t, m)
  BY <1>0, <1>3 DEF InsertAt, InList
<1>6. ASSUME NEW u, InList(u, l) PROVE InList(u, m)
  <2>1. PICK i \in 1 .. Len(l) : l[i] = u BY <1>6, <1>0 DEF InList
  <2>2. CASE i < p
    <3>1. i \in DOMAIN m /\ m[i] = u BY <2>1, <2>2, <1>0 DEF InsertAt
    <3> QED BY <3>1 DEF InList
  <2>3. CASE i >= p
    <3>1. i + 1 \in DOMAIN m /\ m[i + 1] = u BY <2>1, <2>3, <1>0 DEF InsertAt
    <3> QED BY <3>1 DEF InList
  <2> QED BY <2>2, <2>3, <1>0
<1> QED BY <1>2, <1>4, <1>5, <1>6

(* Linking a timer that is not in the list keeps the list free of          *)
(* repetitions.                                                            *)
LEMMA InsertInjective ==
  ASSUME NEW T, NEW l \in Seq(T), NEW t \in T, NEW p \in 1 .. Len(l) + 1,
         Injective(l), ~InList(t, l)
  PROVE  Injective(InsertAt(l, p, t))
<1> DEFINE m == InsertAt(l, p, t)
<1>0. Len(l) \in Nat /\ DOMAIN l = 1 .. Len(l) /\ p \in Nat /\ DOMAIN m = 1 .. Len(l) + 1
  BY DEF InsertAt
<1>1. SUFFICES ASSUME NEW i \in 1 .. Len(l) + 1, NEW j \in 1 .. Len(l) + 1,
                      m[i] = m[j], i < j
               PROVE  FALSE
  BY <1>0 DEF Injective
<1>2. CASE j < p BY <1>0, <1>1, <1>2 DEF InsertAt, Injective
<1>3. CASE j = p BY <1>0, <1>1, <1>3 DEF InsertAt, InList
<1>4. CASE i < p /\ p < j
  <2>1. m[i] = l[i] /\ m[j] = l[j - 1] /\ i \in DOMAIN l /\ j - 1 \in DOMAIN l /\ i # j - 1
    BY <1>0, <1>1, <1>4 DEF InsertAt
  <2> QED BY <2>1, <1>1 DEF Injective
<1>5. CASE i = p
  <2>1. m[i] = t /\ m[j] = l[j - 1] /\ j - 1 \in DOMAIN l BY <1>0, <1>1, <1>5 DEF InsertAt
  <2> QED BY <2>1, <1>1 DEF InList
<1>6. CASE p < i
  <2>1. /\ m[i] = l[i - 1] /\ m[j] = l[j - 1]
        /\ i - 1 \in DOMAIN l /\ j - 1 \in DOMAIN l /\ i - 1 # j - 1
    BY <1>0, <1>1, <1>6 DEF InsertAt
  <2> QED BY <2>1, <1>1 DEF Injective
<1> QED BY <1>0, <1>1, <1>2, <1>3, <1>4, <1>5, <1>6

(* Linking at the place schedule_timer finds keeps the list sorted. *)
LEMMA InsertSorted ==
  ASSUME NEW T, NEW l \in Seq(T), NEW x \in [T -> Nat], NEW t \in T, Sorted(l, x)
  PROVE  Sorted(InsertAt(l, FirstLater(l, x, x[t]), t), x)
<1> DEFINE p == FirstLater(l, x, x[t])
           m == InsertAt(l, p, t)
<1>1. /\ p \in 1 .. Len(l) + 1
      /\ \A i \in 1 .. p - 1 : x[l[i]] <= x[t]
      /\ p <= Len(l) => x[t] < x[l[p]]
  BY FirstLaterSpec
<1> SUFFICES Sorted(m, x)
  OBVIOUS
<1> HIDE DEF p
<1>0. /\ Len(l) \in Nat /\ DOMAIN l = 1 .. Len(l) /\ p \in Nat /\ DOMAIN m = 1 .. Len(l) + 1
      /\ x[t] \in Nat /\ \A i \in 1 .. Len(l) : x[l[i]] \in Nat
  BY <1>1 DEF InsertAt
<1>2. ASSUME NEW i \in p .. Len(l) PROVE x[t] <= x[l[i]]
  <2>1. p \in DOMAIN l /\ i \in DOMAIN l /\ p <= i /\ p <= Len(l) BY <1>0, <1>1
  <2>2. x[l[p]] <= x[l[i]] BY <2>1 DEF Sorted
  <2>3. x[t] < x[l[p]] BY <2>1, <1>1
  <2>4. x[l[p]] \in Nat /\ x[l[i]] \in Nat BY <1>0, <2>1
  <2> QED BY <2>2, <2>3, <2>4, <1>0
<1>3. SUFFICES ASSUME NEW i \in 1 .. Len(l) + 1, NEW j \in 1 .. Len(l) + 1, i < j
               PROVE  x[m[i]] <= x[m[j]]
  <2>1. \A i \in 1 .. Len(l) + 1 : x[m[i]] \in Nat
    BY <1>0, <1>1 DEF InsertAt
  <2> HIDE DEF m
  <2> QED BY <1>0, <2>1 DEF Sorted
<1>4. CASE j < p
  <2>1. m[i] = l[i] /\ m[j] = l[j] /\ i \in DOMAIN l /\ j \in DOMAIN l /\ i <= j
    BY <1>0, <1>1, <1>3, <1>4 DEF InsertAt
  <2> QED BY <2>1 DEF Sorted
<1>5. CASE j = p BY <1>0, <1>1, <1>3, <1>5 DEF InsertAt
<1>6. CASE i < p /\ p < j
  <2>1. m[i] = l[i] /\ m[j] = l[j - 1] /\ i \in DOMAIN l /\ j - 1 \in DOMAIN l /\ i <= j - 1
    BY <1>0, <1>3, <1>6 DEF InsertAt
  <2> QED BY <2>1 DEF Sorted
<1>7. CASE i = p
  <2>1. m[i] = t /\ m[j] = l[j - 1] /\ j - 1 \in p .. Len(l) BY <1>0, <1>3, <1>7 DEF InsertAt
  <2> QED BY <2>1, <1>2
<1>8. CASE p < i
  <2>1. m[i] = l[i - 1] /\ m[j] = l[j - 1]
    BY <1>0, <1>3, <1>8 DEF InsertAt
  <2>2. i - 1 \in DOMAIN l /\ j - 1 \in DOMAIN l /\ i - 1 <= j - 1
    BY <1>0, <1>1, <1>3, <1>8
  <2> QED BY <2>1, <2>2 DEF Sorted
<1> QED BY <1>0, <1>3, <1>4, <1>5, <1>6, <1>7, <1>8

(* Unlinking position k removes one occurrence and disturbs nothing else. *)
LEMMA RemoveMembers ==
  ASSUME NEW T, NEW l \in Seq(T), NEW k \in DOMAIN l, Injective(l)
  PROVE  /\ RemoveAt(l, k) \in Seq(T)
         /\ Injective(RemoveAt(l, k))
         /\ \A u : InList(u, RemoveAt(l, k)) <=> u # l[k] /\ InList(u, l)
<1> DEFINE m == RemoveAt(l, k)
<1>0. Len(l) \in Nat /\ DOMAIN l = 1 .. Len(l) /\ k \in Nat /\ Len(l) - 1 \in Nat
  OBVIOUS
<1>1. m \in [1 .. Len(l) - 1 -> T] BY <1>0 DEF RemoveAt
<1>2. m \in Seq(T) BY <1>1, <1>0
<1>3. DOMAIN m = 1 .. Len(l) - 1 BY <1>1
<1>4. ASSUME NEW i \in DOMAIN m
      PROVE  \/ i < k /\ m[i] = l[i] /\ i \in DOMAIN l
             \/ i >= k /\ m[i] = l[i + 1] /\ i + 1 \in DOMAIN l
  BY <1>0, <1>3 DEF RemoveAt
<1>5. Injective(m)
  <2>1. SUFFICES ASSUME NEW i \in DOMAIN m, NEW j \in DOMAIN m, m[i] = m[j] PROVE i = j
    BY DEF Injective
  <2> HIDE DEF m
  <2> QED BY <2>1, <1>0, <1>3, <1>4 DEF Injective
<1>6. ASSUME NEW u, InList(u, m) PROVE u # l[k] /\ InList(u, l)
  <2>1. PICK i \in DOMAIN m : m[i] = u BY <1>6 DEF InList
  <2> HIDE DEF m
  <2> QED BY <2>1, <1>0, <1>3, <1>4 DEF Injective, InList
<1>7. ASSUME NEW u, u # l[k], InList(u, l) PROVE InList(u, m)
  <2>1. PICK i \in 1 .. Len(l) : l[i] = u BY <1>7, <1>0 DEF InList
  <2>2. CASE i < k
    <3>1. i \in DOMAIN m /\ m[i] = u BY <2>1, <2>2, <1>0, <1>3 DEF RemoveAt
    <3> QED BY <3>1 DEF InList
  <2>3. CASE i > k
    <3>1. i - 1 \in DOMAIN m /\ m[i - 1] = u BY <2>1, <2>3, <1>0, <1>3 DEF RemoveAt
    <3> QED BY <3>1 DEF InList
  <2> QED BY <2>1, <2>2, <2>3, <1>0, <1>7
<1> QED BY <1>2, <1>5, <1>6, <1>7

(* Unlinking keeps the list sorted. *)
LEMMA RemoveSorted ==
  ASSUME NEW T, NEW l \in Seq(T), NEW x \in [T -> Nat], NEW k \in DOMAIN l, Sorted(l, x)
  PROVE  Sorted(RemoveAt(l, k), x)
<1> DEFINE m == RemoveAt(l, k)
<1>0. Len(l) \in Nat /\ DOMAIN l = 1 .. Len(l) /\ k \in Nat /\ DOMAIN m = 1 .. Len(l) - 1
  BY DEF RemoveAt
<1>1. ASSUME NEW i \in DOMAIN m
      PROVE  \/ i < k /\ m[i] = l[i] /\ i \in DOMAIN l
             \/ i >= k /\ m[i] = l[i + 1] /\ i + 1 \in DOMAIN l
  BY <1>0 DEF RemoveAt
<1>2. SUFFICES ASSUME NEW i \in DOMAIN m, NEW j \in DOMAIN m, i <= j
               PROVE  x[m[i]] <= x[m[j]]
  BY DEF Sorted
<1> HIDE DEF m
<1>3. CASE i < k /\ j < k BY <1>0, <1>1, <1>2, <1>3 DEF Sorted
<1>4. CASE i < k /\ j >= k
  <2>1. i \in DOMAIN l /\ j + 1 \in DOMAIN l /\ i <= j + 1 BY <1>0, <1>1, <1>2, <1>4
  <2>2. m[i] = l[i] /\ m[j] = l[j + 1] BY <1>0, <1>1, <1>4
  <2> QED BY <2>1, <2>2 DEF Sorted
<1>5. CASE i >= k
  <2>1. i + 1 \in DOMAIN l /\ j + 1 \in DOMAIN l /\ i + 1 <= j + 1 BY <1>0, <1>1, <1>2, <1>5
  <2>2. m[i] = l[i + 1] /\ m[j] = l[j + 1] BY <1>0, <1>1, <1>2, <1>5
  <2> QED BY <2>1, <2>2 DEF Sorted
<1> QED BY <1>0, <1>2, <1>3, <1>4, <1>5

(* cancel_timer takes t out of the list and nothing else. *)
LEMMA CancelSpec ==
  ASSUME NEW T, NEW l \in Seq(T), NEW t \in T, Injective(l)
  PROVE  /\ Canceled(l, t) \in Seq(T)
         /\ Injective(Canceled(l, t))
         /\ \A u : InList(u, Canceled(l, t)) <=> u # t /\ InList(u, l)
<1>1. CASE InList(t, l)
  <2> DEFINE k == CHOOSE k \in DOMAIN l : l[k] = t
  <2>1. k \in DOMAIN l /\ l[k] = t BY <1>1 DEF InList
  <2>2. Canceled(l, t) = RemoveAt(l, k) BY <1>1 DEF Canceled
  <2> HIDE DEF k
  <2> QED BY <2>1, <2>2, RemoveMembers
<1>2. CASE ~InList(t, l)
  BY <1>2 DEF Canceled
<1> QED BY <1>1, <1>2

LEMMA CancelSorted ==
  ASSUME NEW T, NEW l \in Seq(T), NEW x \in [T -> Nat], NEW t \in T, Sorted(l, x)
  PROVE  Sorted(Canceled(l, t), x)
<1>1. CASE InList(t, l)
  <2> DEFINE k == CHOOSE k \in DOMAIN l : l[k] = t
  <2>1. k \in DOMAIN l /\ l[k] = t BY <1>1 DEF InList
  <2>2. Canceled(l, t) = RemoveAt(l, k) BY <1>1 DEF Canceled
  <2> HIDE DEF k
  <2> QED BY <2>1, <2>2, RemoveSorted
<1>2. CASE ~InList(t, l)
  BY <1>2 DEF Canceled
<1> QED BY <1>1, <1>2

(* schedule_timer, for a timer that is not in the list and not in the      *)
(* past: it is linked, nothing else changes, and order is kept.            *)
LEMMA ScheduleSpec ==
  ASSUME NEW T, NEW l \in Seq(T), NEW x \in [T -> Nat], NEW t \in T, NEW c \in Nat,
         Injective(l), ~InList(t, l), Sorted(l, x), c <= x[t]
  PROVE  /\ Scheduled(l, x, t, c) \in Seq(T)
         /\ Injective(Scheduled(l, x, t, c))
         /\ Sorted(Scheduled(l, x, t, c), x)
         /\ \A u : InList(u, Scheduled(l, x, t, c)) <=> u = t \/ InList(u, l)
<1> DEFINE p == FirstLater(l, x, x[t])
<1>1. p \in 1 .. Len(l) + 1
  BY FirstLaterSpec
<1>2. Scheduled(l, x, t, c) = InsertAt(l, p, t)
  BY DEF Scheduled
<1>3. Sorted(InsertAt(l, p, t), x)
  BY InsertSorted
<1> HIDE DEF p
<1>4. Injective(InsertAt(l, p, t))
  BY <1>1, InsertInjective
<1>5. /\ InsertAt(l, p, t) \in Seq(T)
      /\ \A u : InList(u, InsertAt(l, p, t)) <=> u = t \/ InList(u, l)
  BY <1>1, InsertMembers
<1> QED BY <1>2, <1>3, <1>4, <1>5

(* The list without its head. *)
LEMMA TailSpec ==
  ASSUME NEW T, NEW l \in Seq(T), l # <<>>, NEW x \in [T -> Nat],
         Injective(l), Sorted(l, x)
  PROVE  /\ Tail(l) \in Seq(T) /\ Injective(Tail(l)) /\ Sorted(Tail(l), x)
         /\ \A u : InList(u, Tail(l)) <=> u # Head(l) /\ InList(u, l)
         /\ \A i \in DOMAIN l : x[Head(l)] <= x[l[i]]
<1>0. /\ Len(l) \in Nat \ {0} /\ DOMAIN l = 1 .. Len(l) /\ Head(l) = l[1]
      /\ Tail(l) \in Seq(T) /\ DOMAIN Tail(l) = 1 .. Len(l) - 1
      /\ \A i \in 1 .. Len(l) - 1 : Tail(l)[i] = l[i + 1]
  OBVIOUS
<1>1. Injective(Tail(l)) BY <1>0 DEF Injective
<1>2. Sorted(Tail(l), x)
  <2>1. SUFFICES ASSUME NEW i \in 1 .. Len(l) - 1, NEW j \in 1 .. Len(l) - 1, i <= j
                 PROVE  x[Tail(l)[i]] <= x[Tail(l)[j]]
    BY <1>0 DEF Sorted
  <2>2. i + 1 \in DOMAIN l /\ j + 1 \in DOMAIN l /\ i + 1 <= j + 1 BY <1>0, <2>1
  <2>3. x[l[i + 1]] <= x[l[j + 1]] BY <2>2 DEF Sorted
  <2> QED BY <2>3, <1>0
<1>3. \A i \in DOMAIN l : x[Head(l)] <= x[l[i]] BY <1>0 DEF Sorted
<1>4. ASSUME NEW u, InList(u, Tail(l)) PROVE u # Head(l) /\ InList(u, l)
  BY <1>0, <1>4 DEF InList, Injective
<1>5. ASSUME NEW u, u # Head(l), InList(u, l) PROVE InList(u, Tail(l))
  <2>1. PICK i \in 1 .. Len(l) : l[i] = u BY <1>0, <1>5 DEF InList
  <2>2. i - 1 \in DOMAIN Tail(l) /\ Tail(l)[i - 1] = u BY <1>0, <1>5, <2>1
  <2> QED BY <2>2 DEF InList
<1> QED BY <1>0, <1>1, <1>2, <1>3, <1>4, <1>5

-----------------------------------------------------------------------------

(* What the loop of executeEvent knows about the clock at each phase. *)
PhaseClock == /\ phase = "init" => now = 0
              /\ phase # "init" => simulateTime_ = SimTime
              /\ phase = "poll" => now <= SimTime
              /\ phase = "done" => now > SimTime

(* The inductive invariant.  NoExit needs NothingBehind, which the clock   *)
(* keeps only because the list is sorted (its head is its minimum), which  *)
(* linking keeps only because a linked timer is never linked again         *)
(* (FlagsMatchList).                                                       *)
IInv == /\ TypeOK /\ NothingBehind /\ NoExit /\ FlagsMatchList /\ ListSorted
        /\ DelayConserved /\ PhaseClock

LEMMA DivSmaller ==
  ASSUME NEW n \in Nat, NEW k \in Nat \ {0}
  PROVE  n \div k \in Nat /\ n \div k <= n
OBVIOUS

(* Initial states satisfy the invariant. *)
LEMMA InitInv == Init => IInv
<1> SUFFICES ASSUME Init PROVE IInv
  OBVIOUS
<1> USE SchedulerConstants
<1>1. TypeOK BY DEF Init, TypeOK, Phase, Flag
<1>2. NothingBehind BY DEF Init, NothingBehind
<1>3. NoExit BY DEF Init, NoExit
<1>4. FlagsMatchList BY DEF Init, FlagsMatchList, InList, Injective
<1>5. ListSorted BY DEF Init, ListSorted, Sorted
<1>6. DelayConserved BY DEF Init, DelayConserved, InList
<1>7. PhaseClock BY DEF Init, PhaseClock
<1> QED BY <1>1, <1>2, <1>3, <1>4, <1>5, <1>6, <1>7 DEF IInv

(* A step that leaves the timers and the clock alone keeps what the        *)
(* invariant says of them.                                                 *)
LEMMA TimersAlone ==
  ASSUME FlagsMatchList, ListSorted, DelayConserved, UNCHANGED <<now, timerVars, left>>
  PROVE  FlagsMatchList' /\ ListSorted' /\ DelayConserved'
<1> USE DEF timerVars
<1>1. FlagsMatchList' BY DEF FlagsMatchList, InList, Injective
<1>2. ListSorted' BY DEF ListSorted, Sorted
<1>3. DelayConserved' BY DEF DelayConserved, InList
<1> QED BY <1>1, <1>2, <1>3

LEMMA ScheduleEventInv ==
  ASSUME IInv, NEW e \in Ev, NEW d \in Delay, ScheduleEvent(e, d)
  PROVE  IInv'
<1> USE SchedulerConstants
<1>1. d \in Nat /\ now \in Nat /\ now + d \in Nat /\ ~(now + d < now)
  BY DEF IInv, TypeOK, Delay
<1>2. /\ stamp' = [stamp EXCEPT ![e] = now + d]
      /\ flag' = [flag EXCEPT ![e] = "call"]
      /\ heapq' \subseteq heapq \cup {e}
      /\ e \notin heapq
      /\ phase' = phase
      /\ calls' = calls + 1
      /\ UNCHANGED <<now, simulateTime_, t0e, timerVars, left>>
  BY <1>1 DEF ScheduleEvent, setEvent, HeapWith, Calling
<1>3. TypeOK' BY <1>1, <1>2 DEF IInv, TypeOK, timerVars, Flag
<1>4. NothingBehind'
  <2>1. \A f \in heapq' : stamp'[f] >= now'
    BY <1>1, <1>2 DEF IInv, TypeOK, NothingBehind
  <2>2. \A i \in DOMAIN list' : expire'[list'[i]] >= now'
    BY <1>2 DEF IInv, NothingBehind, timerVars
  <2> QED BY <1>2, <2>1, <2>2 DEF IInv, NothingBehind, InTime, TooLate
<1>5. NoExit' BY <1>2 DEF IInv, NoExit
<1>6. FlagsMatchList' /\ ListSorted' /\ DelayConserved' BY <1>2, TimersAlone DEF IInv
<1>7. PhaseClock' BY <1>2 DEF IInv, PhaseClock
<1> QED BY <1>3, <1>4, <1>5, <1>6, <1>7 DEF IInv

(* What every call on a timer leaves alone. *)
LEMMA TimerCallFrame ==
  ASSUME IInv, Calling, UNCHANGED <<phase, heapVars>>,
         \A i \in DOMAIN list' : expire'[list'[i]] >= now
  PROVE  NothingBehind' /\ NoExit' /\ PhaseClock'
<1>1. UNCHANGED <<now, simulateTime_, t0e, phase, heapq, stamp, flag>>
  BY DEF Calling, heapVars
<1>2. NothingBehind' BY <1>1 DEF IInv, NothingBehind, InTime, TooLate
<1>3. NoExit' BY <1>1 DEF IInv, NoExit
<1>4. PhaseClock' BY <1>1 DEF IInv, PhaseClock
<1> QED BY <1>2, <1>3, <1>4

LEMMA StartInv ==
  ASSUME IInv, NEW t \in Timer, NEW d \in Delay, NEW p \in Delay, start(t, d, p)
  PROVE  IInv'
<1> USE SchedulerConstants
<1> DEFINE l == IF busy[t] THEN Canceled(list, t) ELSE list
<1>1. /\ d \in Nat /\ p \in Nat /\ now \in Nat /\ now + d \in Nat
      /\ list \in Seq(Timer) /\ expire \in [Timer -> Nat] /\ expire' \in [Timer -> Nat]
      /\ Injective(list) /\ Sorted(list, expire)
  BY DEF IInv, TypeOK, Delay, start, FlagsMatchList, ListSorted
<1>2. l \in Seq(Timer) /\ Injective(l) /\ Sorted(l, expire)
      /\ \A u : InList(u, l) <=> u # t /\ InList(u, list)
  <2>1. CASE busy[t]
    <3>1. l = Canceled(list, t) BY <2>1
    <3> HIDE DEF l
    <3> QED BY <1>1, <3>1, CancelSpec, CancelSorted
  <2>2. CASE ~busy[t]
    <3>1. l = list BY <2>2
    <3>2. ~InList(t, list) BY <2>2 DEF IInv, FlagsMatchList
    <3> QED BY <1>1, <3>1, <3>2
  <2> QED BY <2>1, <2>2
<1>3. /\ list' = Scheduled(l, expire', t, now)
      /\ expire' = [expire EXCEPT ![t] = now + d]
      /\ busy' = [busy EXCEPT ![t] = TRUE]
      /\ paused' = [paused EXCEPT ![t] = FALSE]
      /\ rtime' = [rtime EXCEPT ![t] = 0]
      /\ perio' = [perio EXCEPT ![t] = p]
      /\ left' = [left EXCEPT ![t] = d]
      /\ Calling /\ UNCHANGED <<phase, heapVars>>
      /\ UNCHANGED now
  BY DEF start, Calling
<1> HIDE DEF l
<1>4. ~InList(t, l) BY <1>2
<1>5. /\ list' \in Seq(Timer) /\ Injective(list') /\ Sorted(list', expire')
      /\ \A u : InList(u, list') <=> u = t \/ InList(u, list)
  <2> DEFINE x == expire'
             m == Scheduled(l, x, t, now)
  <2>0. /\ x \in [Timer -> Nat] /\ now <= x[t] /\ list' = m
        /\ \A u \in Timer : u # t => x[u] = expire[u]
    BY <1>1, <1>3
  <2>1. m \in Seq(Timer) /\ Injective(m) /\ Sorted(m, x)
        /\ \A u : InList(u, m) <=> u = t \/ InList(u, l)
    <3> HIDE DEF x
    <3>1. \A i \in DOMAIN l : x[l[i]] = expire[l[i]] BY <1>2, <1>4, <2>0 DEF InList
    <3>2. Sorted(l, x) BY <1>2, <3>1 DEF Sorted
    <3> QED BY <1>1, <1>2, <1>4, <2>0, <3>2, ScheduleSpec
  <2> HIDE DEF m
  <2> QED BY <2>0, <2>1, <1>2
<1>6. TypeOK'
  BY <1>1, <1>3, <1>5 DEF IInv, TypeOK, Calling, heapVars
<1>7. \A i \in DOMAIN list' : expire'[list'[i]] >= now
  <2>1. SUFFICES ASSUME NEW i \in DOMAIN list' PROVE expire'[list'[i]] >= now
    OBVIOUS
  <2>2. list'[i] = t \/ InList(list'[i], list) BY <1>5 DEF InList
  <2>3. list'[i] \in Timer BY <1>5
  <2>4. CASE list'[i] = t BY <2>4, <1>1, <1>3
  <2>5. CASE list'[i] # t
    <3>1. expire'[list'[i]] = expire[list'[i]] BY <2>3, <2>5, <1>1, <1>3
    <3> QED BY <2>2, <2>5, <3>1 DEF IInv, NothingBehind, InList
  <2> QED BY <2>4, <2>5
<1>8. NothingBehind' /\ NoExit' /\ PhaseClock' BY <1>3, <1>7, TimerCallFrame
<1>9. FlagsMatchList'
  <2>1. \A u \in Timer : InList(u, list') <=> busy'[u] /\ ~paused'[u]
    BY <1>3, <1>5 DEF IInv, TypeOK, FlagsMatchList
  <2>2. \A u \in Timer : paused'[u] => busy'[u]
    BY <1>3 DEF IInv, TypeOK, FlagsMatchList
  <2> QED BY <2>1, <2>2, <1>5 DEF FlagsMatchList
<1>10. ListSorted' BY <1>5 DEF ListSorted
<1>11. DelayConserved'
  <2>1. SUFFICES ASSUME NEW u \in Timer
                 PROVE  /\ InList(u, list') => expire'[u] = now + left'[u]
                        /\ paused'[u] => rtime'[u] = left'[u]
    BY <1>3 DEF DelayConserved
  <2>2. CASE u = t BY <2>2, <1>1, <1>3 DEF IInv, TypeOK
  <2>3. CASE u # t BY <2>3, <1>1, <1>3, <1>5 DEF IInv, TypeOK, DelayConserved
  <2> QED BY <2>2, <2>3
<1> QED BY <1>6, <1>8, <1>9, <1>10, <1>11 DEF IInv

(* What cancel_timer leaves of the list, for cancel and pause. *)
LEMMA Unlinked ==
  ASSUME IInv, NEW t \in Timer
  PROVE  /\ Canceled(list, t) \in Seq(Timer)
         /\ Injective(Canceled(list, t)) /\ Sorted(Canceled(list, t), expire)
         /\ \A u : InList(u, Canceled(list, t)) <=> u # t /\ InList(u, list)
         /\ \A i \in DOMAIN Canceled(list, t) : expire[Canceled(list, t)[i]] >= now
<1> DEFINE m == Canceled(list, t)
<1>1. /\ list \in Seq(Timer) /\ expire \in [Timer -> Nat]
      /\ Injective(list) /\ Sorted(list, expire)
  BY DEF IInv, TypeOK, FlagsMatchList, ListSorted
<1>2. /\ m \in Seq(Timer) /\ Injective(m) /\ Sorted(m, expire)
      /\ \A u : InList(u, m) <=> u # t /\ InList(u, list)
  BY <1>1, CancelSpec, CancelSorted
<1> HIDE DEF m
<1>3. \A i \in DOMAIN m : InList(m[i], list) BY <1>2 DEF InList
<1>4. \A i \in DOMAIN m : expire[m[i]] >= now BY <1>3 DEF IInv, NothingBehind, InList
<1> QED BY <1>2, <1>4 DEF m

LEMMA CancelInv ==
  ASSUME IInv, NEW t \in Timer, cancel(t)
  PROVE  IInv'
<1> DEFINE m == Canceled(list, t)
<1>1. /\ m \in Seq(Timer) /\ Injective(m) /\ Sorted(m, expire)
      /\ \A u : InList(u, m) <=> u # t /\ InList(u, list)
      /\ \A i \in DOMAIN m : expire[m[i]] >= now
  BY Unlinked
<1>2. /\ list' = m
      /\ busy' = [busy EXCEPT ![t] = FALSE]
      /\ paused' = [paused EXCEPT ![t] = FALSE]
      /\ rtime' = [rtime EXCEPT ![t] = 0]
      /\ Calling /\ UNCHANGED <<phase, heapVars>>
      /\ UNCHANGED <<now, expire, perio, left>>
  BY DEF cancel, Calling
<1> HIDE DEF m
<1>3. TypeOK' BY <1>1, <1>2 DEF IInv, TypeOK, Calling, heapVars
<1>4. NothingBehind' /\ NoExit' /\ PhaseClock' BY <1>1, <1>2, TimerCallFrame
<1>5. FlagsMatchList' BY <1>1, <1>2 DEF IInv, TypeOK, FlagsMatchList
<1>6. ListSorted' BY <1>1, <1>2 DEF ListSorted
<1>7. DelayConserved' BY <1>1, <1>2 DEF IInv, TypeOK, DelayConserved
<1> QED BY <1>3, <1>4, <1>5, <1>6, <1>7 DEF IInv

LEMMA PauseInv ==
  ASSUME IInv, NEW t \in Timer, pause(t)
  PROVE  IInv'
<1> DEFINE m == Canceled(list, t)
<1>1. /\ m \in Seq(Timer) /\ Injective(m) /\ Sorted(m, expire)
      /\ \A u : InList(u, m) <=> u # t /\ InList(u, list)
      /\ \A i \in DOMAIN m : expire[m[i]] >= now
  BY Unlinked
<1>2. InList(t, list) /\ expire[t] = now + left[t] /\ expire[t] >= now
  <2>1. InList(t, list) BY DEF pause, IInv, FlagsMatchList
  <2> QED BY <2>1 DEF IInv, DelayConserved, NothingBehind, InList
<1>3. now \in Nat /\ expire[t] \in Nat /\ left[t] \in Int BY DEF IInv, TypeOK
<1>4. /\ list' = m
      /\ paused' = [paused EXCEPT ![t] = TRUE]
      /\ rtime' = [rtime EXCEPT ![t] = expire[t] - now]
      /\ Calling /\ UNCHANGED <<phase, heapVars>>
      /\ UNCHANGED <<now, expire, perio, busy, left>>
      /\ busy[t]
  <2>1. ~(now > expire[t]) BY <1>2, <1>3
  <2>2. rtime' = [rtime EXCEPT ![t] = expire[t] - now] BY <2>1 DEF pause
  <2> QED BY <2>2 DEF pause, Calling
<1> HIDE DEF m
<1>5. TypeOK' BY <1>1, <1>2, <1>3, <1>4 DEF IInv, TypeOK, Calling, heapVars
<1>6. NothingBehind' /\ NoExit' /\ PhaseClock' BY <1>1, <1>4, TimerCallFrame
<1>7. FlagsMatchList' BY <1>1, <1>4 DEF IInv, TypeOK, FlagsMatchList
<1>8. ListSorted' BY <1>1, <1>4 DEF ListSorted
<1>9. DelayConserved'
  <2>1. SUFFICES ASSUME NEW u \in Timer
                 PROVE  /\ InList(u, list') => expire'[u] = now' + left'[u]
                        /\ paused'[u] => rtime'[u] = left'[u]
    BY DEF DelayConserved
  <2>2. CASE u = t BY <2>2, <1>1, <1>2, <1>3, <1>4 DEF IInv, TypeOK
  <2>3. CASE u # t BY <2>3, <1>1, <1>4 DEF IInv, TypeOK, DelayConserved
  <2> QED BY <2>2, <2>3
<1> QED BY <1>5, <1>6, <1>7, <1>8, <1>9 DEF IInv

(* Both overloads of resume give the timer the expiry s and link it.       *)
LEMMA ResumeInv ==
  ASSUME IInv, NEW t \in Timer, NEW d \in Nat, paused[t], Calling,
         paused' = [paused EXCEPT ![t] = FALSE],
         expire' = [expire EXCEPT ![t] = now + d + rtime[t]],
         rtime' \in [Timer -> Nat],
         \A u \in Timer : u # t => rtime'[u] = rtime[u],
         list' = Scheduled(list, expire', t, now),
         left' = [left EXCEPT ![t] = left[t] + d],
         UNCHANGED <<phase, heapVars, perio, busy>>
  PROVE  IInv'
<1>1. /\ list \in Seq(Timer) /\ expire \in [Timer -> Nat]
      /\ Injective(list) /\ Sorted(list, expire)
      /\ now \in Nat /\ rtime[t] \in Nat /\ left[t] \in Int /\ now + d + rtime[t] \in Nat
  BY DEF IInv, TypeOK, FlagsMatchList, ListSorted
<1>2. ~InList(t, list) /\ rtime[t] = left[t] /\ busy[t]
  BY DEF IInv, FlagsMatchList, DelayConserved
<1>3. UNCHANGED now BY DEF Calling
<1>4. /\ list' \in Seq(Timer) /\ Injective(list') /\ Sorted(list', expire')
      /\ \A u : InList(u, list') <=> u = t \/ InList(u, list)
  <2> DEFINE x == expire'
             m == Scheduled(list, x, t, now)
  <2>0. /\ x \in [Timer -> Nat] /\ now <= x[t] /\ list' = m
        /\ \A u \in Timer : u # t => x[u] = expire[u]
    BY <1>1
  <2>1. m \in Seq(Timer) /\ Injective(m) /\ Sorted(m, x)
        /\ \A u : InList(u, m) <=> u = t \/ InList(u, list)
    <3> HIDE DEF x
    <3>1. \A i \in DOMAIN list : x[list[i]] = expire[list[i]] BY <1>1, <1>2, <2>0 DEF InList
    <3>2. Sorted(list, x) BY <1>1, <3>1 DEF Sorted
    <3> QED BY <1>1, <1>2, <2>0, <3>2, ScheduleSpec
  <2> HIDE DEF m
  <2> QED BY <2>0, <2>1
<1>5. TypeOK'
  <2>1. expire' \in [Timer -> Nat] BY <1>1
  <2>2. left' \in [Timer -> Int] BY <1>1 DEF IInv, TypeOK
  <2>3. paused' \in [Timer -> BOOLEAN] BY DEF IInv, TypeOK
  <2>4. /\ UNCHANGED <<phase, heapq, stamp, flag, perio, busy, now, simulateTime_, t0e>>
        /\ calls' = calls + 1
    BY DEF Calling, heapVars
  <2>5. calls' \in Nat BY <2>4 DEF IInv, TypeOK
  <2> QED BY <1>4, <2>1, <2>2, <2>3, <2>4, <2>5, Zenon DEF IInv, TypeOK
<1>6. \A i \in DOMAIN list' : expire'[list'[i]] >= now
  <2>1. SUFFICES ASSUME NEW i \in DOMAIN list' PROVE expire'[list'[i]] >= now
    OBVIOUS
  <2>2. list'[i] = t \/ InList(list'[i], list) BY <1>4 DEF InList
  <2>3. list'[i] \in Timer BY <1>4
  <2>4. CASE list'[i] = t BY <2>4, <1>1
  <2>5. CASE list'[i] # t
    <3>1. expire'[list'[i]] = expire[list'[i]] BY <2>3, <2>5, <1>1
    <3> QED BY <2>2, <2>5, <3>1 DEF IInv, NothingBehind, InList
  <2> QED BY <2>4, <2>5
<1>7. NothingBehind' /\ NoExit' /\ PhaseClock' BY <1>6, TimerCallFrame
<1>8. FlagsMatchList'
  BY <1>2, <1>4 DEF IInv, TypeOK, FlagsMatchList
<1>9. ListSorted' BY <1>4 DEF ListSorted
<1>10. DelayConserved'
  <2>1. SUFFICES ASSUME NEW u \in Timer
                 PROVE  /\ InList(u, list') => expire'[u] = now + left'[u]
                        /\ paused'[u] => rtime'[u] = left'[u]
    BY <1>3 DEF DelayConserved
  <2>2. CASE u = t BY <2>2, <1>1, <1>2 DEF IInv, TypeOK
  <2>3. CASE u # t BY <2>3, <1>1, <1>4 DEF IInv, TypeOK, DelayConserved
  <2> QED BY <2>2, <2>3
<1> QED BY <1>5, <1>7, <1>8, <1>9, <1>10 DEF IInv

LEMMA ModuleCallInv == IInv /\ ModuleCall => IInv'
<1> SUFFICES ASSUME IInv, ModuleCall PROVE IInv'
  OBVIOUS
<1> USE SchedulerConstants
<1>1. CASE \E e \in Ev, d \in Delay : ScheduleEvent(e, d)
  BY <1>1, ScheduleEventInv
<1>2. CASE \E t \in Timer, d \in Delay, p \in Delay : start(t, d, p)
  BY <1>2, StartInv
<1>3. CASE \E t \in Timer : cancel(t)
  BY <1>3, CancelInv
<1>4. CASE \E t \in Timer : pause(t)
  BY <1>4, PauseInv
<1>5. CASE \E t \in Timer : resumeNow(t)
  <2>1. PICK t \in Timer : resumeNow(t) BY <1>5
  <2>2. /\ paused[t] /\ Calling
        /\ paused' = [paused EXCEPT ![t] = FALSE]
        /\ expire' = [expire EXCEPT ![t] = now + 0 + rtime[t]]
        /\ rtime' \in [Timer -> Nat]
        /\ \A u \in Timer : u # t => rtime'[u] = rtime[u]
        /\ list' = Scheduled(list, expire', t, now)
        /\ left' = [left EXCEPT ![t] = left[t] + 0]
        /\ UNCHANGED <<phase, heapVars, perio, busy>>
    BY <2>1 DEF resumeNow, IInv, TypeOK
  <2> QED BY <2>2, ResumeInv
<1>6. CASE \E t \in Timer, d \in Delay : resume(t, d)
  <2>1. PICK t \in Timer, d \in Delay : resume(t, d) BY <1>6
  <2>2. /\ d \in Nat /\ paused[t] /\ Calling
        /\ paused' = [paused EXCEPT ![t] = FALSE]
        /\ expire' = [expire EXCEPT ![t] = now + d + rtime[t]]
        /\ rtime' \in [Timer -> Nat]
        /\ \A u \in Timer : u # t => rtime'[u] = rtime[u]
        /\ list' = Scheduled(list, expire', t, now)
        /\ left' = [left EXCEPT ![t] = left[t] + d]
        /\ UNCHANGED <<phase, heapVars, perio, busy>>
    BY <2>1 DEF resume, Delay, IInv, TypeOK
  <2> QED BY <2>2, ResumeInv
<1> QED BY <1>1, <1>2, <1>3, <1>4, <1>5, <1>6 DEF ModuleCall

(* Steps that change only the heap, the tunnel and the phase. *)
LEMMA RunInv == IInv /\ run => IInv'
<1> SUFFICES ASSUME IInv, run PROVE IInv'
  OBVIOUS
<1> USE SchedulerConstants
<1>1. PICK e \in Ev \ heapq :
        /\ heapq' = IF Accepted(now + IpcInterval, SimTime) THEN heapq \cup {e} ELSE heapq
        /\ stamp' = [stamp EXCEPT ![e] = now + IpcInterval]
        /\ flag' = [flag EXCEPT ![e] = "ipc"]
  BY DEF run
<1>2. /\ phase = "init" /\ phase' = "poll" /\ simulateTime_' = SimTime
      /\ UNCHANGED <<now, timerVars, t0e, left, calls>>
  BY DEF run
<1>3. now \in Nat /\ now + IpcInterval \in Nat /\ now + IpcInterval >= now
  BY DEF IInv, TypeOK
<1>4. TypeOK' BY <1>1, <1>2, <1>3 DEF IInv, TypeOK, timerVars, Flag, Phase
<1>5. NothingBehind'
  <2>1. \A f \in heapq' : stamp'[f] >= now'
    BY <1>1, <1>2, <1>3 DEF IInv, TypeOK, NothingBehind
  <2>2. \A i \in DOMAIN list' : expire'[list'[i]] >= now'
    BY <1>2 DEF IInv, NothingBehind, timerVars
  <2> QED BY <1>2, <2>1, <2>2 DEF IInv, NothingBehind, InTime, TooLate
<1>6. NoExit' BY <1>2 DEF NoExit
<1>7. FlagsMatchList' /\ ListSorted' /\ DelayConserved' BY <1>2, TimersAlone DEF IInv
<1>8. PhaseClock' BY <1>2 DEF IInv, PhaseClock
<1> QED BY <1>4, <1>5, <1>6, <1>7, <1>8 DEF IInv

LEMMA KernelInv ==
  ASSUME IInv, NEW te \in TunEvent, KernelRequest(te)
  PROVE  IInv'
<1> USE SchedulerConstants
<1>1. /\ t0e' = Append(t0e, te) /\ calls' = calls + 1
      /\ UNCHANGED <<now, simulateTime_, phase, heapVars, timerVars, left>>
  BY DEF KernelRequest
<1>2. now \in Nat /\ t0e \in Seq(TunEvent) /\ te.value \in Nat /\ te.flag \in TunFlag
  BY DEF IInv, TypeOK, TunEvent
<1>3. /\ now \div TicksPerMicro \in Nat /\ now \div TicksPerMicro <= now
  BY <1>2, DivSmaller
<1>4. InTime(te)
  BY <1>2, <1>3 DEF KernelRequest, InTime, TooLate, TunFlag
<1>5. TypeOK' BY <1>1, <1>2 DEF IInv, TypeOK, timerVars, heapVars
<1>6. NothingBehind'
  <2>1. \A i \in DOMAIN t0e' : t0e'[i] = te \/ \E j \in DOMAIN t0e : t0e'[i] = t0e[j]
    BY <1>1, <1>2
  <2>2. \A i \in DOMAIN t0e' : InTime(t0e'[i])
    BY <2>1, <1>4 DEF IInv, NothingBehind
  <2> QED BY <1>1, <2>2 DEF IInv, NothingBehind, InTime, TooLate, heapVars, timerVars
<1>7. NoExit' BY <1>1 DEF IInv, NoExit
<1>8. FlagsMatchList' /\ ListSorted' /\ DelayConserved' BY <1>1, TimersAlone DEF IInv
<1>9. PhaseClock' BY <1>1 DEF IInv, PhaseClock
<1> QED BY <1>5, <1>6, <1>7, <1>8, <1>9 DEF IInv

(* The tick readt0e computes is never in the past. *)
LEMMA TicksAhead ==
  ASSUME NEW te \in TunEvent, now \in Nat, te.flag = "pgid" => te.value >= now
  PROVE  Ticks(te) \in Nat /\ ~(Ticks(te) < now)
<1> USE SchedulerConstants
<1> DEFINE scaled == te.value * TicksPerMicro
           clamped == IF scaled < now THEN now ELSE scaled
<1>1. te.value \in Nat /\ te.flag \in TunFlag BY DEF TunEvent
<1>2. scaled \in Nat BY <1>1
<1> HIDE DEF scaled
<1>3. clamped \in Nat /\ clamped >= now BY <1>2
<1> HIDE DEF clamped
<1>4. Ticks(te) \in {clamped, clamped + 1, te.value, now}
      /\ (Ticks(te) = te.value => te.flag = "pgid" \/ Ticks(te) \in {clamped, clamped + 1, now})
  BY <1>1 DEF Ticks, TunFlag, clamped, scaled
<1> QED BY <1>1, <1>3, <1>4

LEMMA ReadInv == IInv /\ readt0e => IInv'
<1> SUFFICES ASSUME IInv, readt0e PROVE IInv'
  OBVIOUS
<1> USE SchedulerConstants
<1> DEFINE te == Head(t0e)
<1>1. /\ t0e \in Seq(TunEvent) /\ t0e # <<>> /\ te \in TunEvent /\ te = t0e[1]
      /\ 1 \in DOMAIN t0e /\ t0e' = Tail(t0e) /\ now \in Nat
      /\ UNCHANGED <<now, simulateTime_, timerVars, left, calls>>
  BY DEF IInv, TypeOK, readt0e
<1>2. ~TooLate(te) /\ (te.flag = "pgid" => te.value >= now)
  BY <1>1 DEF IInv, NothingBehind, InTime
<1>3. PICK e \in Ev : setEvent(e, Ticks(te), EventFlag(te))
  BY <1>2 DEF readt0e
<1>4. Ticks(te) \in Nat /\ ~(Ticks(te) < now) BY <1>1, <1>2, TicksAhead
<1>5. EventFlag(te) \in Flag BY <1>1 DEF EventFlag, Flag, TunEvent, TunFlag
<1> HIDE DEF te
<1>6. /\ stamp' = [stamp EXCEPT ![e] = Ticks(te)]
      /\ flag' = [flag EXCEPT ![e] = EventFlag(te)]
      /\ heapq' \subseteq heapq \cup {e} /\ e \notin heapq
      /\ phase' = phase
  BY <1>3, <1>4 DEF setEvent, HeapWith
<1>7. TypeOK' BY <1>1, <1>4, <1>5, <1>6 DEF IInv, TypeOK, timerVars
<1>8. NothingBehind'
  <2>1. \A f \in heapq' : stamp'[f] >= now'
    BY <1>1, <1>4, <1>6 DEF IInv, TypeOK, NothingBehind
  <2>2. \A i \in DOMAIN list' : expire'[list'[i]] >= now'
    BY <1>1 DEF IInv, NothingBehind, timerVars
  <2>3. \A i \in DOMAIN t0e' : i + 1 \in DOMAIN t0e /\ t0e'[i] = t0e[i + 1]
    BY <1>1
  <2>4. \A i \in DOMAIN t0e' : InTime(t0e'[i])
    BY <2>3 DEF IInv, NothingBehind
  <2> QED BY <1>1, <2>1, <2>2, <2>4 DEF NothingBehind, InTime, TooLate
<1>9. NoExit' BY <1>6 DEF IInv, NoExit
<1>10. FlagsMatchList' /\ ListSorted' /\ DelayConserved' BY <1>1, TimersAlone DEF IInv
<1>11. PhaseClock' BY <1>1, <1>6 DEF IInv, PhaseClock
<1> QED BY <1>7, <1>8, <1>9, <1>10, <1>11 DEF IInv

LEMMA EndInv == IInv /\ (drained \/ endStep) => IInv'
<1> SUFFICES ASSUME IInv, drained \/ endStep PROVE IInv'
  OBVIOUS
<1> USE SchedulerConstants
<1>1. CASE drained
  <2>1. /\ phase = "poll" /\ t0e = <<>> /\ heapq = {} /\ list = <<>>
        /\ now' = simulateTime_ + 1 /\ phase' = "done" /\ simulateTime_ = SimTime
        /\ UNCHANGED <<simulateTime_, heapVars, timerVars, t0e, left, calls>>
    BY <1>1 DEF drained, Selecting, IInv, PhaseClock
  <2>2. TypeOK' BY <2>1 DEF IInv, TypeOK, timerVars, heapVars, Phase
  <2>3. NothingBehind' BY <2>1 DEF NothingBehind, heapVars, timerVars
  <2>4. NoExit' BY <2>1 DEF NoExit
  <2>5. FlagsMatchList' BY <2>1 DEF IInv, FlagsMatchList, InList, Injective, timerVars
  <2>6. ListSorted' BY <2>1 DEF ListSorted, Sorted, timerVars
  <2>7. DelayConserved' BY <2>1 DEF IInv, DelayConserved, InList, timerVars
  <2>8. PhaseClock' BY <2>1 DEF PhaseClock
  <2> QED BY <2>2, <2>3, <2>4, <2>5, <2>6, <2>7, <2>8 DEF IInv
<1>2. CASE endStep
  <2>1. /\ phase \in {"module", "kernel"}
        /\ phase' = IF now <= simulateTime_ THEN "poll" ELSE "done"
        /\ UNCHANGED <<now, simulateTime_, heapVars, timerVars, t0e, left, calls>>
    BY <1>2 DEF endStep, LoopAgain
  <2>2. TypeOK' BY <2>1 DEF IInv, TypeOK, timerVars, heapVars, Phase
  <2>3. NothingBehind' BY <2>1 DEF IInv, NothingBehind, InTime, TooLate, heapVars, timerVars
  <2>4. NoExit' BY <2>1 DEF NoExit
  <2>5. FlagsMatchList' /\ ListSorted' /\ DelayConserved' BY <2>1, TimersAlone DEF IInv
  <2>6. PhaseClock' BY <2>1 DEF IInv, TypeOK, PhaseClock
  <2> QED BY <2>2, <2>3, <2>4, <2>5, <2>6 DEF IInv
<1> QED BY <1>1, <1>2

(* Taking the earliest event of the heap, when the head of the list is not *)
(* earlier.                                                                *)
LEMMA DeqHeapInv ==
  ASSUME IInv, NEW e \in Ev, NEW b \in BOOLEAN, deqheap(e, b)
  PROVE  IInv'
<1> USE SchedulerConstants
<1>1. /\ phase = "poll" /\ t0e = <<>> /\ e \in heapq
      /\ \A f \in heapq : stamp[e] <= stamp[f]
      /\ list # <<>> => stamp[e] <= expire[Head(list)]
  BY DEF deqheap, Selecting, Earliest, HeapFirst
<1>2. /\ now \in Nat /\ stamp \in [Ev -> Nat] /\ stamp[e] \in Nat /\ stamp[e] >= now
      /\ list \in Seq(Timer) /\ expire \in [Timer -> Nat] /\ left \in [Timer -> Int]
      /\ Injective(list) /\ Sorted(list, expire)
  BY <1>1 DEF IInv, TypeOK, NothingBehind, FlagsMatchList, ListSorted
<1>3. executeHeap(e, b)
  BY <1>2 DEF deqheap
<1>4. /\ now' = stamp[e]
      /\ left' = [t \in Timer |-> IF InList(t, list) THEN left[t] - (stamp[e] - now)
                                  ELSE left[t]]
      /\ phase' \in {"kernel", "module"}
      /\ UNCHANGED <<simulateTime_, timerVars, t0e, calls>>
  BY <1>3 DEF executeHeap, AdvanceTo
<1>5. /\ heapq' \subseteq heapq
      /\ stamp' \in [Ev -> Nat] /\ flag' \in [Ev -> Flag]
      /\ stamp'[e] >= stamp[e] /\ \A f \in Ev : f # e => stamp'[f] = stamp[f]
  <2>1. flag \in [Ev -> Flag] BY DEF IInv, TypeOK
  <2>2. CASE flag[e] = "ipc"
    <3>1. /\ heapq' = HeapWith(heapq \ {e}, e, stamp[e] + IpcInterval)
          /\ stamp' = [stamp EXCEPT ![e] = stamp[e] + IpcInterval]
          /\ flag' = flag
      BY <1>3, <2>2 DEF executeHeap
    <3> QED BY <3>1, <2>1, <1>1, <1>2 DEF HeapWith
  <2>3. CASE flag[e] = "chktun" /\ b
    <3>1. /\ heapq' = HeapWith(heapq \ {e}, e, stamp[e])
          /\ flag' = [flag EXCEPT ![e] = "call"]
          /\ stamp' = stamp
      BY <1>3, <2>3 DEF executeHeap
    <3> QED BY <3>1, <2>1, <1>1, <1>2 DEF HeapWith, Flag
  <2>4. CASE flag[e] # "ipc" /\ ~(flag[e] = "chktun" /\ b)
    <3>1. heapq' = heapq \ {e} /\ stamp' = stamp /\ flag' = flag
      BY <1>3, <2>4 DEF executeHeap
    <3> QED BY <3>1, <2>1, <1>1, <1>2
  <2> QED BY <2>2, <2>3, <2>4
<1>6. left' \in [Timer -> Int]
  BY <1>2, <1>4
<1>7. TypeOK'
  BY <1>2, <1>4, <1>5, <1>6 DEF IInv, TypeOK, timerVars, Phase
<1>8. NothingBehind'
  <2>1. \A f \in heapq' : stamp'[f] >= now'
    <3>1. SUFFICES ASSUME NEW f \in heapq' PROVE stamp'[f] >= stamp[e]
      BY <1>4
    <3>2. f \in heapq /\ f \in Ev BY <1>5 DEF IInv, TypeOK
    <3>3. CASE f = e BY <3>3, <1>5
    <3>4. CASE f # e BY <3>2, <3>4, <1>1, <1>2, <1>5
    <3> QED BY <3>3, <3>4
  <2>2. \A i \in DOMAIN list' : expire'[list'[i]] >= now'
    <3>1. SUFFICES ASSUME NEW i \in DOMAIN list PROVE expire[list[i]] >= stamp[e]
      BY <1>4 DEF timerVars
    <3>2. list # <<>> /\ Head(list) \in Timer /\ list[i] \in Timer BY <1>2
    <3>3. expire[Head(list)] <= expire[list[i]] BY <1>2, <3>2, TailSpec
    <3>4. expire[Head(list)] \in Nat /\ expire[list[i]] \in Nat BY <1>2, <3>2
    <3> QED BY <1>1, <1>2, <3>2, <3>3, <3>4
  <2>3. DOMAIN t0e' = {} BY <1>1, <1>4
  <2> QED BY <2>1, <2>2, <2>3 DEF NothingBehind
<1>9. NoExit' BY <1>4 DEF NoExit
<1>10. FlagsMatchList' BY <1>4 DEF IInv, FlagsMatchList, InList, Injective, timerVars
<1>11. ListSorted' BY <1>4 DEF IInv, ListSorted, Sorted, timerVars
<1>12. DelayConserved'
  <2>1. SUFFICES ASSUME NEW t \in Timer
                 PROVE  /\ InList(t, list) => expire[t] = stamp[e] + left'[t]
                        /\ paused[t] => rtime[t] = left'[t]
    BY <1>4 DEF DelayConserved, InList, timerVars
  <2>2. CASE InList(t, list)
    <3>1. ~paused[t] BY <2>2 DEF IInv, FlagsMatchList
    <3>2. expire[t] = now + left[t] BY <2>2 DEF IInv, DelayConserved
    <3>3. left'[t] = left[t] - (stamp[e] - now) BY <2>2, <1>4
    <3>4. left[t] \in Int /\ expire[t] \in Nat BY <1>2
    <3> QED BY <3>1, <3>2, <3>3, <3>4, <1>2
  <2>3. CASE ~InList(t, list)
    <3>1. left'[t] = left[t] BY <2>3, <1>4
    <3> QED BY <2>3, <3>1 DEF IInv, DelayConserved
  <2> QED BY <2>2, <2>3
<1>13. PhaseClock' BY <1>1, <1>4 DEF IInv, PhaseClock
<1> QED BY <1>7, <1>8, <1>9, <1>10, <1>11, <1>12, <1>13 DEF IInv

(* Taking the head of the list, when every event of the heap is later.     *)
LEMMA DeqTimerInv == IInv /\ deqtimer => IInv'
<1> SUFFICES ASSUME IInv, deqtimer PROVE IInv'
  OBVIOUS
<1> USE SchedulerConstants
<1> DEFINE t == Head(list)
           s == expire[t]
<1>1. /\ phase = "poll" /\ t0e = <<>> /\ list # <<>>
      /\ \A e \in heapq : s < stamp[e]
  BY DEF deqtimer, Selecting, TimerFirst
<1>2. /\ list \in Seq(Timer) /\ expire \in [Timer -> Nat] /\ left \in [Timer -> Int]
      /\ perio \in [Timer -> Nat] /\ rtime \in [Timer -> Nat]
      /\ Injective(list) /\ Sorted(list, expire) /\ now \in Nat
  BY DEF IInv, TypeOK, FlagsMatchList, ListSorted
<1>3. t \in Timer /\ InList(t, list) /\ s \in Nat /\ s >= now
  <2>1. t \in Timer /\ t = list[1] /\ 1 \in DOMAIN list BY <1>1, <1>2
  <2> QED BY <2>1, <1>2 DEF IInv, NothingBehind, InList
<1>4. executeTimer(t, s)
  <2>1. ~(s < now) BY <1>2, <1>3
  <2>2. IF s < now THEN missed ELSE executeTimer(t, s) BY Zenon DEF deqtimer
  <2> HIDE DEF s, t
  <2> QED BY <2>1, <2>2, Zenon
<1>5. /\ Tail(list) \in Seq(Timer) /\ Injective(Tail(list)) /\ Sorted(Tail(list), expire)
      /\ \A u : InList(u, Tail(list)) <=> u # t /\ InList(u, list)
      /\ \A i \in DOMAIN list : s <= expire[list[i]]
  BY <1>1, <1>2, TailSpec
<1>6. /\ now' = s /\ phase' = "module"
      /\ left' = [u \in Timer |-> IF u = t THEN perio[t]
                                  ELSE IF InList(u, list) THEN left[u] - (s - now)
                                  ELSE left[u]]
      /\ UNCHANGED <<simulateTime_, heapVars, perio, t0e, calls>>
  BY <1>4 DEF executeTimer
<1>7. /\ perio[t] > 0 =>
           /\ expire' = [expire EXCEPT ![t] = s + perio[t]]
           /\ list' = Scheduled(Tail(list), expire', t, s)
           /\ UNCHANGED <<busy, paused, rtime>>
      /\ ~(perio[t] > 0) =>
           /\ list' = Tail(list)
           /\ busy' = [busy EXCEPT ![t] = FALSE]
           /\ paused' = [paused EXCEPT ![t] = FALSE]
           /\ rtime' = [rtime EXCEPT ![t] = 0]
           /\ UNCHANGED expire
  BY <1>4 DEF executeTimer
<1> HIDE DEF s, t
<1>8. left' \in [Timer -> Int] BY <1>2, <1>3, <1>6
<1>9. \A u \in Timer : InList(u, list) => expire[u] >= s
  BY <1>5 DEF InList
<1>10. /\ list' \in Seq(Timer) /\ Injective(list') /\ Sorted(list', expire')
       /\ \A u : InList(u, list') <=> IF u = t THEN perio[t] > 0 ELSE InList(u, list)
       /\ expire' \in [Timer -> Nat]
       /\ \A u \in Timer : u # t => expire'[u] = expire[u]
       /\ perio[t] > 0 => expire'[t] = s + perio[t]
  <2>1. CASE perio[t] > 0
    <3> DEFINE x == expire'
               m == Scheduled(Tail(list), x, t, s)
    <3>1. /\ x \in [Timer -> Nat] /\ x[t] = s + perio[t] /\ s <= x[t]
          /\ \A u \in Timer : u # t => x[u] = expire[u]
      <4>1. expire' = [expire EXCEPT ![t] = s + perio[t]] BY <1>7, <2>1
      <4>2. s + perio[t] \in Nat /\ s <= s + perio[t] BY <1>2, <1>3
      <4>3. expire'[t] = s + perio[t] BY <4>1, <1>2, <1>3
      <4>4. \A u \in Timer : u # t => expire'[u] = expire[u] BY <4>1, <1>2
      <4>5. expire' \in [Timer -> Nat] BY <4>1, <4>2, <1>2, <1>3
      <4> QED BY <4>2, <4>3, <4>4, <4>5
    <3>2. list' = m BY <1>7, <2>1
    <3>3. ~InList(t, Tail(list)) BY <1>5
    <3> HIDE DEF x
    <3>4. \A i \in DOMAIN Tail(list) : x[Tail(list)[i]] = expire[Tail(list)[i]]
      BY <1>5, <3>1, <3>3 DEF InList
    <3>5. Sorted(Tail(list), x) BY <1>5, <3>4 DEF Sorted
    <3>6. /\ m \in Seq(Timer) /\ Injective(m) /\ Sorted(m, x)
          /\ \A u : InList(u, m) <=> u = t \/ InList(u, Tail(list))
      BY <1>3, <1>5, <3>1, <3>3, <3>5, ScheduleSpec
    <3> HIDE DEF m
    <3> QED BY <1>5, <3>1, <3>2, <3>6, <2>1 DEF x
  <2>2. CASE ~(perio[t] > 0)
    BY <1>2, <1>5, <1>7, <2>2
  <2> QED BY <2>1, <2>2
<1>11. /\ busy' \in [Timer -> BOOLEAN] /\ paused' \in [Timer -> BOOLEAN]
       /\ rtime' \in [Timer -> Nat]
       /\ \A u \in Timer : u # t => /\ busy'[u] = busy[u] /\ paused'[u] = paused[u]
                                   /\ rtime'[u] = rtime[u]
       /\ perio[t] > 0 => busy'[t] /\ ~paused'[t]
       /\ ~(perio[t] > 0) => ~busy'[t] /\ ~paused'[t]
  <2>1. busy \in [Timer -> BOOLEAN] /\ paused \in [Timer -> BOOLEAN]
    BY DEF IInv, TypeOK
  <2>2. busy[t] /\ ~paused[t] BY <1>3 DEF IInv, FlagsMatchList
  <2>3. CASE perio[t] > 0 BY <1>2, <1>7, <2>1, <2>2, <2>3
  <2>4. CASE ~(perio[t] > 0)
    <3>1. /\ busy' = [busy EXCEPT ![t] = FALSE] /\ paused' = [paused EXCEPT ![t] = FALSE]
          /\ rtime' = [rtime EXCEPT ![t] = 0]
      BY <1>7, <2>4
    <3>2. busy' \in [Timer -> BOOLEAN] /\ paused' \in [Timer -> BOOLEAN]
      BY <1>3, <2>1, <3>1, Zenon
    <3>3. rtime' \in [Timer -> Nat] BY <1>2, <1>3, <3>1
    <3>4. ~busy'[t] /\ ~paused'[t] BY <1>3, <2>1, <3>1
    <3>5. \A u \in Timer : u # t => /\ busy'[u] = busy[u] /\ paused'[u] = paused[u]
                                    /\ rtime'[u] = rtime[u]
      BY <1>2, <1>3, <2>1, <3>1
    <3> QED BY <2>4, <3>2, <3>3, <3>4, <3>5
  <2> QED BY <2>3, <2>4
<1>12. TypeOK'
  BY <1>3, <1>6, <1>8, <1>10, <1>11 DEF IInv, TypeOK, heapVars, Phase
<1>13. NothingBehind'
  <2>1. \A e \in heapq' : stamp'[e] >= now'
    <3>1. \A e \in heapq : stamp[e] \in Nat BY DEF IInv, TypeOK
    <3> QED BY <1>1, <1>3, <1>6, <3>1 DEF heapVars
  <2>2. \A i \in DOMAIN list' : expire'[list'[i]] >= now'
    <3>1. SUFFICES ASSUME NEW i \in DOMAIN list' PROVE expire'[list'[i]] >= s
      BY <1>6
    <3>2. list'[i] \in Timer /\ InList(list'[i], list') BY <1>10 DEF InList
    <3>3. CASE list'[i] = t BY <3>2, <3>3, <1>2, <1>3, <1>10
    <3>4. CASE list'[i] # t BY <3>2, <3>4, <1>9, <1>10
    <3> QED BY <3>3, <3>4
  <2>3. DOMAIN t0e' = {} BY <1>1, <1>6
  <2> QED BY <2>1, <2>2, <2>3 DEF NothingBehind
<1>14. NoExit' BY <1>6 DEF NoExit
<1>15. FlagsMatchList'
  <2>1. SUFFICES ASSUME NEW u \in Timer
                 PROVE  /\ InList(u, list') <=> busy'[u] /\ ~paused'[u]
                        /\ paused'[u] => busy'[u]
    BY <1>10 DEF FlagsMatchList
  <2>2. CASE u = t BY <2>2, <1>10, <1>11
  <2>3. CASE u # t BY <2>3, <1>10, <1>11 DEF IInv, FlagsMatchList
  <2> QED BY <2>2, <2>3
<1>16. ListSorted' BY <1>10 DEF ListSorted
<1>17. DelayConserved'
  <2>1. SUFFICES ASSUME NEW u \in Timer
                 PROVE  /\ InList(u, list') => expire'[u] = s + left'[u]
                        /\ paused'[u] => rtime'[u] = left'[u]
    BY <1>6 DEF DelayConserved
  <2>2. CASE u = t
    <3>1. left'[t] = perio[t] BY <1>3, <1>6
    <3> QED BY <2>2, <3>1, <1>10, <1>11
  <2>3. CASE u # t /\ InList(u, list)
    <3>1. ~paused[u] /\ expire[u] = now + left[u] BY <2>3 DEF IInv, FlagsMatchList, DelayConserved
    <3>2. left'[u] = left[u] - (s - now) BY <2>3, <1>6
    <3>3. left[u] \in Int /\ expire'[u] = expire[u] /\ expire[u] \in Nat BY <2>3, <1>2, <1>10
    <3> QED BY <2>3, <3>1, <3>2, <3>3, <1>2, <1>3, <1>11
  <2>4. CASE u # t /\ ~InList(u, list)
    <3>1. left'[u] = left[u] BY <2>4, <1>6
    <3> QED BY <2>4, <3>1, <1>10, <1>11 DEF IInv, DelayConserved
  <2> QED BY <2>2, <2>3, <2>4
<1>18. PhaseClock' BY <1>1, <1>6 DEF IInv, PhaseClock
<1> QED BY <1>12, <1>13, <1>14, <1>15, <1>16, <1>17, <1>18 DEF IInv

(* Every step keeps the invariant. *)
LEMMA NextInv == IInv /\ [Next]_vars => IInv'
<1> SUFFICES ASSUME IInv, [Next]_vars PROVE IInv'
  OBVIOUS
<1> USE SchedulerConstants
<1>1. CASE ModuleCall BY <1>1, ModuleCallInv
<1>2. CASE Kernel
  <2>1. PICK f \in TunFlag, v \in 0 .. SimTime + MaxDelay :
          KernelRequest([flag |-> f, value |-> v])
    BY <1>2 DEF Kernel
  <2>2. [flag |-> f, value |-> v] \in TunEvent BY DEF TunEvent
  <2> QED BY <2>1, <2>2, KernelInv
<1>3. CASE run BY <1>3, RunInv
<1>4. CASE readt0e BY <1>4, ReadInv
<1>5. CASE deqtimer BY <1>5, DeqTimerInv
<1>6. CASE drained \/ endStep BY <1>6, EndInv
<1>7. CASE \E e \in Ev, b \in BOOLEAN : deqheap(e, b) BY <1>7, DeqHeapInv
<1>8. CASE UNCHANGED vars
  <2>1. UNCHANGED <<now, simulateTime_, phase, heapVars, timerVars, t0e, left, calls>>
    BY <1>8 DEF vars
  <2>2. TypeOK' BY <2>1 DEF IInv, TypeOK, timerVars, heapVars
  <2>3. NothingBehind' BY <2>1 DEF IInv, NothingBehind, InTime, TooLate, heapVars, timerVars
  <2>4. NoExit' /\ PhaseClock' BY <2>1 DEF IInv, NoExit, PhaseClock
  <2>5. FlagsMatchList' /\ ListSorted' /\ DelayConserved' BY <2>1, TimersAlone DEF IInv
  <2> QED BY <2>2, <2>3, <2>4, <2>5 DEF IInv
<1> QED BY <1>1, <1>2, <1>3, <1>4, <1>5, <1>6, <1>7, <1>8 DEF Next, Engine

THEOREM Invariance == Spec => []IInv
BY InitInv, NextInv, PTL DEF Spec

(* Every field keeps its type. *)
THEOREM Typed == Spec => []TypeOK
<1>1. IInv => TypeOK BY DEF IInv
<1> QED BY <1>1, Invariance, PTL

(* Whatever modules and kernel schedule, no event, timer or tunnel request *)
(* ever lies behind the clock, and no exit(0) of the engine is reached.    *)
THEOREM NothingMissed == Spec => [](NothingBehind /\ NoExit)
<1>1. IInv => NothingBehind /\ NoExit BY DEF IInv
<1> QED BY <1>1, Invariance, PTL

(* A timer is linked exactly while busy_ and not paused_, in a list that   *)
(* is sorted and without repetition.                                       *)
THEOREM TimerListSound == Spec => [](FlagsMatchList /\ ListSorted)
<1>1. IInv => FlagsMatchList /\ ListSorted BY DEF IInv
<1> QED BY <1>1, Invariance, PTL

(* A timer expires after exactly the ticks it was given, pauses excluded.  *)
THEOREM DelaysConserved == Spec => []DelayConserved
<1>1. IInv => DelayConserved BY DEF IInv
<1> QED BY <1>1, Invariance, PTL

(* When the loop ends, everything due has been executed. *)
THEOREM Completeness == Spec => []AllDueExecuted
<1>1. IInv => AllDueExecuted
  <2>1. SUFFICES ASSUME IInv, phase = "done"
                 PROVE  /\ \A e \in heapq : stamp[e] > SimTime
                        /\ \A i \in DOMAIN list : expire[list[i]] > SimTime
    BY DEF AllDueExecuted
  <2>2. now > SimTime /\ now \in Nat /\ SimTime \in Nat
    BY <2>1, SchedulerConstants DEF IInv, PhaseClock, TypeOK
  <2>3. /\ \A e \in heapq : stamp[e] \in Nat /\ stamp[e] >= now
        /\ \A i \in DOMAIN list : expire[list[i]] \in Nat /\ expire[list[i]] >= now
    BY <2>1 DEF IInv, TypeOK, NothingBehind
  <2> QED BY <2>2, <2>3
<1> QED BY <1>1, Invariance, PTL


-----------------------------------------------------------------------------
(* The linked list of module TimerList, for any number of timers: it is a  *)
(* path of pointers through the timers of a sequence (ListInv), and what   *)
(* schedule_timer, cancel_timer and dequeue_timer write is what linking    *)
(* and unlinking do to that sequence.                                      *)

(* head and next link the timers of l in this order, and no others.        *)
Path(l, head, next) ==
  /\ l \in Seq(Timer) /\ Injective(l)
  /\ \A i \in 0 .. Len(l) : Follows(l, i, head, next) = IF i = Len(l) THEN NULL ELSE l[i + 1]
  /\ \A t \in Timer : ~InList(t, l) => next[t] = NULL

(* A list without repetitions is not longer than there are timers.         *)
LEMMA ListBounded ==
  ASSUME NEW l \in Seq(Timer), Injective(l)
  PROVE  Cardinality(Timer) \in Nat /\ Len(l) <= Cardinality(Timer)
<1>0. IsFiniteSet(Timer) /\ Len(l) \in Nat BY TimerListConstants
<1>1. l \in [1 .. Len(l) -> Timer] OBVIOUS
<1>2. l \in Injection(1 .. Len(l), Timer) BY <1>1 DEF Injection, IsInjective, Injective
<1>3. Cardinality(1 .. Len(l)) <= Cardinality(Timer) BY <1>0, <1>2, FS_Injection
<1>4. Cardinality(1 .. Len(l)) = Len(l)
  <2>1. PICK n \in Nat : n = Len(l) BY <1>0
  <2>2. Cardinality(1 .. n) = IF 1 > n THEN 0 ELSE n - 1 + 1 BY FS_Interval
  <2>3. Cardinality(1 .. n) = n BY <2>2
  <2>4. QED BY <2>1, <2>3
<1>5. Cardinality(Timer) \in Nat BY <1>0, FS_CardinalityType
<1>6. QED BY <1>3, <1>4, <1>5

(* The walk from head is the list.                                         *)
LEMMA ChainIs ==
  ASSUME NEW head, NEW next, NEW l, Path(l, head, next)
  PROVE  ChainFrom(head, next) = l
<1> DEFINE N == Cardinality(Timer)
           W(c) == /\ \A i \in DOMAIN c : c[i] = Follows(c, i - 1, head, next)
                   /\ Len(c) = N + 1 \/ Follows(c, Len(c), head, next) = NULL
<1>0. l \in Seq(Timer) /\ Injective(l) BY DEF Path
<1>1. N \in Nat /\ Len(l) \in Nat /\ Len(l) <= N /\ DOMAIN l = 1 .. Len(l) BY <1>0, ListBounded
<1>2. NULL \notin Timer BY TimerListConstants
<1>3. /\ \A i \in 1 .. Len(l) : l[i] = Follows(l, i - 1, head, next)
      /\ Follows(l, Len(l), head, next) = NULL
  <2>1. \A i \in 0 .. Len(l) : Follows(l, i, head, next) = IF i = Len(l) THEN NULL ELSE l[i + 1]
    BY DEF Path
  <2>2. Follows(l, Len(l), head, next) = NULL
    <3>1. PICK n \in Nat : n = Len(l) BY <1>1
    <3>2. n \in 0 .. n BY <3>1
    <3>3. QED BY <2>1, <3>1, <3>2
  <2>3. ASSUME NEW i \in 1 .. Len(l) PROVE l[i] = Follows(l, i - 1, head, next)
    <3>1. i - 1 \in 0 .. Len(l) /\ i - 1 # Len(l) /\ (i - 1) + 1 = i BY <1>1
    <3>2. QED BY <2>1, <3>1
  <2>4. QED BY <2>2, <2>3
<1>4. l \in Walks
  <2>1. l \in [1 .. Len(l) -> Timer] /\ Len(l) \in 0 .. N + 1 BY <1>0, <1>1
  <2>2. QED BY <2>1 DEF Walks
<1>5. W(l) BY <1>1, <1>3
<1>6. ASSUME NEW c \in Walks, W(c) PROVE c = l
  <2>1. PICK n \in 0 .. N + 1 : c \in [1 .. n -> Timer] BY DEF Walks
  <2>2. n \in Nat /\ Len(c) = n /\ DOMAIN c = 1 .. n BY <1>1, <2>1
  <2> HIDE DEF N
  <2>3. /\ \A i \in 1 .. n : c[i] = Follows(c, i - 1, head, next)
        /\ n = N + 1 \/ Follows(c, n, head, next) = NULL
    BY <1>6, <2>2
  <2>4. \A i \in 1 .. n : i <= Len(l) => c[i] = l[i]
    <3> DEFINE D == {i \in 1 .. n : i <= Len(l) /\ c[i] # l[i]}
    <3> SUFFICES ASSUME D # {} PROVE FALSE OBVIOUS
    <3>1. D \subseteq Nat BY <2>2
    <3>2. PICK k \in D : \A m \in D : k <= m BY <3>1, LeastNat
    <3>3. k \in 1 .. n /\ k \in 1 .. Len(l) /\ c[k] # l[k] BY <1>1, <2>2, <3>2
    <3>4. Follows(c, k - 1, head, next) = Follows(l, k - 1, head, next)
      <4>1. CASE k = 1
        <5>1. k - 1 = 0 BY <4>1
        <5>2. QED BY <5>1 DEF Follows
      <4>2. CASE k # 1
        <5>1. k - 1 \in 1 .. n /\ k - 1 \in 1 .. Len(l) /\ ~(k <= k - 1) /\ k - 1 # 0
          BY <1>1, <2>2, <3>3, <4>2
        <5>2. k - 1 \notin D BY <3>2, <5>1
        <5>3. c[k - 1] = l[k - 1] BY <5>1, <5>2
        <5>4. QED BY <5>1, <5>3 DEF Follows
      <4>3. QED BY <4>1, <4>2
    <3>5. QED BY <1>3, <2>3, <3>3, <3>4
  <2>5. n = Len(l)
    <3>1. CASE n < Len(l)
      <4>1. Follows(c, n, head, next) = Follows(l, n, head, next)
        <5>1. CASE n = 0 BY <5>1 DEF Follows
        <5>2. CASE n # 0
          <6>1. n \in 1 .. n /\ n <= Len(l) BY <2>2, <3>1, <5>2
          <6>2. QED BY <2>4, <5>2, <6>1 DEF Follows
        <5>3. QED BY <5>1, <5>2
      <4>2. n + 1 \in 1 .. Len(l) /\ (n + 1) - 1 = n BY <1>1, <2>2, <3>1
      <4>3. l[n + 1] = Follows(l, n, head, next) BY <1>3, <4>2
      <4>4. l[n + 1] \in Timer BY <1>0, <4>2
      <4>5. n = N + 1 BY <1>2, <2>3, <4>1, <4>3, <4>4
      <4>6. N \in Nat /\ Len(l) \in Nat /\ Len(l) <= N /\ n < Len(l) /\ n = N + 1 BY <1>1, <3>1, <4>5
      <4>7. QED BY <4>6
    <3>2. CASE Len(l) < n
      <4>1. Len(l) + 1 \in 1 .. n /\ (Len(l) + 1) - 1 = Len(l) BY <1>1, <2>2, <3>2
      <4>2. c[Len(l) + 1] = Follows(c, Len(l), head, next) BY <2>3, <4>1
      <4>3. Follows(c, Len(l), head, next) = Follows(l, Len(l), head, next)
        <5>1. CASE Len(l) = 0 BY <5>1 DEF Follows
        <5>2. CASE Len(l) # 0
          <6>1. Len(l) \in 1 .. n /\ Len(l) <= Len(l) BY <1>1, <2>2, <3>2, <5>2
          <6>2. QED BY <2>4, <5>2, <6>1 DEF Follows
        <5>3. QED BY <5>1, <5>2
      <4>4. c[Len(l) + 1] \in Timer BY <2>1, <4>1
      <4>5. QED BY <1>2, <1>3, <4>2, <4>3, <4>4
    <3>3. n \in Nat /\ Len(l) \in Nat BY <1>1, <2>2
    <3>4. n < Len(l) \/ Len(l) < n \/ n = Len(l) BY <3>3
    <3>5. QED BY <3>1, <3>2, <3>4
  <2>6. c \in [1 .. n -> Timer] /\ l \in [1 .. n -> Timer] BY <1>0, <2>1, <2>5
  <2>7. \A i \in 1 .. n : c[i] = l[i] BY <1>1, <2>4, <2>5
  <2>8. QED BY <2>6, <2>7
<1>7. ChainFrom(head, next) = CHOOSE c \in Walks : W(c) BY DEF ChainFrom
<1>8. PICK c : c = CHOOSE x \in Walks : W(x) OBVIOUS
<1>9. c \in Walks /\ W(c) BY <1>4, <1>5, <1>8
<1>10. QED BY <1>6, <1>7, <1>8, <1>9

(* The pointers schedule_timer writes link t before the p-th timer.        *)
LEMMA InsertPath ==
  ASSUME NEW l, NEW head, NEW next, Path(l, head, next), NEW t \in Timer, ~InList(t, l),
         NEW p \in 1 .. Len(l) + 1, NEW first, NEW link,
         first = IF p = 1 THEN t ELSE head,
         link = [u \in Timer |-> IF u = t THEN (IF p = Len(l) + 1 THEN NULL ELSE l[p])
                                 ELSE IF p > 1 /\ u = l[p - 1] THEN t ELSE next[u]]
  PROVE  Path(InsertAt(l, p, t), first, link)
<1> DEFINE n == Len(l)
           m == InsertAt(l, p, t)
<1>0. /\ l \in Seq(Timer) /\ Injective(l) /\ n \in Nat /\ p \in Nat /\ 1 <= p /\ p <= n + 1
      /\ \A i \in 1 .. n : l[i] \in Timer
  BY DEF Path
<1>1. /\ m \in Seq(Timer) /\ Len(m) = n + 1 /\ Injective(m)
      /\ \A u : InList(u, m) <=> u = t \/ InList(u, l)
  BY <1>0, InsertMembers, InsertInjective
<1>2. \A i \in 1 .. n + 1 : m[i] = IF i < p THEN l[i] ELSE IF i = p THEN t ELSE l[i - 1]
  BY DEF InsertAt
<1>3. \A i \in 1 .. n : l[i] # t BY <1>0 DEF InList
<1>4. \A i, k \in 1 .. n : l[i] = l[k] => i = k BY <1>0 DEF Injective
<1>5. /\ head = IF n = 0 THEN NULL ELSE l[1]
      /\ \A i \in 1 .. n : next[l[i]] = IF i = n THEN NULL ELSE l[i + 1]
  <2>1. \A i \in 0 .. n : Follows(l, i, head, next) = IF i = n THEN NULL ELSE l[i + 1]
    BY DEF Path
  <2>2. Follows(l, 0, head, next) = head /\ 0 \in 0 .. n /\ 0 + 1 = 1 BY <1>0 DEF Follows
  <2>3. \A i \in 1 .. n : i \in 0 .. n /\ Follows(l, i, head, next) = next[l[i]]
    BY <1>0 DEF Follows
  <2>4. QED BY <2>1, <2>2, <2>3
<1>6. \A u \in Timer : link[u] = IF u = t THEN (IF p = n + 1 THEN NULL ELSE l[p])
                                 ELSE IF p > 1 /\ u = l[p - 1] THEN t ELSE next[u]
  OBVIOUS
<1> HIDE DEF n, m
<1>7. ASSUME NEW i \in 1 .. n + 1 PROVE link[m[i]] = IF i = n + 1 THEN NULL ELSE m[i + 1]
  <2>1. CASE i < p - 1
    <3>1. /\ i \in 1 .. n /\ p - 1 \in 1 .. n /\ i # p - 1 /\ i # n /\ i + 1 \in 1 .. n + 1
          /\ i < p /\ i + 1 < p /\ i # n + 1
      BY <1>0, <2>1
    <3>2. m[i] = l[i] /\ m[i + 1] = l[i + 1] BY <1>2, <3>1
    <3>3. l[i] \in Timer /\ l[i] # t /\ l[i] # l[p - 1] BY <1>0, <1>3, <1>4, <3>1
    <3>4. link[l[i]] = next[l[i]] BY <1>6, <3>3
    <3>5. QED BY <1>5, <3>1, <3>2, <3>4
  <2>2. CASE i = p - 1
    <3>1. i \in 1 .. n /\ i + 1 \in 1 .. n + 1 /\ i < p /\ i + 1 = p /\ i # n + 1 /\ p > 1
      BY <1>0, <2>2
    <3>2. m[i] = l[i] /\ m[i + 1] = t BY <1>2, <3>1
    <3>3. l[i] \in Timer /\ l[i] # t BY <1>0, <1>3, <3>1
    <3>4. link[l[i]] = t BY <1>6, <2>2, <3>1, <3>3
    <3>5. QED BY <3>1, <3>2, <3>4
  <2>3. CASE i = p
    <3>1. m[i] = t BY <1>0, <1>2, <2>3
    <3>2. link[t] = IF p = n + 1 THEN NULL ELSE l[p] BY <1>6
    <3>3. p # n + 1 => m[p + 1] = l[p]
      <4>1. p # n + 1 => p + 1 \in 1 .. n + 1 /\ ~(p + 1 < p) /\ p + 1 # p /\ (p + 1) - 1 = p
        BY <1>0
      <4>2. QED BY <1>2, <4>1
    <3>4. QED BY <2>3, <3>1, <3>2, <3>3
  <2>4. CASE i > p
    <3>1. /\ i - 1 \in 1 .. n /\ ~(i < p) /\ i # p /\ i - 1 # p - 1
          /\ (i - 1 = n <=> i = n + 1) /\ (i - 1) + 1 = i /\ (p > 1 => p - 1 \in 1 .. n)
      BY <1>0, <2>4
    <3>2. m[i] = l[i - 1] BY <1>2, <3>1
    <3>3. l[i - 1] \in Timer /\ l[i - 1] # t BY <1>0, <1>3, <3>1
    <3>4. ~(p > 1 /\ l[i - 1] = l[p - 1]) BY <1>4, <3>1
    <3>5. link[l[i - 1]] = next[l[i - 1]] BY <1>6, <3>3, <3>4
    <3>6. next[l[i - 1]] = IF i - 1 = n THEN NULL ELSE l[(i - 1) + 1] BY <1>5, <3>1
    <3>7. i # n + 1 => m[i + 1] = l[i]
      <4>1. i # n + 1 => i + 1 \in 1 .. n + 1 /\ ~(i + 1 < p) /\ i + 1 # p /\ (i + 1) - 1 = i
        BY <1>0, <2>4
      <4>2. QED BY <1>2, <4>1
    <3>8. QED BY <3>1, <3>2, <3>5, <3>6, <3>7
  <2>5. QED BY <1>0, <2>1, <2>2, <2>3, <2>4
<1>8. first = m[1]
  <2>1. CASE p = 1
    <3>1. 1 \in 1 .. n + 1 /\ ~(1 < p) BY <1>0, <2>1
    <3>2. QED BY <1>2, <2>1, <3>1
  <2>2. CASE p # 1
    <3>1. 1 \in 1 .. n + 1 /\ 1 < p /\ n # 0 BY <1>0, <2>2
    <3>2. QED BY <1>2, <1>5, <2>2, <3>1
  <2>3. QED BY <2>1, <2>2
<1>9. ASSUME NEW u \in Timer, ~InList(u, m) PROVE link[u] = NULL
  <2>1. u # t /\ ~InList(u, l) BY <1>1, <1>9
  <2>2. next[u] = NULL BY <2>1 DEF Path
  <2>3. ~(p > 1 /\ u = l[p - 1])
    <3>1. p > 1 => p - 1 \in DOMAIN l BY <1>0 DEF n
    <3>2. QED BY <2>1, <3>1 DEF InList
  <2>4. QED BY <1>6, <2>1, <2>2, <2>3
<1>10. \A i \in 0 .. Len(m) : Follows(m, i, first, link) = IF i = Len(m) THEN NULL ELSE m[i + 1]
  <2> SUFFICES ASSUME NEW i \in 0 .. n + 1
               PROVE  Follows(m, i, first, link) = IF i = n + 1 THEN NULL ELSE m[i + 1]
    BY <1>1 DEF n
  <2>1. CASE i = 0
    <3>1. i # n + 1 /\ i + 1 = 1 BY <1>0, <2>1
    <3>2. QED BY <1>8, <2>1, <3>1 DEF Follows
  <2>2. CASE i # 0
    <3>1. i \in 1 .. n + 1 BY <1>0, <2>2
    <3>2. QED BY <1>7, <2>2, <3>1 DEF Follows
  <2>3. QED BY <2>1, <2>2
<1>11. QED BY <1>1, <1>9, <1>10 DEF Path, m

(* Those Unlink writes take the k-th timer out.                            *)
LEMMA RemovePath ==
  ASSUME NEW l, NEW head, NEW next, Path(l, head, next), NEW k \in 1 .. Len(l),
         NEW first, NEW link,
         first = IF k = 1 THEN next[l[k]] ELSE head,
         link = [u \in Timer |-> IF u = l[k] THEN NULL
                                 ELSE IF k > 1 /\ u = l[k - 1] THEN next[l[k]] ELSE next[u]]
  PROVE  Path(RemoveAt(l, k), first, link)
<1> DEFINE n == Len(l)
           m == RemoveAt(l, k)
<1>0. /\ l \in Seq(Timer) /\ Injective(l) /\ n \in Nat /\ k \in Nat /\ 1 <= k /\ k <= n
      /\ k \in DOMAIN l /\ \A i \in 1 .. n : l[i] \in Timer
  BY DEF Path
<1>1. /\ m \in Seq(Timer) /\ Injective(m) /\ \A u : InList(u, m) <=> u # l[k] /\ InList(u, l)
  BY <1>0, RemoveMembers
<1>2. /\ Len(m) = n - 1
      /\ \A i \in 1 .. n - 1 : m[i] = IF i < k THEN l[i] ELSE l[i + 1]
  <2>1. m = [i \in 1 .. n - 1 |-> IF i < k THEN l[i] ELSE l[i + 1]] BY DEF RemoveAt
  <2>2. n - 1 \in Nat /\ DOMAIN m = 1 .. n - 1 BY <1>0, <2>1
  <2>3. QED BY <1>1, <2>1, <2>2
<1>4. \A i, j \in 1 .. n : l[i] = l[j] => i = j BY <1>0 DEF Injective
<1>5. /\ head = IF n = 0 THEN NULL ELSE l[1]
      /\ \A i \in 1 .. n : next[l[i]] = IF i = n THEN NULL ELSE l[i + 1]
  <2>1. \A i \in 0 .. n : Follows(l, i, head, next) = IF i = n THEN NULL ELSE l[i + 1]
    BY DEF Path
  <2>2. Follows(l, 0, head, next) = head /\ 0 \in 0 .. n /\ 0 + 1 = 1 BY <1>0 DEF Follows
  <2>3. \A i \in 1 .. n : i \in 0 .. n /\ Follows(l, i, head, next) = next[l[i]]
    BY <1>0 DEF Follows
  <2>4. QED BY <2>1, <2>2, <2>3
<1>6. \A u \in Timer : link[u] = IF u = l[k] THEN NULL
                                 ELSE IF k > 1 /\ u = l[k - 1] THEN next[l[k]] ELSE next[u]
  OBVIOUS
<1> HIDE DEF n, m
<1>7. ASSUME NEW i \in 1 .. n - 1 PROVE link[m[i]] = IF i = n - 1 THEN NULL ELSE m[i + 1]
  <2>1. CASE i < k - 1
    <3>1. /\ i \in 1 .. n /\ k - 1 \in 1 .. n /\ k \in 1 .. n /\ i # k - 1 /\ i # k /\ i # n
          /\ i + 1 \in 1 .. n - 1 /\ i < k /\ i + 1 < k /\ i # n - 1
      BY <1>0, <2>1
    <3>2. m[i] = l[i] /\ m[i + 1] = l[i + 1] BY <1>2, <3>1
    <3>3. l[i] \in Timer /\ l[i] # l[k] /\ l[i] # l[k - 1] BY <1>0, <1>4, <3>1
    <3>4. link[l[i]] = next[l[i]] BY <1>6, <3>3
    <3>5. QED BY <1>5, <3>1, <3>2, <3>4
  <2>2. CASE i = k - 1
    <3>1. i \in 1 .. n /\ k \in 1 .. n /\ i # k /\ k > 1 /\ i < k /\ i + 1 = k /\ (i = n - 1 <=> k = n)
      BY <1>0, <2>2
    <3>2. m[i] = l[i] BY <1>2, <3>1
    <3>3. l[i] \in Timer /\ l[i] # l[k] BY <1>0, <1>4, <3>1
    <3>4. link[l[i]] = next[l[k]] BY <1>6, <2>2, <3>1, <3>3
    <3>5. next[l[k]] = IF k = n THEN NULL ELSE l[k + 1] BY <1>5, <3>1
    <3>6. k # n => m[k] = l[k + 1]
      <4>1. k # n => k \in 1 .. n - 1 /\ ~(k < k) BY <1>0
      <4>2. QED BY <1>2, <4>1
    <3>7. QED BY <3>1, <3>2, <3>4, <3>5, <3>6
  <2>3. CASE i >= k
    <3>1. /\ i + 1 \in 1 .. n /\ k \in 1 .. n /\ i + 1 # k /\ ~(i < k) /\ i + 1 # k - 1
          /\ (k > 1 => k - 1 \in 1 .. n) /\ (i + 1 = n <=> i = n - 1)
      BY <1>0, <2>3
    <3>2. m[i] = l[i + 1] BY <1>2, <3>1
    <3>3. l[i + 1] \in Timer /\ l[i + 1] # l[k] BY <1>0, <1>4, <3>1
    <3>4. ~(k > 1 /\ l[i + 1] = l[k - 1]) BY <1>4, <3>1
    <3>5. link[l[i + 1]] = next[l[i + 1]] BY <1>6, <3>3, <3>4
    <3>6. next[l[i + 1]] = IF i + 1 = n THEN NULL ELSE l[(i + 1) + 1] BY <1>5, <3>1
    <3>7. i # n - 1 => m[i + 1] = l[(i + 1) + 1]
      <4>1. i # n - 1 => i + 1 \in 1 .. n - 1 /\ ~(i + 1 < k) BY <1>0, <2>3
      <4>2. QED BY <1>2, <4>1
    <3>8. QED BY <3>1, <3>2, <3>5, <3>6, <3>7
  <2>4. QED BY <1>0, <2>1, <2>2, <2>3
<1>8. first = IF n = 1 THEN NULL ELSE m[1]
  <2>1. CASE k = 1
    <3>1. next[l[1]] = IF 1 = n THEN NULL ELSE l[1 + 1]
      <4>1. 1 \in 1 .. n BY <1>0, <2>1
      <4>2. QED BY <1>5, <4>1
    <3>2. n # 1 => m[1] = l[1 + 1]
      <4>1. n # 1 => 1 \in 1 .. n - 1 /\ ~(1 < k) BY <1>0, <2>1
      <4>2. QED BY <1>2, <4>1
    <3>3. QED BY <2>1, <3>1, <3>2
  <2>2. CASE k # 1
    <3>1. 1 \in 1 .. n - 1 /\ 1 < k /\ n # 0 /\ n # 1 BY <1>0, <2>2
    <3>2. QED BY <1>2, <1>5, <2>2, <3>1
  <2>3. QED BY <2>1, <2>2
<1>9. ASSUME NEW u \in Timer, ~InList(u, m) PROVE link[u] = NULL
  <2>1. u = l[k] \/ ~InList(u, l) BY <1>1, <1>9
  <2>2. CASE u = l[k] BY <1>6, <2>2
  <2>3. CASE u # l[k] /\ ~InList(u, l)
    <3>1. next[u] = NULL BY <2>3 DEF Path
    <3>2. k > 1 => k - 1 \in DOMAIN l BY <1>0 DEF n
    <3>3. ~(k > 1 /\ u = l[k - 1]) BY <2>3, <3>2 DEF InList
    <3>4. QED BY <1>6, <2>3, <3>1, <3>3
  <2>4. QED BY <2>1, <2>2, <2>3
<1>10. \A i \in 0 .. Len(m) : Follows(m, i, first, link) = IF i = Len(m) THEN NULL ELSE m[i + 1]
  <2> SUFFICES ASSUME NEW i \in 0 .. n - 1
               PROVE  Follows(m, i, first, link) = IF i = n - 1 THEN NULL ELSE m[i + 1]
    BY <1>2
  <2>1. CASE i = 0
    <3>1. (i = n - 1 <=> n = 1) /\ i + 1 = 1 BY <1>0, <2>1
    <3>2. QED BY <1>8, <2>1, <3>1 DEF Follows
  <2>2. CASE i # 0
    <3>1. i \in 1 .. n - 1 BY <1>0, <2>2
    <3>2. QED BY <1>7, <2>2, <3>1 DEF Follows
  <2>3. QED BY <2>1, <2>2
<1>11. QED BY <1>1, <1>9, <1>10 DEF Path, m

(* The invariant: the pointers link a list without repetitions, and the    *)
(* events outside it are clean.                                            *)
ListInv == PointersOK /\ \E l : Path(l, timerHead_, next_ep)

(* No event is linked at the start.                                        *)
LEMMA ListInitially ==
  ListInit => ListInv /\ Queue!Init
<1> SUFFICES ASSUME ListInit PROVE ListInv /\ Queue!Init OBVIOUS
<1>1. NULL \notin Timer /\ 0 \in 0 .. MaxStamp BY TimerListConstants
<1>2. PointersOK BY <1>1 DEF ListInit, PointersOK
<1>3. << >> \in Seq(Timer) /\ Len(<< >>) = 0 /\ DOMAIN << >> = {} OBVIOUS
<1>4. Injective(<< >>) BY <1>3 DEF Injective
<1>5. \A i \in 0 .. Len(<< >>) : i = 0 BY <1>3
<1>6. \A i \in 0 .. Len(<< >>) : Follows(<< >>, i, timerHead_, next_ep) = NULL /\ i = Len(<< >>)
  BY <1>3, <1>5 DEF Follows, ListInit
<1>7. \A t \in Timer : next_ep[t] = NULL BY DEF ListInit
<1>8. Path(<< >>, timerHead_, next_ep) BY <1>3, <1>4, <1>6, <1>7 DEF Path
<1>9. Chain = << >> BY <1>8, ChainIs DEF Chain
<1>10. Queue!Init BY <1>9 DEF Queue!Init, ListInit
<1>11. QED BY <1>2, <1>8, <1>10 DEF ListInv

(* What the pointers say of a list they link.                              *)
LEMMA PathPointers ==
  ASSUME NEW l, NEW head, NEW next, Path(l, head, next)
  PROVE  /\ l \in Seq(Timer) /\ Injective(l) /\ Len(l) \in Nat /\ DOMAIN l = 1 .. Len(l)
         /\ \A i \in 1 .. Len(l) : l[i] \in Timer
         /\ head = IF Len(l) = 0 THEN NULL ELSE l[1]
         /\ \A i \in 1 .. Len(l) : next[l[i]] = IF i = Len(l) THEN NULL ELSE l[i + 1]
<1>1. /\ l \in Seq(Timer) /\ Injective(l) /\ Len(l) \in Nat /\ DOMAIN l = 1 .. Len(l)
      /\ \A i \in 1 .. Len(l) : l[i] \in Timer
  BY DEF Path
<1>2. \A i \in 0 .. Len(l) : Follows(l, i, head, next) = IF i = Len(l) THEN NULL ELSE l[i + 1]
  BY DEF Path
<1>3. Follows(l, 0, head, next) = head /\ 0 \in 0 .. Len(l) /\ 0 + 1 = 1 BY <1>1 DEF Follows
<1>4. \A i \in 1 .. Len(l) : i \in 0 .. Len(l) /\ Follows(l, i, head, next) = next[l[i]]
  BY <1>1 DEF Follows
<1>5. QED BY <1>1, <1>2, <1>3, <1>4

(* The place schedule_timer's loop finds is the one the queue links at.    *)
LEMMA PlaceFound ==
  ASSUME PointersOK, NEW l, l = Chain, Path(l, timerHead_, next_ep),
         NEW x \in [Timer -> Nat], NEW s \in Nat,
         \A i \in 1 .. Len(l) : x[l[i]] = timeStamp_[l[i]]
  PROVE  hpos(s) = FirstLater(l, x, s) /\ hpos(s) \in 1 .. Len(l) + 1
<1>1. /\ l \in Seq(Timer) /\ Len(l) \in Nat /\ DOMAIN l = 1 .. Len(l)
      /\ \A i \in 1 .. Len(l) : l[i] \in Timer
  BY PathPointers
<1> DEFINE L == {i \in 1 .. Len(l) : s < x[l[i]]}
<1>2. Later(s) = L BY <1>1 DEF Later
<1>3. PICK f : f = FirstLater(l, x, s) OBVIOUS
<1>4. /\ f \in 1 .. Len(l) + 1
      /\ \A i \in 1 .. f - 1 : x[l[i]] <= s
      /\ f <= Len(l) => s < x[l[f]]
  BY <1>1, <1>3, FirstLaterSpec
<1>5. \A i \in 1 .. Len(l) : x[l[i]] \in Nat BY <1>1
<1>6. \A i \in L : f <= i
  <2> SUFFICES ASSUME NEW i \in L, ~(f <= i) PROVE FALSE OBVIOUS
  <2>1. i \in 1 .. f - 1 BY <1>1, <1>4
  <2>2. x[l[i]] <= s /\ s < x[l[i]] /\ x[l[i]] \in Nat BY <1>4, <1>5, <2>1
  <2>3. QED BY <2>2
<1>7. CASE L = {}
  <2>1. ~(f <= Len(l))
    <3>1. f <= Len(l) => f \in L BY <1>1, <1>4
    <3>2. QED BY <3>1, <1>7
  <2>2. f = Len(l) + 1 BY <1>1, <1>4, <2>1
  <2>3. QED BY <1>1, <1>2, <1>3, <1>4, <1>7, <2>2 DEF hpos
<1>8. CASE L # {}
  <2>1. PICK e \in L : TRUE BY <1>8
  <2>2. f \in L
    <3>1. f <= e /\ e \in 1 .. Len(l) BY <1>6, <2>1
    <3>2. f \in 1 .. Len(l) BY <1>1, <1>4, <3>1
    <3>3. QED BY <1>1, <1>4, <3>2
  <2>3. \A i \in L : (\A j \in L : i <= j) => i = f
    <3> SUFFICES ASSUME NEW i \in L, \A j \in L : i <= j PROVE i = f OBVIOUS
    <3>1. i <= f /\ f <= i /\ i \in Nat /\ f \in Nat BY <1>1, <1>4, <1>6, <2>2
    <3>2. QED BY <3>1
  <2>4. hpos(s) = CHOOSE i \in L : \A j \in L : i <= j BY <1>2, <1>8 DEF hpos
  <2> HIDE DEF L
  <2>5. (CHOOSE i \in L : \A j \in L : i <= j) = f
    BY <1>6, <2>2, <2>3
  <2>6. QED BY <1>3, <1>4, <2>4, <2>5
<1>9. QED BY <1>7, <1>8

(* The chain that module TimerList reads off the pointers is the list.     *)
LEMMA ChainLinked ==
  ASSUME NEW l, Path(l, timerHead_, next_ep)
  PROVE  Chain = l /\ \A t : Linked(t) <=> InList(t, l)
<1>1. Chain = l BY ChainIs DEF Chain
<1>2. QED BY <1>1 DEF Linked, InList

(* schedule_timer keeps the list, and links t where the queue does.        *)
LEMMA SchedulePath ==
  ASSUME PointersOK, NEW l, Path(l, timerHead_, next_ep),
         NEW t \in Timer, NEW s \in 0 .. MaxStamp, schedule_timer(t, s)
  PROVE  Path(Scheduled(l, timeStamp_', t, currentTime_), timerHead_', next_ep')
<1>1. Chain = l /\ ~InList(t, l) BY ChainLinked DEF schedule_timer
<1>2. PICK x : x = timeStamp_' OBVIOUS
<1>3. /\ MaxStamp \in Nat /\ s \in Nat /\ currentTime_ \in Nat /\ NULL \notin Timer
      /\ timeStamp_ \in [Timer -> 0 .. MaxStamp]
      /\ next_ep \in [Timer -> Timer \cup {NULL}]
  BY TimerListConstants DEF PointersOK
<1>4. x = [timeStamp_ EXCEPT ![t] = s] BY <1>2 DEF schedule_timer
<1>5. x \in [Timer -> Nat] /\ x[t] = s BY <1>3, <1>4
<1>6. /\ l \in Seq(Timer) /\ Injective(l) /\ Len(l) \in Nat /\ DOMAIN l = 1 .. Len(l)
      /\ \A i \in 1 .. Len(l) : l[i] \in Timer
      /\ timerHead_ = IF Len(l) = 0 THEN NULL ELSE l[1]
      /\ \A i \in 1 .. Len(l) : next_ep[l[i]] = IF i = Len(l) THEN NULL ELSE l[i + 1]
  BY PathPointers
<1>7. \A i \in 1 .. Len(l) : l[i] # t BY <1>1, <1>6 DEF InList
<1>8. \A i \in 1 .. Len(l) : x[l[i]] = timeStamp_[l[i]] BY <1>3, <1>4, <1>6, <1>7
<1>9. PICK p : p = hpos(s) OBVIOUS
<1>10. p = FirstLater(l, x, s) /\ p \in 1 .. Len(l) + 1
  BY <1>1, <1>3, <1>5, <1>8, <1>9, PlaceFound
<1>11. next_ep[t] = NULL BY <1>1 DEF Path
<1>12. CASE s < currentTime_
  <2>1. Scheduled(l, x, t, currentTime_) = l BY <1>5, <1>12 DEF Scheduled
  <2>2. timerHead_' = timerHead_ /\ next_ep' = next_ep
    <3>1. ~(s >= currentTime_) BY <1>3, <1>12
    <3>2. QED BY <3>1 DEF schedule_timer
  <2>3. QED BY <1>2, <2>1, <2>2
<1>13. CASE s >= currentTime_
  <2>1. ~(s < currentTime_) BY <1>3, <1>13
  <2>2. Scheduled(l, x, t, currentTime_) = InsertAt(l, p, t)
    BY <1>5, <1>10, <2>1 DEF Scheduled
  <2>3. PICK first, link :
          /\ first = IF p = 1 THEN t ELSE timerHead_
          /\ link = [u \in Timer |-> IF u = t THEN (IF p = Len(l) + 1 THEN NULL ELSE l[p])
                                     ELSE IF p > 1 /\ u = l[p - 1] THEN t ELSE next_ep[u]]
    OBVIOUS
  <2>4. Path(InsertAt(l, p, t), first, link) BY <1>1, <1>10, <2>3, InsertPath
  <2>5. \/ timerHead_ = NULL /\ LinkOnly(t)
        \/ timerHead_ # NULL /\ p = 1 /\ LinkHead(t)
        \/ p \in 2 .. Len(l) /\ LinkBefore(t, p)
        \/ timerHead_ # NULL /\ p > Len(l) /\ LinkLast(t)
    BY <1>1, <1>9, <2>1 DEF schedule_timer
  <2>6. timerHead_ = NULL <=> Len(l) = 0
    <3>1. Len(l) # 0 => 1 \in 1 .. Len(l)
      <4>1. PICK n \in Nat : n = Len(l) BY <1>6
      <4>2. n # 0 => 1 \in 1 .. n OBVIOUS
      <4>3. QED BY <4>1, <4>2
    <3>2. Len(l) # 0 => l[1] \in Timer BY <1>6, <3>1
    <3>3. timerHead_ = IF Len(l) = 0 THEN NULL ELSE l[1] BY <1>6
    <3>4. QED BY <1>3, <3>2, <3>3
  <2>n. PICK n \in Nat : n = Len(l) BY <1>6
  <2>p. p \in 1 .. n + 1 /\ (timerHead_ # NULL => n # 0 /\ timerHead_ = l[1])
    <3>1. timerHead_ = IF Len(l) = 0 THEN NULL ELSE l[1] BY <1>6
    <3>2. QED BY <1>10, <2>6, <2>n, <3>1
  <2>7. timerHead_' = first /\ next_ep' = link
    <3>1. CASE timerHead_ = NULL /\ LinkOnly(t)
      <4>1. Len(l) = 0 /\ p = 1 /\ p = Len(l) + 1 /\ ~(p > 1) 
        <5>1. n = 0 BY <2>6, <2>n, <3>1
        <5>2. p = 1 BY <2>p, <5>1
        <5>3. QED BY <2>n, <5>1, <5>2
      <4>2. link = [u \in Timer |-> IF u = t THEN NULL ELSE next_ep[u]] BY <2>3, <4>1
      <4>3. link = next_ep BY <1>3, <1>11, <4>2
      <4>4. QED BY <2>3, <3>1, <4>1, <4>3 DEF LinkOnly
    <3>2. CASE timerHead_ # NULL /\ p = 1 /\ LinkHead(t)
      <4>1. Len(l) # 0 /\ p # Len(l) + 1 /\ ~(p > 1) /\ timerHead_ = l[1] 
        <5>1. n # 0 /\ timerHead_ = l[1] BY <2>p, <3>2
        <5>2. p # n + 1 /\ ~(p > 1) BY <3>2, <5>1
        <5>3. QED BY <2>n, <5>1, <5>2
      <4>2. link = [u \in Timer |-> IF u = t THEN timerHead_ ELSE next_ep[u]] BY <2>3, <3>2, <4>1
      <4>3. next_ep' = [next_ep EXCEPT ![t] = timerHead_] /\ timerHead_' = t BY <3>2 DEF LinkHead
      <4>4. next_ep' = link BY <1>3, <4>2, <4>3
      <4>5. QED BY <2>3, <3>2, <4>3, <4>4
    <3>3. CASE p \in 2 .. Len(l) /\ LinkBefore(t, p)
      <4>1. /\ p # 1 /\ p # Len(l) + 1 /\ p > 1 /\ p - 1 \in 1 .. Len(l) /\ p \in 1 .. Len(l)
        <5>1. p \in 2 .. n BY <2>n, <3>3
        <5>2. /\ p # 1 /\ p # n + 1 /\ p > 1 /\ p - 1 \in 1 .. n /\ p \in 1 .. n BY <5>1
        <5>3. QED BY <2>n, <5>2
      <4>2. l[p - 1] \in Timer /\ l[p - 1] # t /\ l[p] \in Timer BY <1>6, <1>7, <4>1
      <4>3. /\ next_ep' = [next_ep EXCEPT ![t] = l[p], ![l[p - 1]] = t]
            /\ timerHead_' = timerHead_
        BY <1>1, <3>3 DEF LinkBefore
      <4>4. link = [u \in Timer |-> IF u = t THEN l[p]
                                    ELSE IF u = l[p - 1] THEN t ELSE next_ep[u]]
        BY <2>3, <4>1
      <4>5. next_ep' = link BY <1>3, <4>2, <4>3, <4>4
      <4>6. QED BY <2>3, <4>1, <4>3, <4>5
    <3>4. CASE timerHead_ # NULL /\ p > Len(l) /\ LinkLast(t)
      <4>1. /\ Len(l) # 0 /\ p = Len(l) + 1 /\ p # 1 /\ p > 1 /\ p - 1 = Len(l)
            /\ Len(l) \in 1 .. Len(l)
        <5>1. n # 0 /\ p > n BY <2>n, <2>p, <3>4
        <5>2. p = n + 1 /\ p # 1 /\ p > 1 /\ p - 1 = n /\ n \in 1 .. n BY <2>p, <5>1
        <5>3. QED BY <2>n, <5>1, <5>2
      <4>2. l[Len(l)] \in Timer /\ l[Len(l)] # t BY <1>6, <1>7, <4>1
      <4>3. next_ep' = [next_ep EXCEPT ![l[Len(l)]] = t] /\ timerHead_' = timerHead_
        BY <1>1, <3>4 DEF LinkLast
      <4>4. link = [u \in Timer |-> IF u = t THEN NULL
                                    ELSE IF u = l[Len(l)] THEN t ELSE next_ep[u]]
        BY <2>3, <4>1
      <4>5. next_ep' = link BY <1>3, <1>11, <4>2, <4>3, <4>4
      <4>6. QED BY <2>3, <4>1, <4>3, <4>5
    <3>5. QED BY <2>5, <3>1, <3>2, <3>3, <3>4
  <2>8. QED BY <1>2, <2>2, <2>4, <2>7
<1>14. QED BY <1>3, <1>12, <1>13

(* Unlinking a timer that is in the list, as cancel_timer and              *)
(* dequeue_timer do.                                                       *)
LEMMA UnlinkPath ==
  ASSUME PointersOK, NEW l, Path(l, timerHead_, next_ep), NEW k \in 1 .. Len(l),
         \/ /\ k = 1
            /\ timerHead_' = next_ep[l[k]]
            /\ next_ep' = [next_ep EXCEPT ![l[k]] = NULL]
         \/ /\ k # 1
            /\ timerHead_' = timerHead_
            /\ next_ep' = [next_ep EXCEPT ![l[k - 1]] = next_ep[l[k]], ![l[k]] = NULL]
  PROVE  Path(RemoveAt(l, k), timerHead_', next_ep')
<1>1. next_ep \in [Timer -> Timer \cup {NULL}] BY DEF PointersOK
<1>2. /\ Len(l) \in Nat /\ \A i \in 1 .. Len(l) : l[i] \in Timer
  BY PathPointers
<1>3. \A i, j \in 1 .. Len(l) : l[i] = l[j] => i = j BY <1>2, PathPointers DEF Injective
<1>4. PICK first, link :
        /\ first = IF k = 1 THEN next_ep[l[k]] ELSE timerHead_
        /\ link = [u \in Timer |-> IF u = l[k] THEN NULL
                                   ELSE IF k > 1 /\ u = l[k - 1] THEN next_ep[l[k]] ELSE next_ep[u]]
  OBVIOUS
<1>5. Path(RemoveAt(l, k), first, link) BY <1>4, RemovePath
<1>6. l[k] \in Timer BY <1>2
<1>7. timerHead_' = first /\ next_ep' = link
  <2>1. CASE k = 1
    <3>1. ~(k > 1) BY <2>1
    <3>2. link = [u \in Timer |-> IF u = l[k] THEN NULL ELSE next_ep[u]] BY <1>4, <3>1
    <3>3. timerHead_' = next_ep[l[k]] /\ next_ep' = [next_ep EXCEPT ![l[k]] = NULL] BY <2>1
    <3>4. next_ep' = link BY <1>1, <1>6, <3>2, <3>3
    <3>5. QED BY <1>4, <2>1, <3>3, <3>4
  <2>2. CASE k # 1
    <3>1. k > 1 /\ k - 1 \in 1 .. Len(l) /\ k - 1 # k BY <1>2, <2>2
    <3>2. l[k - 1] \in Timer /\ l[k - 1] # l[k] BY <1>2, <1>3, <3>1
    <3>3. link = [u \in Timer |-> IF u = l[k] THEN NULL
                                  ELSE IF u = l[k - 1] THEN next_ep[l[k]] ELSE next_ep[u]]
      BY <1>4, <3>1
    <3>4. /\ timerHead_' = timerHead_
          /\ next_ep' = [next_ep EXCEPT ![l[k - 1]] = next_ep[l[k]], ![l[k]] = NULL]
      BY <2>2
    <3>5. next_ep' = link BY <1>1, <1>6, <3>2, <3>3, <3>4
    <3>6. QED BY <1>4, <2>2, <3>4, <3>5
  <2>3. QED BY <2>1, <2>2
<1>8. QED BY <1>5, <1>7

(* cancel_timer unlinks t where it is linked and changes nothing where it  *)
(* is not.                                                                 *)
LEMMA CancelPath ==
  ASSUME PointersOK, NEW l, Path(l, timerHead_, next_ep), NEW t \in Timer, cancel_timer(t)
  PROVE  Path(Canceled(l, t), timerHead_', next_ep')
<1>1. Chain = l /\ (Linked(t) <=> InList(t, l)) BY ChainLinked
<1>2. CASE ~InList(t, l)
  <2>1. timerHead_' = timerHead_ /\ next_ep' = next_ep BY <1>1, <1>2 DEF cancel_timer
  <2>2. Canceled(l, t) = l BY <1>2 DEF Canceled
  <2>3. QED BY <2>1, <2>2
<1>3. CASE InList(t, l)
  <2>1. /\ l \in Seq(Timer) /\ Injective(l) /\ Len(l) \in Nat /\ DOMAIN l = 1 .. Len(l)
        /\ \A i \in 1 .. Len(l) : l[i] \in Timer
        /\ timerHead_ = IF Len(l) = 0 THEN NULL ELSE l[1]
    BY PathPointers
  <2>2. \A i, j \in 1 .. Len(l) : l[i] = l[j] => i = j BY <2>1 DEF Injective
  <2>3. PICK k : k = CHOOSE i \in DOMAIN l : l[i] = t OBVIOUS
  <2>4. k \in 1 .. Len(l) /\ l[k] = t BY <1>3, <2>1, <2>3 DEF InList
  <2>5. Canceled(l, t) = RemoveAt(l, k) BY <1>3, <2>3 DEF Canceled
  <2>6. l[1] = timerHead_ /\ 1 \in 1 .. Len(l) BY <2>1, <2>4
  <2>7. Unlink(t) BY <1>1, <1>3 DEF cancel_timer
  <2>8. \/ /\ k = 1
           /\ timerHead_' = next_ep[l[k]]
           /\ next_ep' = [next_ep EXCEPT ![l[k]] = NULL]
        \/ /\ k # 1
           /\ timerHead_' = timerHead_
           /\ next_ep' = [next_ep EXCEPT ![l[k - 1]] = next_ep[l[k]], ![l[k]] = NULL]
    <3>1. CASE t = timerHead_ /\ timerHead_' = next_ep[t] /\ next_ep' = [next_ep EXCEPT ![t] = NULL]
      <4>1. k = 1 BY <2>2, <2>4, <2>6, <3>1
      <4>2. QED BY <2>4, <3>1, <4>1
    <3>2. CASE \E i \in 2 .. Len(l) :
                 /\ l[i] = t
                 /\ next_ep' = [next_ep EXCEPT ![l[i - 1]] = next_ep[t], ![t] = NULL]
                 /\ UNCHANGED timerHead_
      <4>1. PICK i \in 2 .. Len(l) :
                 /\ l[i] = t
                 /\ next_ep' = [next_ep EXCEPT ![l[i - 1]] = next_ep[t], ![t] = NULL]
                 /\ UNCHANGED timerHead_
        BY <3>2
      <4>2. i \in 1 .. Len(l) /\ i # 1 BY <2>1
      <4>3. i = k BY <2>2, <2>4, <4>1, <4>2
      <4>4. QED BY <2>4, <4>1, <4>2, <4>3
    <3>3. QED BY <1>1, <2>7, <3>1, <3>2 DEF Unlink
  <2>9. QED BY <2>4, <2>5, <2>8, UnlinkPath
<1>4. QED BY <1>2, <1>3

(* dequeue_timer takes the first timer out.                                *)
LEMMA DequeuePath ==
  ASSUME PointersOK, NEW l, Path(l, timerHead_, next_ep), dequeue_timer
  PROVE  /\ l # << >> /\ timerHead_ = Head(l)
         /\ Path(Tail(l), timerHead_', next_ep')
<1>1. /\ l \in Seq(Timer) /\ Len(l) \in Nat
      /\ timerHead_ = IF Len(l) = 0 THEN NULL ELSE l[1]
  BY PathPointers
<1>2. Len(l) # 0 /\ timerHead_ = l[1] /\ 1 \in 1 .. Len(l) BY <1>1 DEF dequeue_timer
<1>3. l # << >> /\ Head(l) = l[1] /\ Tail(l) = [i \in 1 .. Len(l) - 1 |-> l[i + 1]]
  <2>1. l # << >> BY <1>2
  <2>2. Head(l) = l[1] BY <1>1, <2>1
  <2>3. Tail(l) \in Seq(Timer) /\ Len(Tail(l)) = Len(l) - 1 BY <1>1, <2>1
  <2>4. \A i \in 1 .. Len(l) - 1 : Tail(l)[i] = l[i + 1] BY <1>1, <2>1
  <2>5. \A m \in Seq(Timer) : m = [i \in 1 .. Len(m) |-> m[i]]
    <3>1. TAKE m \in Seq(Timer)
    <3>2. m \in [1 .. Len(m) -> Timer] OBVIOUS
    <3>3. QED BY <3>2
  <2>6. Tail(l) = [i \in 1 .. Len(l) - 1 |-> Tail(l)[i]] BY <2>3, <2>5
  <2>7. QED BY <2>1, <2>2, <2>4, <2>6
<1>4. RemoveAt(l, 1) = Tail(l)
  <2>1. RemoveAt(l, 1) = [i \in 1 .. Len(l) - 1 |-> IF i < 1 THEN l[i] ELSE l[i + 1]] BY DEF RemoveAt
  <2>2. \A i \in 1 .. Len(l) - 1 : ~(i < 1) BY <1>1
  <2>3. QED BY <1>3, <2>1, <2>2
<1>5. timerHead_' = next_ep[l[1]] /\ next_ep' = [next_ep EXCEPT ![l[1]] = NULL]
  BY <1>2 DEF dequeue_timer
<1>6. Path(RemoveAt(l, 1), timerHead_', next_ep') BY <1>2, <1>5, UnlinkPath
<1>7. QED BY <1>2, <1>3, <1>4, <1>6

(* The list after a step, when it is known.                                *)
LEMMA ChainNext ==
  ASSUME NEW m, Path(m, timerHead_', next_ep')
  PROVE  Chain' = m
<1>1. PICK h, nx : h = timerHead_' /\ nx = next_ep' OBVIOUS
<1>2. ChainFrom(h, nx) = m BY <1>1, ChainIs
<1>3. QED BY <1>1, <1>2 DEF Chain

(* The queue's operations on sequences are those of module TimerSeq.       *)
LEMMA QueueOperations ==
  ASSUME NEW l, NEW x, NEW t, NEW clock
  PROVE  /\ Queue!InList(t, l) <=> InList(t, l)
         /\ Queue!Scheduled(l, x, t, clock) = Scheduled(l, x, t, clock)
         /\ Queue!Canceled(l, t) = Canceled(l, t)
<1>1. Queue!InList(t, l) <=> InList(t, l) BY DEF Queue!InList, InList
<1>2. Queue!FirstLater(l, x, x[t]) = FirstLater(l, x, x[t])
  BY DEF Queue!FirstLater, FirstLater
<1>3. \A p : Queue!InsertAt(l, p, t) = InsertAt(l, p, t)
  BY DEF Queue!InsertAt, InsertAt
<1>4. \A k : Queue!RemoveAt(l, k) = RemoveAt(l, k)
  BY DEF Queue!RemoveAt, RemoveAt
<1>5. Queue!Scheduled(l, x, t, clock) = Scheduled(l, x, t, clock)
  BY <1>2, <1>3 DEF Queue!Scheduled, Scheduled
<1>6. Queue!Canceled(l, t) = Canceled(l, t)
  BY <1>1, <1>4 DEF Queue!Canceled, Canceled
<1>7. QED BY <1>1, <1>5, <1>6

(* A linked list stays one, and every step is one of the queue's.          *)
LEMMA ListSteps ==
  ASSUME ListInv, ListNext
  PROVE  ListInv' /\ Queue!Next
<1>1. PICK l : Path(l, timerHead_, next_ep) BY DEF ListInv
<1>2. PointersOK BY DEF ListInv
<1>3. Chain = l BY <1>1, ChainLinked
<1>4. /\ timerHead_ \in Timer \cup {NULL} /\ next_ep \in [Timer -> Timer \cup {NULL}]
      /\ timeStamp_ \in [Timer -> 0 .. MaxStamp] /\ currentTime_ \in 0 .. MaxStamp
  BY <1>2 DEF PointersOK
<1>5. /\ l \in Seq(Timer) /\ \A i \in 1 .. Len(l) : l[i] \in Timer
  BY <1>1, PathPointers
<1>6. ASSUME NEW m, Path(m, timerHead_', next_ep')
      PROVE  /\ timerHead_' \in Timer \cup {NULL} /\ Chain' = m
             /\ \E p : Path(p, timerHead_', next_ep')
  <2>1. PICK h, nx : h = timerHead_' /\ nx = next_ep' OBVIOUS
  <2>2. Path(m, h, nx) BY <1>6, <2>1
  <2>3. Len(m) \in Nat /\ (h = IF Len(m) = 0 THEN NULL ELSE m[1])
        /\ \A i \in 1 .. Len(m) : m[i] \in Timer
    BY <2>2, PathPointers
  <2>4. h \in Timer \cup {NULL} BY <2>3
  <2>5. QED BY <1>6, <2>1, <2>4, ChainNext
<1>7. CASE dequeue_timer
  <2>1. l # << >> /\ timerHead_ = Head(l) /\ Path(Tail(l), timerHead_', next_ep')
    BY <1>1, <1>2, <1>7, DequeuePath
  <2>2. timerHead_ \in Timer BY <1>4, <1>7 DEF dequeue_timer
  <2>3. PICK m : m = Tail(l) OBVIOUS
  <2>4. timerHead_' \in Timer \cup {NULL} /\ Chain' = m /\ \E p : Path(p, timerHead_', next_ep')
    BY <1>6, <2>1, <2>3
  <2>5. next_ep' \in [Timer -> Timer \cup {NULL}]
    BY <1>4, <1>7, <2>2 DEF dequeue_timer
  <2>6. timeStamp_' = timeStamp_ /\ currentTime_' = timeStamp_[timerHead_]
    BY <1>7 DEF dequeue_timer
  <2>7. currentTime_' \in 0 .. MaxStamp BY <1>4, <2>2, <2>6
  <2>8. PointersOK' BY <1>4, <2>4, <2>5, <2>6, <2>7 DEF PointersOK
  <2>9. Queue!Dequeue BY <1>3, <2>1, <2>3, <2>4, <2>6 DEF Queue!Dequeue
  <2>10. QED BY <2>4, <2>8, <2>9 DEF ListInv, Queue!Next
<1>8. ASSUME NEW t \in Timer, cancel_timer(t) PROVE ListInv' /\ Queue!Next
  <2>1. Path(Canceled(l, t), timerHead_', next_ep') BY <1>1, <1>2, <1>8, CancelPath
  <2>2. PICK m : m = Canceled(l, t) OBVIOUS
  <2>3. timerHead_' \in Timer \cup {NULL} /\ Chain' = m /\ \E p : Path(p, timerHead_', next_ep')
    BY <1>6, <2>1, <2>2
  <2>4. next_ep' \in [Timer -> Timer \cup {NULL}]
    <3>1. CASE ~Linked(t) BY <1>4, <1>8, <3>1 DEF cancel_timer
    <3>2. CASE Linked(t)
      <4>1. Unlink(t) BY <1>8, <3>2 DEF cancel_timer
      <4>2. next_ep[t] \in Timer \cup {NULL} BY <1>4
      <4>3. QED BY <1>4, <4>1, <4>2 DEF Unlink
    <3>3. QED BY <3>1, <3>2
  <2>5. timeStamp_' = timeStamp_ /\ currentTime_' = currentTime_ BY <1>8 DEF cancel_timer
  <2>6. PointersOK' BY <1>4, <2>3, <2>4, <2>5 DEF PointersOK
  <2>7. Queue!Cancel(t)
    <3>1. Queue!Canceled(l, t) = Canceled(l, t) BY QueueOperations
    <3>2. Chain' = Queue!Canceled(Chain, t) BY <1>3, <2>2, <2>3, <3>1
    <3>3. QED BY <2>5, <3>2 DEF Queue!Cancel
  <2>8. QED BY <2>3, <2>6, <2>7 DEF ListInv, Queue!Next
<1>9. ASSUME NEW t \in Timer, NEW s \in 0 .. MaxStamp, schedule_timer(t, s)
      PROVE  ListInv' /\ Queue!Next
  <2>1. Path(Scheduled(l, timeStamp_', t, currentTime_), timerHead_', next_ep')
    BY <1>1, <1>2, <1>9, SchedulePath
  <2>2. PICK m : m = Scheduled(l, timeStamp_', t, currentTime_) OBVIOUS
  <2>3. timerHead_' \in Timer \cup {NULL} /\ Chain' = m /\ \E p : Path(p, timerHead_', next_ep')
    BY <1>6, <2>1, <2>2
  <2>4. next_ep' \in [Timer -> Timer \cup {NULL}]
    <3>1. \A p \in 2 .. Len(l) : l[p] \in Timer BY <1>5
    <3>2. \A p \in 2 .. Len(l) : LinkBefore(t, p) => next_ep' \in [Timer -> Timer \cup {NULL}]
      BY <1>3, <1>4, <3>1 DEF LinkBefore
    <3>3. LinkLast(t) \/ LinkHead(t) \/ LinkOnly(t) => next_ep' \in [Timer -> Timer \cup {NULL}]
      BY <1>4 DEF LinkLast, LinkHead, LinkOnly
    <3>4. QED BY <1>3, <1>4, <1>9, <3>2, <3>3 DEF schedule_timer
  <2>5. timeStamp_' = [timeStamp_ EXCEPT ![t] = s] /\ currentTime_' = currentTime_ /\ ~Linked(t)
    BY <1>9 DEF schedule_timer
  <2>6. timeStamp_' \in [Timer -> 0 .. MaxStamp] BY <1>4, <2>5
  <2>7. PointersOK' BY <1>4, <2>3, <2>4, <2>5, <2>6 DEF PointersOK
  <2>8. ~InList(t, Chain) BY <2>5 DEF Linked, InList
  <2>9. Queue!Schedule(t, s)
    <3>1. PICK x : x = timeStamp_' OBVIOUS
    <3>2. /\ Queue!Scheduled(l, x, t, currentTime_) = Scheduled(l, x, t, currentTime_)
          /\ Queue!InList(t, l) <=> InList(t, l)
      BY QueueOperations
    <3>3. Chain' = Queue!Scheduled(Chain, timeStamp_', t, currentTime_)
      BY <1>3, <2>2, <2>3, <3>1, <3>2
    <3>4. ~Queue!InList(t, Chain) BY <1>3, <2>8, <3>2
    <3>5. QED BY <2>5, <3>3, <3>4 DEF Queue!Schedule
  <2>10. QED BY <2>3, <2>7, <2>9 DEF ListInv, Queue!Next
<1>10. QED BY <1>7, <1>8, <1>9 DEF ListNext

(* The pointers link a list at all times.                                  *)
LEMMA ListAlways ==
  ListSpec => []ListInv
<1>1. ListInit => ListInv BY ListInitially
<1>2. ListInv /\ [ListNext]_listVars => ListInv'
  <2>1. ASSUME ListInv, UNCHANGED listVars PROVE ListInv'
    BY <2>1 DEF ListInv, PointersOK, listVars
  <2>2. QED BY <2>1, ListSteps
<1>3. QED BY <1>1, <1>2, PTL DEF ListSpec

(* The head and the next_ep fields refer to events or to nothing, and the  *)
(* clock stays within the expiry times: dequeue_timer and Unlink follow    *)
(* only pointers of linked events.                                         *)
THEOREM PointersTyped ==
  ListSpec => []PointersOK
<1>1. ListInv => PointersOK BY DEF ListInv
<1>2. QED BY <1>1, ListAlways, PTL

(* An event that left the list, fired or cancelled, points nowhere, so     *)
(* schedule_timer may link it at the end without clearing its next_ep.     *)
THEOREM UnlinkedEventsClean ==
  ListSpec => []UnlinkedPointNowhere
<1>1. ListInv => UnlinkedPointNowhere
  <2> SUFFICES ASSUME ListInv PROVE UnlinkedPointNowhere OBVIOUS
  <2>1. PICK l : Path(l, timerHead_, next_ep) BY DEF ListInv
  <2>2. \A t : Linked(t) <=> InList(t, l) BY <2>1, ChainLinked
  <2>3. QED BY <2>1, <2>2 DEF UnlinkedPointNowhere, Path
<1>2. QED BY <1>1, ListAlways, PTL

(* The linked list of schedule_timer, cancel_timer and dequeue_timer       *)
(* implements the ordered queue of timers that module Scheduler uses:      *)
(* every pointer step is one step of the queue under the mapping of list   *)
(* to the chain from timerHead_.                                           *)
THEOREM ListIsQueue ==
  ListSpec => IsQueue
<1>1. ListInit => Queue!Init BY ListInitially
<1>2. ListInv /\ [ListNext]_listVars => [Queue!Next]_(Queue!vars)
  <2>1. ASSUME UNCHANGED listVars PROVE UNCHANGED Queue!vars
    BY <2>1 DEF listVars, Queue!vars, Chain
  <2>2. QED BY <2>1, ListSteps
<1>3. QED BY <1>1, <1>2, ListAlways, PTL DEF ListSpec, IsQueue, Queue!Spec



-----------------------------------------------------------------------------
(* The event heap of module EventHeap, for an array of any size: sifting   *)
(* moves each event along one lineage of slots, keeps every event not      *)
(* earlier than the one above it, and leaves each as often as before.      *)

(* The halves of the numbers of slots.                                     *)
LEMMA Half ==
  ASSUME NEW i \in Nat \ {0}
  PROVE  /\ i \div 2 \in Nat /\ 2 * (i \div 2) <= i /\ i <= 2 * (i \div 2) + 1
         /\ i \div 2 < i
         /\ i > 1 => i \div 2 \in Nat \ {0} /\ i \div 2 \in 1 .. i - 1
OBVIOUS

\* L gives the lineages of the slots up to m.
Above(L, m) == \A i \in 1 .. m : L[i] = IF i = 1 THEN {1} ELSE {i} \cup L[i \div 2]

(* Two tables of lineages agree where both are defined. *)
LEMMA AboveUnique ==
  ASSUME NEW L, NEW M, NEW m \in Nat, Above(L, m), Above(M, m)
  PROVE  \A i \in 1 .. m : L[i] = M[i]
<1> DEFINE D == {i \in 1 .. m : L[i] # M[i]}
<1> SUFFICES ASSUME D # {} PROVE FALSE OBVIOUS
<1>1. D \subseteq Nat OBVIOUS
<1>2. PICK i \in D : \A j \in D : i <= j BY <1>1, LeastNat
<1>3. i \in 1 .. m /\ L[i] # M[i] /\ i \in Nat \ {0} BY <1>2
<1>4. /\ L[i] = IF i = 1 THEN {1} ELSE {i} \cup L[i \div 2]
      /\ M[i] = IF i = 1 THEN {1} ELSE {i} \cup M[i \div 2]
  BY <1>3 DEF Above
<1>5. i # 1 BY <1>3, <1>4
<1>6. i \div 2 \in 1 .. m /\ ~(i <= i \div 2)
  <2>1. i > 1 BY <1>3, <1>5
  <2>2. i \div 2 \in 1 .. i - 1 BY <1>3, <2>1, Half
  <2>3. QED BY <1>3, <2>2
<1>7. i \div 2 \notin D BY <1>2, <1>6
<1>8. L[i \div 2] = M[i \div 2] BY <1>6, <1>7
<1>9. QED BY <1>3, <1>4, <1>5, <1>8

(* There is one for any number of slots.                                   *)
LEMMA AboveExists ==
  ASSUME NEW m \in Nat
  PROVE  \E L : Above(L, m)
<1> DEFINE D == {i \in Nat : ~ \E L : Above(L, i)}
<1> SUFFICES ASSUME D # {} PROVE FALSE OBVIOUS
<1>1. PICK i \in D : \A j \in D : i <= j BY LeastNat
<1>2. i \in Nat /\ ~ \E L : Above(L, i) BY <1>1
<1>3. i # 0
  <2>1. ASSUME i = 0 PROVE FALSE
    <3>1. 1 .. i = {} BY <2>1
    <3>2. Above(<< >>, i) BY <3>1 DEF Above
    <3>3. QED BY <1>2, <3>2
  <2>2. QED BY <2>1
<1>4. i - 1 \in Nat /\ ~(i <= i - 1) BY <1>2, <1>3
<1>5. PICK L : Above(L, i - 1) BY <1>1, <1>4
<1> DEFINE M == [j \in 1 .. i |-> IF j < i THEN L[j]
                                  ELSE IF j = 1 THEN {1} ELSE {j} \cup L[j \div 2]]
<1>6. ASSUME NEW j \in 1 .. i PROVE M[j] = IF j = 1 THEN {1} ELSE {j} \cup M[j \div 2]
  <2>1. j \in Nat \ {0} BY <1>2
  <2>2. j # 1 => j \div 2 \in 1 .. i /\ j \div 2 < i /\ M[j \div 2] = L[j \div 2]
    <3>1. j # 1 => j \div 2 \in 1 .. j - 1 BY <2>1, Half
    <3>2. j # 1 => j \div 2 \in 1 .. i /\ j \div 2 < i BY <1>2, <2>1, <3>1
    <3>3. QED BY <3>2
  <2>3. CASE j < i
    <3>1. j \in 1 .. i - 1 BY <1>2, <2>1, <2>3
    <3>2. L[j] = IF j = 1 THEN {1} ELSE {j} \cup L[j \div 2] BY <1>5, <3>1 DEF Above
    <3>3. M[j] = L[j] BY <2>3
    <3> HIDE DEF M
    <3>4. QED BY <2>2, <3>2, <3>3
  <2>4. CASE ~(j < i)
    <3>1. M[j] = IF j = 1 THEN {1} ELSE {j} \cup L[j \div 2] BY <2>4
    <3> HIDE DEF M
    <3>2. QED BY <2>2, <3>1
  <2>5. QED BY <2>3, <2>4
<1>7. Above(M, i) BY <1>6 DEF Above
<1>8. QED BY <1>2, <1>7

(* The lineage of a slot is the slot and the lineage of its parent. *)
LEMMA LineageStep ==
  ASSUME NEW n \in Nat \ {0}
  PROVE  Lineage[n] = IF n = 1 THEN {1} ELSE {n} \cup Lineage[n \div 2]
<1> DEFINE T(i) == CHOOSE L : Above(L, i)
           F == [i \in Nat \ {0} |-> T(i)[i]]
           R(L) == L = [i \in Nat \ {0} |-> IF i = 1 THEN {1} ELSE {i} \cup L[i \div 2]]
<1>1. \A i \in Nat : Above(T(i), i) BY AboveExists
<1> HIDE DEF T
<1>2. ASSUME NEW i \in Nat \ {0} PROVE F[i] = IF i = 1 THEN {1} ELSE {i} \cup F[i \div 2]
  <2>1. Above(T(i), i) /\ i \in 1 .. i BY <1>1
  <2>2. T(i)[i] = IF i = 1 THEN {1} ELSE {i} \cup T(i)[i \div 2] BY <2>1 DEF Above
  <2>3. ASSUME i # 1 PROVE T(i)[i \div 2] = T(i \div 2)[i \div 2]
    <3>1. PICK h : h = i \div 2 OBVIOUS
    <3>2. h \in Nat \ {0} /\ h \in 1 .. h /\ h \in 1 .. i - 1 BY <2>3, <3>1, Half
    <3>3. Above(T(h), h) BY <1>1, <3>2
    <3>4. Above(T(i), h)
      <4>1. 1 .. h \subseteq 1 .. i BY <3>2
      <4>2. QED BY <2>1, <4>1 DEF Above
    <3>5. T(i)[h] = T(h)[h] BY <3>2, <3>3, <3>4, AboveUnique
    <3>6. QED BY <3>1, <3>5
  <2>4. i # 1 => i \div 2 \in Nat \ {0} BY Half
  <2>5. F[i] = T(i)[i] /\ (i # 1 => F[i \div 2] = T(i \div 2)[i \div 2]) BY <2>4
  <2>6. QED BY <2>2, <2>3, <2>5
<1>3. R(F)
  <2>1. F = [i \in Nat \ {0} |-> F[i]] OBVIOUS
  <2> HIDE DEF F
  <2>2. [i \in Nat \ {0} |-> F[i]] = [i \in Nat \ {0} |-> IF i = 1 THEN {1} ELSE {i} \cup F[i \div 2]]
    BY <1>2
  <2>3. QED BY <2>1, <2>2
<1>4. Lineage = CHOOSE L : R(L) BY DEF Lineage
<1> HIDE DEF F
<1>5. R(Lineage)
  <2>1. \E L : R(L) BY <1>3
  <2>2. R(CHOOSE L : R(L)) BY <2>1
  <2>3. QED BY <1>4, <2>2
<1>6. QED BY <1>5

(* A lineage goes from the slot to the root.                               *)
LEMMA LineageIn ==
  ASSUME NEW n \in Nat \ {0}
  PROVE  Lineage[n] \subseteq 1 .. n /\ n \in Lineage[n] /\ 1 \in Lineage[n]
<1> DEFINE D == {i \in Nat : i # 0 /\ ~(Lineage[i] \subseteq 1 .. i /\ 1 \in Lineage[i])}
<1>1. D = {}
  <2> SUFFICES ASSUME D # {} PROVE FALSE OBVIOUS
  <2>1. PICK i \in D : \A j \in D : i <= j BY LeastNat
  <2>2. i \in Nat \ {0} /\ ~(Lineage[i] \subseteq 1 .. i /\ 1 \in Lineage[i]) BY <2>1
  <2>3. Lineage[i] = IF i = 1 THEN {1} ELSE {i} \cup Lineage[i \div 2] BY <2>2, LineageStep
  <2>4. i # 1
    <3>1. 1 \in 1 .. 1 OBVIOUS
    <3>2. QED BY <2>2, <2>3, <3>1
  <2>5. PICK h : h = i \div 2 OBVIOUS
  <2>6. h \in Nat \ {0} /\ h \in 1 .. i - 1 BY <2>2, <2>4, <2>5, Half
  <2>7. h \notin D BY <2>1, <2>2, <2>6
  <2>8. Lineage[h] \subseteq 1 .. h /\ 1 \in Lineage[h] BY <2>6, <2>7
  <2>9. 1 .. h \subseteq 1 .. i /\ i \in 1 .. i BY <2>2, <2>6
  <2>10. QED BY <2>2, <2>3, <2>4, <2>5, <2>8, <2>9
<1>2. Lineage[n] \subseteq 1 .. n /\ 1 \in Lineage[n] BY <1>1
<1>3. n \in Lineage[n]
  <2>1. Lineage[n] = IF n = 1 THEN {1} ELSE {n} \cup Lineage[n \div 2] BY LineageStep
  <2>2. QED BY <2>1
<1>4. QED BY <1>2, <1>3

(* The parent of a slot of a lineage belongs to it, every slot of it but   *)
(* the lowest has one child in it, and a slot lies above the parents of    *)
(* those below it.                                                         *)
LEMMA LineageLine ==
  ASSUME NEW n \in Nat \ {0}
  PROVE  /\ \A k \in Lineage[n] : k # 1 => k \div 2 \in Lineage[n]
         /\ \A j \in Lineage[n] : j # n => \E k \in Lineage[n] : k # 1 /\ k \div 2 = j
         /\ \A j, k \in Lineage[n] : j < k => j <= k \div 2
<1> DEFINE P(m) == /\ \A k \in Lineage[m] : k # 1 => k \div 2 \in Lineage[m]
                   /\ \A j \in Lineage[m] : j # m => \E k \in Lineage[m] : k # 1 /\ k \div 2 = j
                   /\ \A j, k \in Lineage[m] : j < k => j <= k \div 2
           D == {m \in Nat : m # 0 /\ ~P(m)}
<1>1. D = {}
  <2> SUFFICES ASSUME D # {} PROVE FALSE OBVIOUS
  <2>1. PICK m \in D : \A j \in D : m <= j BY LeastNat
  <2>2. m \in Nat \ {0} /\ ~P(m) BY <2>1
  <2>3. Lineage[m] = IF m = 1 THEN {1} ELSE {m} \cup Lineage[m \div 2] BY <2>2, LineageStep
  <2>4. m # 1
    <3>1. ASSUME m = 1 PROVE P(m)
      <4>1. Lineage[m] = {m} BY <2>3, <3>1
      <4>2. \A j, k \in Lineage[m] : ~(j < k) BY <2>2, <4>1
      <4>3. QED BY <3>1, <4>1, <4>2
    <3>2. QED BY <2>2, <3>1
  <2>5. PICK h : h = m \div 2 OBVIOUS
  <2>6. h \in Nat \ {0} /\ h \in 1 .. m - 1 BY <2>2, <2>4, <2>5, Half
  <2>7. h \notin D BY <2>1, <2>2, <2>6
  <2>8. P(h) BY <2>6, <2>7
  <2>9. Lineage[m] = {m} \cup Lineage[h] BY <2>3, <2>4, <2>5
  <2>10. Lineage[h] \subseteq 1 .. h /\ h \in Lineage[h] BY <2>6, LineageIn
  <2>11. \A k \in Lineage[m] : k # 1 => k \div 2 \in Lineage[m] BY <2>5, <2>8, <2>9, <2>10
  <2>12. ASSUME NEW j \in Lineage[m], j # m PROVE \E k \in Lineage[m] : k # 1 /\ k \div 2 = j
    <3>1. j \in Lineage[h] BY <2>9, <2>12
    <3>2. CASE j = h BY <2>4, <2>5, <2>9, <3>2
    <3>3. CASE j # h
      <4>1. PICK k \in Lineage[h] : k # 1 /\ k \div 2 = j BY <2>8, <3>1, <3>3
      <4>2. QED BY <2>9, <4>1
    <3>4. QED BY <3>2, <3>3
  <2>13. ASSUME NEW j \in Lineage[m], NEW k \in Lineage[m], j < k PROVE j <= k \div 2
    <3>1. j \in 1 .. m /\ k \in 1 .. m BY <2>2, LineageIn
    <3>2. j # m BY <2>2, <2>13, <3>1
    <3>3. j \in Lineage[h] BY <2>9, <3>2
    <3>4. CASE k = m
      <4>1. j \in 1 .. h BY <2>10, <3>3
      <4>2. QED BY <2>5, <2>6, <3>4, <4>1
    <3>5. CASE k # m
      <4>1. k \in Lineage[h] BY <2>9, <3>5
      <4>2. QED BY <2>8, <2>13, <3>3, <4>1
    <3>6. QED BY <3>4, <3>5
  <2>14. QED BY <2>2, <2>11, <2>12, <2>13
<1>2. P(n) BY <1>1
<1>3. QED BY <1>2

\* The slots of S where g keeps f.
Where(g, S, f) == {i \in S : g[i] = f}

(* Entries that are only moved to other slots are counted as before.       *)
LEMMA Moved ==
  ASSUME NEW A, NEW B, IsFiniteSet(A), NEW move \in [A -> B],
         \A a, b \in A : move[a] = move[b] => a = b,
         \A b \in B : \E a \in A : move[a] = b,
         NEW g, NEW h, \A a \in A : g[a] = h[move[a]], NEW f
  PROVE  Cardinality(Where(g, A, f)) = Cardinality(Where(h, B, f))
<1> DEFINE C == {a \in A : g[a] = f}
           E == {b \in B : h[b] = f}
           part == [a \in C |-> move[a]]
<1>1. IsFiniteSet(C) BY FS_Subset
<1>2. part \in [C -> E] OBVIOUS
<1>3. \A a, b \in C : part[a] = part[b] => a = b OBVIOUS
<1>4. \A b \in E : \E a \in C : part[a] = b OBVIOUS
<1>5. DOMAIN part = C OBVIOUS
<1> HIDE DEF part, C, E
<1>6. part \in Bijection(C, E)
  BY <1>2, <1>3, <1>4, <1>5 DEF Bijection, Injection, Surjection, IsInjective
<1>7. ExistsBijection(C, E) BY <1>6 DEF ExistsBijection
<1>8. Cardinality(E) = Cardinality(C) BY <1>1, <1>7, FS_Bijection
<1>9. QED BY <1>8 DEF C, E, Where

\* No event is earlier than the one in its parent slot.
HeapOrder(h) == \A i \in 2 .. Len(h) : h[i \div 2].ts <= h[i].ts

\* How often h holds f.
Tally(h, f) == Cardinality(Where(h, DOMAIN h, f))

(* The tie rules of both loops, as far as the time stamps go.              *)
LEMMA Stamps ==
  /\ \A e \in Event : e.ts \in Nat /\ e.prio \in Nat /\ e.ts \in 0 .. MaxTimeStamp
  /\ \A e, p \in Event : IF StopsBelow(e, p) THEN p.ts <= e.ts ELSE e.ts <= p.ts
  /\ \A e, p \in Event : IF StopsAbove(e, p) THEN e.ts <= p.ts ELSE p.ts <= e.ts
<1>1. \A e \in Event : e.ts \in Nat /\ e.prio \in Nat /\ e.ts \in 0 .. MaxTimeStamp
  <2> SUFFICES ASSUME NEW e \in Event
               PROVE  e.ts \in Nat /\ e.prio \in Nat /\ e.ts \in 0 .. MaxTimeStamp
    OBVIOUS
  <2>1. e.ts \in 0 .. MaxTimeStamp /\ e.prio \in Prio BY DEF Event
  <2>2. Prio \subseteq Nat /\ 0 .. MaxTimeStamp \subseteq Nat BY HeapConstants
  <2>3. QED BY <2>1, <2>2
<1>2. QED BY <1>1 DEF StopsBelow, StopsAbove

(* The loop of insertEvent ends, at the latest at the root.                *)
LEMMA InsertSlotFound ==
  ASSUME NEW h, NEW e, NEW n \in Nat \ {0}, NEW s, s = InsertSlot(h, e, n)
  PROVE  /\ s \in Lineage[n] /\ s \in 1 .. n /\ Stays(h, e, s)
         /\ \A k \in Lineage[n] : k > s => ~Stays(h, e, k)
<1> DEFINE D == {d \in 0 .. n : n - d \in Lineage[n] /\ Stays(h, e, n - d)}
<1>1. Lineage[n] \subseteq 1 .. n /\ 1 \in Lineage[n] BY LineageIn
<1>2. Stays(h, e, 1) BY DEF Stays
<1>3. D # {} /\ D \subseteq Nat
  <2>1. n - 1 \in 0 .. n /\ n - (n - 1) = 1 BY <1>1
  <2>2. n - 1 \in D BY <1>1, <1>2, <2>1
  <2>3. QED BY <2>2
<1>4. PICK d \in D : \A c \in D : d <= c BY <1>3, LeastNat
<1>5. PICK i : i = n - d OBVIOUS
<1>6. i \in Lineage[n] /\ Stays(h, e, i) /\ i \in 1 .. n /\ d \in Nat BY <1>1, <1>3, <1>4, <1>5
<1>7. ASSUME NEW k \in Lineage[n], k > i PROVE ~Stays(h, e, k)
  <2>1. k \in 1 .. n BY <1>1
  <2>2. n - k \in 0 .. n /\ n - (n - k) = k /\ ~(d <= n - k) BY <1>5, <1>6, <1>7, <2>1
  <2>3. n - k \notin D BY <1>4, <2>2
  <2>4. QED BY <2>2, <2>3
<1>8. s = CHOOSE j \in Lineage[n] : /\ Stays(h, e, j)
                                   /\ \A k \in Lineage[n] : k > j => ~Stays(h, e, k)
  BY DEF InsertSlot
<1>9. s \in Lineage[n] /\ Stays(h, e, s) /\ \A k \in Lineage[n] : k > s => ~Stays(h, e, k)
  BY <1>6, <1>7, <1>8
<1>10. QED BY <1>1, <1>9

(* Where SiftUp leaves e and what it moves.                                *)
UpSlots(h, e, n, s, m) ==
  /\ n \in Nat \ {0} /\ Len(h) = n - 1 /\ \A k \in 1 .. n - 1 : h[k] \in Event
  /\ m \in Seq(Event) /\ Len(m) = n /\ DOMAIN m = 1 .. n
  /\ s \in Lineage[n] /\ s \in 1 .. n /\ m[s] = e
  /\ s # 1 => s \div 2 \in 1 .. n - 1 /\ h[s \div 2].ts <= e.ts
  /\ \A k \in 1 .. n : k \in Lineage[n] /\ k > s =>
       /\ k # 1 /\ k \div 2 \in 1 .. n - 1 /\ k \div 2 \in Lineage[n] /\ s <= k \div 2
       /\ m[k] = h[k \div 2] /\ e.ts <= h[k \div 2].ts
  /\ \A k \in 1 .. n : k # s /\ ~(k \in Lineage[n] /\ k > s) =>
       k \in 1 .. n - 1 /\ m[k] = h[k]

(* SiftUp does this.                                                       *)
LEMMA SiftUpSlots ==
  ASSUME NEW h \in Seq(Event), NEW e \in Event,
         NEW n, n = Len(h) + 1, NEW s, s = InsertSlot(h, e, n), NEW m, m = SiftUp(h, e)
  PROVE  UpSlots(h, e, n, s, m)
<1>1. n \in Nat \ {0} /\ Len(h) = n - 1 /\ \A k \in 1 .. n - 1 : h[k] \in Event
  <2>1. Len(h) \in Nat /\ \A k \in 1 .. Len(h) : h[k] \in Event OBVIOUS
  <2>2. PICK c \in Nat : c = Len(h) BY <2>1
  <2>3. n = c + 1 BY <2>2
  <2>4. n \in Nat \ {0} /\ c = n - 1 BY <2>3
  <2>5. QED BY <2>1, <2>2, <2>4
<1>2. /\ s \in Lineage[n] /\ s \in 1 .. n /\ Stays(h, e, s)
      /\ \A k \in Lineage[n] : k > s => ~Stays(h, e, k)
  BY <1>1, InsertSlotFound
<1>3. Lineage[n] \subseteq 1 .. n /\ n \in Lineage[n] BY <1>1, LineageIn
<1>4. m = [k \in 1 .. n |-> CASE k = s                     -> e
                              [] k \in Lineage[n] /\ k > s -> h[k \div 2]
                              [] OTHER                     -> h[k]]
  BY DEF SiftUp
<1>5. \A k \in 1 .. n : m[k] = IF k = s THEN e
                               ELSE IF k \in Lineage[n] /\ k > s THEN h[k \div 2] ELSE h[k]
  BY <1>4
<1>6. \A k \in 1 .. n : k # 1 => k \div 2 \in 1 .. n - 1
  <2> SUFFICES ASSUME NEW k \in 1 .. n, k # 1 PROVE k \div 2 \in 1 .. n - 1 OBVIOUS
  <2>1. k \in Nat \ {0} /\ k > 1 BY <1>1
  <2>2. k \div 2 \in 1 .. k - 1 BY <2>1, Half
  <2>3. QED BY <1>1, <2>1, <2>2
<1>7. ASSUME s # 1 PROVE s \div 2 \in 1 .. n - 1 /\ h[s \div 2].ts <= e.ts
  <2>1. s \div 2 \in 1 .. n - 1 BY <1>2, <1>6, <1>7
  <2>2. StopsBelow(e, h[s \div 2]) BY <1>2, <1>7 DEF Stays
  <2>3. h[s \div 2] \in Event BY <1>1, <2>1
  <2>4. QED BY <2>1, <2>2, <2>3, Stamps
<1>8. ASSUME NEW k \in 1 .. n, k \in Lineage[n], k > s
      PROVE  /\ k # 1 /\ k \div 2 \in 1 .. n - 1 /\ k \div 2 \in Lineage[n] /\ s <= k \div 2
             /\ m[k] = h[k \div 2] /\ e.ts <= h[k \div 2].ts
  <2>1. k # 1 /\ k # s BY <1>1, <1>2, <1>8
  <2>2. k \div 2 \in 1 .. n - 1 BY <1>6, <2>1
  <2>3. k \div 2 \in Lineage[n] /\ s <= k \div 2
    <3>1. s < k BY <1>1, <1>2, <1>8
    <3>2. QED BY <1>1, <1>2, <1>8, <2>1, <3>1, LineageLine
  <2>4. m[k] = h[k \div 2] BY <1>5, <1>8, <2>1
  <2>5. ~StopsBelow(e, h[k \div 2]) BY <1>2, <1>8 DEF Stays
  <2>6. h[k \div 2] \in Event BY <1>1, <2>2
  <2>7. e.ts <= h[k \div 2].ts BY <2>5, <2>6, Stamps
  <2>8. QED BY <2>1, <2>2, <2>3, <2>4, <2>7
<1>9. ASSUME NEW k \in 1 .. n, k # s, ~(k \in Lineage[n] /\ k > s)
      PROVE  k \in 1 .. n - 1 /\ m[k] = h[k]
  <2>1. k # n
    <3>1. n > s \/ n = s BY <1>1, <1>2
    <3>2. QED BY <1>3, <1>9, <3>1
  <2>2. QED BY <1>1, <1>5, <1>9, <2>1
<1>10. ASSUME NEW k \in 1 .. n PROVE m[k] \in Event
  <2>1. CASE k = s BY <1>5, <2>1
  <2>2. CASE k \in Lineage[n] /\ k > s BY <1>1, <1>8, <2>2
  <2>3. CASE k # s /\ ~(k \in Lineage[n] /\ k > s) BY <1>1, <1>9, <2>3
  <2>4. QED BY <2>1, <2>2, <2>3
<1>11. m \in [1 .. n -> Event]
  <2>1. DOMAIN m = 1 .. n /\ m = [k \in 1 .. n |-> m[k]] BY <1>4
  <2>2. QED BY <1>10, <2>1
<1>12. m \in Seq(Event) /\ Len(m) = n /\ DOMAIN m = 1 .. n BY <1>1, <1>11
<1>13. m[s] = e BY <1>2, <1>5
<1>14. QED BY <1>1, <1>2, <1>7, <1>8, <1>9, <1>12, <1>13 DEF UpSlots

(* Climbing while the parent is not earlier keeps the heap in order.       *)
LEMMA SiftUpOrder ==
  ASSUME NEW h \in Seq(Event), NEW e \in Event, HeapOrder(h)
  PROVE  /\ SiftUp(h, e) \in Seq(Event) /\ Len(SiftUp(h, e)) = Len(h) + 1
         /\ HeapOrder(SiftUp(h, e))
<1>1. PICK n, s, m : n = Len(h) + 1 /\ s = InsertSlot(h, e, n) /\ m = SiftUp(h, e) OBVIOUS
<1>0. UpSlots(h, e, n, s, m) BY <1>1, SiftUpSlots
<1>2. /\ n \in Nat \ {0} /\ Len(h) = n - 1 /\ \A k \in 1 .. n - 1 : h[k] \in Event
      /\ m \in Seq(Event) /\ Len(m) = n
      /\ s \in Lineage[n] /\ s \in 1 .. n /\ m[s] = e
      /\ s # 1 => s \div 2 \in 1 .. n - 1 /\ h[s \div 2].ts <= e.ts
  BY <1>0 DEF UpSlots
<1>3. \A k \in 1 .. n : k \in Lineage[n] /\ k > s =>
        /\ k # 1 /\ k \div 2 \in 1 .. n - 1 /\ k \div 2 \in Lineage[n] /\ s <= k \div 2
        /\ m[k] = h[k \div 2] /\ e.ts <= h[k \div 2].ts
  BY <1>0 DEF UpSlots
<1>4. \A k \in 1 .. n : k # s /\ ~(k \in Lineage[n] /\ k > s) => k \in 1 .. n - 1 /\ m[k] = h[k]
  BY <1>0 DEF UpSlots
<1>5. \A i \in 2 .. n - 1 : h[i \div 2].ts <= h[i].ts BY <1>2 DEF HeapOrder
<1>6. e.ts \in Nat /\ \A k \in 1 .. n - 1 : h[k].ts \in Nat BY <1>2, Stamps
\* What is in slot p is not later than what was there.
<1>7. ASSUME NEW p \in 1 .. n - 1 PROVE m[p].ts <= h[p].ts
  <2>0. p \in 1 .. n BY <1>2
  <2>1. CASE p = s
    <3>1. s # n BY <1>2, <2>1
    <3>2. PICK k \in Lineage[n] : k # 1 /\ k \div 2 = s BY <1>2, <3>1, LineageLine
    <3>3. k \in 1 .. n BY <1>2, LineageIn
    <3>4. k > s
      <4>1. k \in Nat \ {0} BY <3>3
      <4>2. k \div 2 < k BY <4>1, Half
      <4>3. QED BY <1>2, <3>2, <3>3, <4>2
    <3>5. e.ts <= h[s].ts BY <1>3, <3>2, <3>3, <3>4
    <3>6. QED BY <1>2, <2>1, <3>5
  <2>2. CASE p \in Lineage[n] /\ p > s
    <3>1. p # 1 /\ m[p] = h[p \div 2] BY <1>3, <2>0, <2>2
    <3>2. p \in 2 .. n - 1 BY <3>1
    <3>3. QED BY <1>5, <3>1, <3>2
  <2>3. CASE p # s /\ ~(p \in Lineage[n] /\ p > s)
    <3>1. m[p] = h[p] BY <1>4, <2>0, <2>3
    <3>2. QED BY <1>6, <3>1
  <2>4. QED BY <2>1, <2>2, <2>3
<1>8. ASSUME NEW i \in 2 .. n PROVE m[i \div 2].ts <= m[i].ts
  <2>0. i \in 1 .. n /\ i # 1 /\ i \in Nat \ {0} /\ i > 1 BY <1>2
  <2>1. i \div 2 \in 1 .. n - 1 /\ i \div 2 < i
    <3>1. i \div 2 \in 1 .. i - 1 BY <2>0, Half
    <3>2. QED BY <1>2, <2>0, <3>1
  <2>2. PICK p \in 1 .. n - 1 : p = i \div 2 BY <2>1
  <2>3. p \in 1 .. n /\ m[p].ts <= h[p].ts /\ h[p].ts \in Nat /\ m[p].ts \in Nat
    <3>1. p \in 1 .. n /\ m[p] \in Event BY <1>2
    <3>2. QED BY <1>6, <1>7, <3>1, Stamps
  <2>4. CASE i = s
    <3>1. m[i] = e /\ h[p].ts <= e.ts BY <1>2, <2>0, <2>2, <2>4
    <3>2. QED BY <1>6, <2>2, <2>3, <3>1
  <2>5. CASE i \in Lineage[n] /\ i > s
    <3>1. m[i] = h[p] BY <1>3, <2>0, <2>2, <2>5
    <3>2. QED BY <2>2, <2>3, <3>1
  <2>6. CASE i # s /\ ~(i \in Lineage[n] /\ i > s)
    <3>1. i \in 1 .. n - 1 /\ m[i] = h[i] BY <1>4, <2>0, <2>6
    <3>2. h[p].ts <= h[i].ts
      <4>1. i \in 2 .. n - 1 BY <2>0, <3>1
      <4>2. QED BY <1>5, <2>2, <4>1
    <3>3. QED BY <1>6, <2>2, <2>3, <3>1, <3>2
  <2>7. QED BY <2>4, <2>5, <2>6
<1>9. HeapOrder(m) BY <1>2, <1>8 DEF HeapOrder
<1>10. QED BY <1>1, <1>2, <1>9

(* It adds e and loses, doubles and invents nothing.                       *)
LEMMA SiftUpTally ==
  ASSUME NEW h \in Seq(Event), NEW e \in Event, NEW f \in Event
  PROVE  /\ Tally(h, f) \in Nat
         /\ Tally(SiftUp(h, e), f) = IF f = e THEN Tally(h, f) + 1 ELSE Tally(h, f)
<1>1. PICK n, s, m : n = Len(h) + 1 /\ s = InsertSlot(h, e, n) /\ m = SiftUp(h, e) OBVIOUS
<1>0. UpSlots(h, e, n, s, m) BY <1>1, SiftUpSlots
<1>2. /\ n \in Nat \ {0} /\ Len(h) = n - 1
      /\ m \in Seq(Event) /\ Len(m) = n /\ DOMAIN m = 1 .. n
      /\ s \in Lineage[n] /\ s \in 1 .. n /\ m[s] = e
  BY <1>0 DEF UpSlots
<1>3. \A k \in 1 .. n : k \in Lineage[n] /\ k > s =>
        /\ k # 1 /\ k \div 2 \in 1 .. n - 1 /\ k \div 2 \in Lineage[n] /\ s <= k \div 2
        /\ m[k] = h[k \div 2]
  BY <1>0 DEF UpSlots
<1>4. \A k \in 1 .. n : k # s /\ ~(k \in Lineage[n] /\ k > s) => k \in 1 .. n - 1 /\ m[k] = h[k]
  BY <1>0 DEF UpSlots
<1> DEFINE A == (1 .. n) \ {s}
           B == 1 .. n - 1
           from(k) == IF k \in Lineage[n] /\ k > s THEN k \div 2 ELSE k
           move == [k \in A |-> from(k)]
<1>5. IsFiniteSet(A) /\ IsFiniteSet(B)
  <2>1. IsFiniteSet(1 .. n) /\ IsFiniteSet(B) BY <1>2, FS_Interval
  <2>2. QED BY <2>1, FS_Subset
<1>6. \A k \in A : from(k) \in B /\ m[k] = h[from(k)] BY <1>3, <1>4
<1>7. Lineage[n] \subseteq 1 .. n /\ n \in Lineage[n] BY <1>2, LineageIn
<1>8. \A j, k \in Lineage[n] : j < k => j <= k \div 2 BY <1>2, LineageLine
<1>9. \A j, k \in A : from(j) = from(k) => j = k
  <2> SUFFICES ASSUME NEW j \in A, NEW k \in A, j < k, from(j) = from(k) PROVE FALSE
    <3>1. \A j, k \in A : j < k => from(j) # from(k) OBVIOUS
    <3> HIDE DEF from
    <3>2. \A j, k \in A : j \in Int /\ k \in Int BY <1>2
    <3>3. \A j, k \in A : j < k \/ k < j \/ j = k BY <3>2
    <3>4. QED BY <3>1, <3>3
  <2>1. j \in Nat \ {0} /\ k \in Nat \ {0} /\ j \in 1 .. n /\ k \in 1 .. n BY <1>2
  <2>2. k \in Lineage[n] /\ k > s /\ from(k) = k \div 2
    <3>1. from(j) <= j BY <2>1, Half
    <3>2. QED BY <2>1, <3>1
  <2>3. CASE j \in Lineage[n] /\ j > s
    <3>1. j <= k \div 2 /\ from(j) = j \div 2 BY <1>8, <2>2, <2>3
    <3>2. j \div 2 < j /\ j \div 2 \in Nat /\ k \div 2 \in Nat BY <2>1, Half
    <3>3. QED BY <2>1, <2>2, <3>1, <3>2
  <2>4. CASE ~(j \in Lineage[n] /\ j > s)
    <3>1. j = k \div 2 BY <2>2, <2>4
    <3>2. j \in Lineage[n] /\ s <= j BY <1>3, <2>1, <2>2, <3>1
    <3>3. QED BY <1>2, <2>1, <2>4, <3>2
  <2>5. QED BY <2>3, <2>4
<1>10. \A b \in B : \E k \in A : from(k) = b
  <2> SUFFICES ASSUME NEW b \in B PROVE \E k \in A : from(k) = b OBVIOUS
  <2>0. b \in 1 .. n /\ b # n BY <1>2
  <2>1. CASE b \in Lineage[n] /\ s <= b
    <3>1. PICK k \in Lineage[n] : k # 1 /\ k \div 2 = b BY <1>2, <2>0, <2>1, LineageLine
    <3>2. k \in Nat \ {0} /\ k \in 1 .. n BY <1>7
    <3>3. k \div 2 < k BY <3>2, Half
    <3>4. k > s BY <1>2, <2>0, <2>1, <3>1, <3>2, <3>3
    <3>5. k \in A /\ from(k) = b BY <1>2, <3>1, <3>2, <3>4
    <3>6. QED BY <3>5
  <2>2. CASE ~(b \in Lineage[n] /\ s <= b)
    <3>1. b # s BY <1>2, <2>2
    <3>2. ~(b \in Lineage[n] /\ b > s) BY <1>2, <2>0, <2>2
    <3>3. b \in A /\ from(b) = b BY <2>0, <3>1, <3>2
    <3>4. QED BY <3>3
  <2>3. QED BY <2>1, <2>2
<1>11. /\ move \in [A -> B] /\ \A k \in A : m[k] = h[move[k]]
       /\ \A j, k \in A : move[j] = move[k] => j = k
       /\ \A b \in B : \E k \in A : move[k] = b
  <2> HIDE DEF from, A, B
  <2>1. \A k \in A : move[k] = from(k) OBVIOUS
  <2>2. move \in [A -> B] BY <1>6
  <2> HIDE DEF move
  <2>3. QED BY <1>6, <1>9, <1>10, <2>1, <2>2
<1> HIDE DEF from, A, B, move
<1> DEFINE C == Where(m, A, f)
<1>12. Cardinality(C) = Cardinality(Where(h, B, f))
  <2>1. IsFiniteSet(A) /\ move \in [A -> B] BY <1>5, <1>11
  <2>2. QED BY <1>11, <2>1, Moved
<1>13. B = DOMAIN h BY <1>2 DEF B
<1>14. IsFiniteSet(C) BY <1>5, FS_Subset DEF Where
<1>15. Tally(h, f) = Cardinality(C) /\ Cardinality(C) \in Nat
  BY <1>12, <1>13, <1>14, FS_CardinalityType DEF Tally
<1>16. s \notin C BY DEF A, Where
<1>17. Where(m, DOMAIN m, f) = IF f = e THEN C \cup {s} ELSE C BY <1>2 DEF A, Where
<1> HIDE DEF C
<1>18. Cardinality(C \cup {s}) = Cardinality(C) + 1 BY <1>14, <1>16, FS_AddElement
<1>19. Tally(m, f) = IF f = e THEN Tally(h, f) + 1 ELSE Tally(h, f)
  BY <1>15, <1>17, <1>18 DEF Tally
<1>20. QED BY <1>1, <1>15, <1>19

(* No pending event is earlier than the root.                              *)
LEMMA RootEarliest ==
  ASSUME NEW h \in Seq(Event), HeapOrder(h)
  PROVE  \A i \in 1 .. Len(h) : h[1].ts <= h[i].ts
<1> DEFINE D == {i \in 1 .. Len(h) : ~(h[1].ts <= h[i].ts)}
<1>1. PICK n \in Nat : n = Len(h) OBVIOUS
<1>2. \A i \in 1 .. n : h[i] \in Event BY <1>1
<1>3. \A i \in 1 .. n : h[i].ts \in Nat BY <1>2, Stamps
<1>4. D = {}
  <2> SUFFICES ASSUME D # {} PROVE FALSE OBVIOUS
  <2>1. D \subseteq Nat BY <1>1
  <2>2. PICK i \in D : \A j \in D : i <= j BY <2>1, LeastNat
  <2>3. i \in 1 .. n /\ ~(h[1].ts <= h[i].ts) BY <1>1, <2>2
  <2>4. 1 \in 1 .. n /\ i \in Nat \ {0} BY <2>3
  <2>5. i > 1
    <3>1. i # 1 BY <1>3, <2>3, <2>4
    <3>2. QED BY <2>4, <3>1
  <2>6. PICK p : p = i \div 2 OBVIOUS
  <2>7. p \in 1 .. i - 1 BY <2>4, <2>5, <2>6, Half
  <2>8. p \in 1 .. n /\ ~(i <= p) /\ i \in 2 .. n BY <2>3, <2>4, <2>5, <2>7
  <2>9. h[1].ts <= h[p].ts BY <1>1, <2>2, <2>8
  <2>10. h[p].ts <= h[i].ts BY <1>1, <2>6, <2>8 DEF HeapOrder
  <2>11. h[1].ts \in Nat /\ h[p].ts \in Nat /\ h[i].ts \in Nat BY <1>3, <2>3, <2>4, <2>8
  <2>12. QED BY <2>3, <2>9, <2>10, <2>11
<1>5. QED BY <1>4

(* The child the hole moves to is the earlier one.                         *)
LEMMA ChildEarlier ==
  ASSUME NEW h, NEW n \in Nat, \A k \in 1 .. n : h[k] \in Event,
         NEW i \in Nat \ {0}, 2 * i <= n, NEW c, c = Child(h, n, i)
  PROVE  /\ c \in 2 .. n /\ c \div 2 = i /\ i < c
         /\ \A k \in 2 .. n : k \div 2 = i => h[c].ts <= h[k].ts
<1>1. PICK j \in Nat : j = 2 * i OBVIOUS
<1>2. c = IF j < n /\ h[j].ts >= h[j + 1].ts THEN j + 1 ELSE j BY <1>1 DEF Child
<1>3. \A k \in 1 .. n : h[k].ts \in Nat BY Stamps
<1>4. j \in 2 .. n /\ j \div 2 = i /\ (j + 1) \div 2 = i /\ i < j BY <1>1
<1>5. c \in 2 .. n /\ c \div 2 = i /\ i < c BY <1>2, <1>4
<1>6. ASSUME NEW k \in 2 .. n, k \div 2 = i PROVE h[c].ts <= h[k].ts
  <2>1. k = j \/ k = j + 1
    <3>1. k \in Nat \ {0} OBVIOUS
    <3>2. 2 * i <= k /\ k <= 2 * i + 1 BY <1>6, <3>1, Half
    <3>3. QED BY <1>1, <3>1, <3>2
  <2>2. k \in 1 .. n /\ j \in 1 .. n /\ c \in 1 .. n BY <1>4, <1>5
  <2>3. h[k].ts \in Nat /\ h[j].ts \in Nat BY <1>3, <2>2
  <2>4. CASE k = j
    <3>1. CASE c = j BY <2>3, <2>4, <3>1
    <3>2. CASE c # j
      <4>1. c = j + 1 /\ h[j].ts >= h[j + 1].ts BY <1>2, <3>2
      <4>2. h[c].ts \in Nat BY <1>3, <2>2
      <4>3. QED BY <2>3, <2>4, <4>1, <4>2
    <3>3. QED BY <3>1, <3>2
  <2>5. CASE k = j + 1
    <3>1. CASE c = j + 1 BY <2>3, <2>5, <3>1
    <3>2. CASE c # j + 1
      <4>1. j < n BY <1>4, <2>5
      <4>2. c = j /\ ~(h[j].ts >= h[j + 1].ts) BY <1>2, <3>2, <4>1
      <4>3. QED BY <2>3, <2>5, <4>2
    <3>3. QED BY <3>1, <3>2
  <2>6. QED BY <2>1, <2>4, <2>5
<1>7. QED BY <1>5, <1>6

(* The hole sinks from the root until it settles.                          *)
LEMMA DequeueSlotFound ==
  ASSUME NEW h, NEW n \in Nat, \A k \in 1 .. n + 1 : h[k] \in Event,
         NEW s, s = DequeueSlot(h, n)
  PROVE  s \in 1 .. n + 1 /\ Sinks(h, n, s) /\ Settles(h, n, s)
<1> DEFINE D == {d \in 0 .. n + 1 : n + 1 - d \in 1 .. n + 1 /\ Sinks(h, n, n + 1 - d)}
<1>1. Sinks(h, n, 1)
  <2>1. Lineage[1] = {1}
    <3>1. 1 \in Nat \ {0} OBVIOUS
    <3>2. QED BY <3>1, LineageStep
  <2>2. QED BY <2>1 DEF Sinks
<1>2. D # {} /\ D \subseteq Nat
  <2>1. n \in 0 .. n + 1 /\ n + 1 - n = 1 /\ 1 \in 1 .. n + 1 OBVIOUS
  <2>2. n \in D BY <1>1, <2>1
  <2>3. QED BY <2>2
<1>3. PICK d \in D : \A c \in D : d <= c BY <1>2, LeastNat
<1>4. PICK i : i = n + 1 - d OBVIOUS
<1>5. i \in 1 .. n + 1 /\ Sinks(h, n, i) /\ d \in Nat BY <1>2, <1>3, <1>4
<1>6. \A k \in 1 .. n + 1 : Sinks(h, n, k) => k <= i
  <2> SUFFICES ASSUME NEW k \in 1 .. n + 1, Sinks(h, n, k) PROVE k <= i OBVIOUS
  <2>1. n + 1 - k \in 0 .. n + 1 /\ n + 1 - (n + 1 - k) = k OBVIOUS
  <2>2. n + 1 - k \in D BY <2>1
  <2>3. d <= n + 1 - k BY <1>3, <2>2
  <2>4. QED BY <1>4, <1>5, <2>3
<1>7. Settles(h, n, i)
  <2> SUFFICES ASSUME ~Settles(h, n, i) PROVE FALSE OBVIOUS
  <2>1. i \in Nat \ {0} /\ 2 * i <= n BY <1>5 DEF Settles
  <2>2. PICK c : c = Child(h, n, i) OBVIOUS
  <2>3. \A k \in 1 .. n : h[k] \in Event OBVIOUS
  <2>4. c \in 2 .. n /\ c \div 2 = i /\ i < c BY <2>1, <2>2, <2>3, ChildEarlier
  <2>5. Lineage[c] = {c} \cup Lineage[i]
    <3>1. c \in Nat \ {0} /\ c # 1 BY <2>4
    <3>2. QED BY <2>4, <3>1, LineageStep
  <2>6. Sinks(h, n, c)
    <3> SUFFICES ASSUME NEW k \in Lineage[c] \ {1}
                 PROVE  ~Settles(h, n, k \div 2) /\ k = Child(h, n, k \div 2)
      BY DEF Sinks
    <3>1. CASE k = c BY <2>2, <2>4, <3>1
    <3>2. CASE k \in Lineage[i] BY <1>5, <3>2 DEF Sinks
    <3>3. QED BY <2>5, <3>1, <3>2
  <2>7. c <= i
    <3>1. c \in 1 .. n + 1 BY <2>4
    <3>2. QED BY <1>6, <2>6, <3>1
  <2>8. QED BY <1>5, <2>4, <2>7
<1>8. QED BY <1>5, <1>7 DEF DequeueSlot

(* Where SiftDown leaves the last event and what it moves.                 *)
DownSlots(h, n, s, m) ==
  /\ n \in Nat /\ Len(h) = n + 1 /\ DOMAIN h = 1 .. n + 1
  /\ \A k \in 1 .. n + 1 : h[k] \in Event
  /\ m \in Seq(Event) /\ Len(m) = n /\ DOMAIN m = 1 .. n
  /\ s \in Nat \ {0} /\ (n # 0 => s \in 1 .. n)
  /\ 2 * s <= n => h[n + 1].ts <= h[Child(h, n, s)].ts
  /\ \A k \in Lineage[s] : k # 1 =>
       /\ k \in 2 .. n /\ k <= s /\ k \div 2 \in Lineage[s] /\ k \div 2 < k /\ k \div 2 # s
       /\ k = Child(h, n, k \div 2) /\ h[k].ts <= h[n + 1].ts
  /\ \A k \in Lineage[s] : k # s =>
       /\ Child(h, n, k) \in Lineage[s] /\ Child(h, n, k) # 1 /\ Child(h, n, k) \div 2 = k
  /\ \A k \in 1 .. n : m[k] = IF k = s THEN h[n + 1]
                              ELSE IF k \in Lineage[s] THEN h[Child(h, n, k)] ELSE h[k]

(* SiftDown does this.                                                     *)
LEMMA SiftDownSlots ==
  ASSUME NEW h \in Seq(Event), h # << >>,
         NEW n, n = Len(h) - 1, NEW s, s = DequeueSlot(h, n), NEW m, m = SiftDown(h)
  PROVE  DownSlots(h, n, s, m)
<1>1. /\ n \in Nat /\ Len(h) = n + 1 /\ DOMAIN h = 1 .. n + 1
      /\ \A k \in 1 .. n + 1 : h[k] \in Event
  <2>1. Len(h) \in Nat /\ DOMAIN h = 1 .. Len(h) /\ \A k \in 1 .. Len(h) : h[k] \in Event OBVIOUS
  <2>2. Len(h) # 0 OBVIOUS
  <2>3. PICK c \in Nat : c = Len(h) BY <2>1
  <2>4. n \in Nat /\ c = n + 1 BY <2>2, <2>3
  <2>5. QED BY <2>1, <2>3, <2>4
<1>2. s \in 1 .. n + 1 /\ Sinks(h, n, s) /\ Settles(h, n, s) BY <1>1, DequeueSlotFound
<1>3. s \in Nat \ {0} BY <1>1, <1>2
<1>4. Lineage[s] \subseteq 1 .. s /\ s \in Lineage[s] BY <1>3, LineageIn
<1>5. \A k \in 1 .. n : h[k] \in Event BY <1>1
<1>6. h[n + 1] \in Event BY <1>1
<1>7. ASSUME NEW k \in Lineage[s], k # 1
      PROVE  /\ k \in 2 .. n /\ k <= s /\ k \div 2 \in Lineage[s] /\ k \div 2 < k /\ k \div 2 # s
             /\ k = Child(h, n, k \div 2) /\ h[k].ts <= h[n + 1].ts
  <2>1. PICK p : p = k \div 2 OBVIOUS
  <2>2. k \in Nat \ {0} /\ k > 1 /\ k <= s BY <1>3, <1>4, <1>7
  <2>3. p \in Nat \ {0} /\ p < k BY <2>1, <2>2, Half
  <2>4. p \in Lineage[s] BY <1>3, <1>7, <2>1, LineageLine
  <2>5. ~Settles(h, n, p) /\ k = Child(h, n, p) BY <1>2, <1>7, <2>1 DEF Sinks
  <2>6. 2 * p <= n /\ ~StopsAbove(h[n + 1], h[k]) BY <1>1, <2>3, <2>5 DEF Settles
  <2>7. k \in 2 .. n BY <1>1, <1>5, <2>3, <2>5, <2>6, ChildEarlier
  <2>8. h[k].ts <= h[n + 1].ts
    <3>1. h[k] \in Event BY <1>1, <1>5, <2>7
    <3>2. QED BY <1>6, <2>6, <3>1, Stamps
  <2>9. p # s BY <1>3, <2>2, <2>3
  <2>10. QED BY <2>1, <2>2, <2>3, <2>4, <2>5, <2>7, <2>8, <2>9
<1>8. ASSUME NEW k \in Lineage[s], k # s
      PROVE  Child(h, n, k) \in Lineage[s] /\ Child(h, n, k) # 1 /\ Child(h, n, k) \div 2 = k
  <2>1. PICK c \in Lineage[s] : c # 1 /\ c \div 2 = k BY <1>3, <1>8, LineageLine
  <2>2. c = Child(h, n, k) BY <1>7, <2>1
  <2>3. QED BY <2>1, <2>2
<1>9. n # 0 => s \in 1 .. n
  <2>1. CASE s = 1 BY <1>1, <2>1
  <2>2. CASE s # 1
    <3>1. s \in 2 .. n BY <1>4, <1>7, <2>2
    <3>2. QED BY <1>1, <3>1
  <2>3. QED BY <2>1, <2>2
<1>10. ASSUME 2 * s <= n PROVE h[n + 1].ts <= h[Child(h, n, s)].ts
  <2>1. PICK c : c = Child(h, n, s) OBVIOUS
  <2>2. c \in 2 .. n BY <1>1, <1>3, <1>5, <1>10, <2>1, ChildEarlier
  <2>3. h[c] \in Event BY <1>1, <1>5, <2>2
  <2>4. StopsAbove(h[n + 1], h[c])
    <3>1. ~(2 * s > n) BY <1>1, <1>3, <1>10
    <3>2. QED BY <1>2, <2>1, <3>1 DEF Settles
  <2>5. QED BY <1>6, <2>1, <2>3, <2>4, Stamps
<1>11. m = [k \in 1 .. n |-> CASE k = s                  -> h[n + 1]
                               [] k \in Lineage[s] \ {s} -> h[Child(h, n, k)]
                               [] OTHER                  -> h[k]]
  BY DEF SiftDown
<1>12. \A k \in 1 .. n : m[k] = IF k = s THEN h[n + 1]
                                ELSE IF k \in Lineage[s] THEN h[Child(h, n, k)] ELSE h[k]
  BY <1>11
<1>13. ASSUME NEW k \in 1 .. n PROVE m[k] \in Event
  <2>1. CASE k = s BY <1>6, <1>12, <2>1
  <2>2. CASE k # s /\ k \in Lineage[s]
    <3>1. PICK c : c = Child(h, n, k) OBVIOUS
    <3>2. c \in Lineage[s] /\ c # 1 BY <1>8, <2>2, <3>1
    <3>3. c \in 2 .. n BY <1>7, <3>2
    <3>4. h[c] \in Event BY <1>1, <1>5, <3>3
    <3>5. QED BY <1>12, <2>2, <3>1, <3>4
  <2>3. CASE k # s /\ k \notin Lineage[s] BY <1>5, <1>12, <2>3
  <2>4. QED BY <2>1, <2>2, <2>3
<1>14. m \in [1 .. n -> Event]
  <2>1. DOMAIN m = 1 .. n /\ m = [k \in 1 .. n |-> m[k]] BY <1>11
  <2>2. QED BY <1>13, <2>1
<1>15. m \in Seq(Event) /\ Len(m) = n /\ DOMAIN m = 1 .. n BY <1>1, <1>14
<1>16. QED BY <1>1, <1>3, <1>7, <1>8, <1>9, <1>10, <1>12, <1>15 DEF DownSlots

(* Sinking below the earlier child keeps the heap in order.                *)
LEMMA SiftDownOrder ==
  ASSUME NEW h \in Seq(Event), h # << >>, HeapOrder(h)
  PROVE  /\ SiftDown(h) \in Seq(Event) /\ Len(SiftDown(h)) = Len(h) - 1
         /\ HeapOrder(SiftDown(h))
<1>1. PICK n, s, m : n = Len(h) - 1 /\ s = DequeueSlot(h, n) /\ m = SiftDown(h) OBVIOUS
<1>0. DownSlots(h, n, s, m) BY <1>1, SiftDownSlots
<1>2. /\ n \in Nat /\ Len(h) = n + 1 /\ \A k \in 1 .. n + 1 : h[k] \in Event
      /\ m \in Seq(Event) /\ Len(m) = n /\ s \in Nat \ {0}
      /\ 2 * s <= n => h[n + 1].ts <= h[Child(h, n, s)].ts
  BY <1>0 DEF DownSlots
<1>3. \A k \in Lineage[s] : k # 1 =>
        /\ k \in 2 .. n /\ k <= s /\ k \div 2 \in Lineage[s] /\ k \div 2 < k /\ k \div 2 # s
        /\ k = Child(h, n, k \div 2) /\ h[k].ts <= h[n + 1].ts
  BY <1>0 DEF DownSlots
<1>4. \A k \in Lineage[s] : k # s =>
        /\ Child(h, n, k) \in Lineage[s] /\ Child(h, n, k) # 1 /\ Child(h, n, k) \div 2 = k
  BY <1>0 DEF DownSlots
<1>5. \A k \in 1 .. n : m[k] = IF k = s THEN h[n + 1]
                               ELSE IF k \in Lineage[s] THEN h[Child(h, n, k)] ELSE h[k]
  BY <1>0 DEF DownSlots
<1>6. \A k \in 1 .. n + 1 : h[k].ts \in Nat BY <1>2, Stamps
<1>7. \A i \in 2 .. n + 1 : h[i \div 2].ts <= h[i].ts BY <1>2 DEF HeapOrder
<1>8. \A k \in 1 .. n : h[k] \in Event BY <1>2
<1>9. s \in Lineage[s] BY <1>2, LineageIn
<1>10. ASSUME NEW i \in 2 .. n PROVE m[i \div 2].ts <= m[i].ts
  <2>1. PICK p : p = i \div 2 OBVIOUS
  <2>2. i \in Nat \ {0} /\ i > 1 /\ i \in 1 .. n /\ i \in 1 .. n + 1 /\ i # 1 /\ n + 1 \in 1 .. n + 1
    BY <1>2
  <2>3. p \in Nat \ {0} /\ p \in 1 .. i - 1 /\ 2 * p <= i BY <2>1, <2>2, Half
  <2>4. p \in 1 .. n /\ p < i /\ 2 * p <= n BY <1>2, <2>2, <2>3
  <2>5. h[i].ts \in Nat /\ h[p].ts \in Nat /\ h[n + 1].ts \in Nat
    <3>1. p \in 1 .. n + 1 BY <1>2, <2>4
    <3>2. QED BY <1>6, <2>2, <3>1
  <2>6. PICK c : c = Child(h, n, p) OBVIOUS
  <2>7. c \in 2 .. n /\ c \div 2 = p /\ h[c].ts <= h[i].ts
    <3>1. /\ c \in 2 .. n /\ c \div 2 = p
          /\ \A k \in 2 .. n : k \div 2 = p => h[c].ts <= h[k].ts
      BY <1>2, <1>8, <2>3, <2>4, <2>6, ChildEarlier
    <3>2. QED BY <2>1, <3>1
  <2>8. c \in 1 .. n + 1 /\ h[c].ts \in Nat
    <3>1. c \in 1 .. n + 1 BY <1>2, <2>7
    <3>2. QED BY <1>6, <3>1
  <2>9. CASE p = s
    <3>1. m[p] = h[n + 1] BY <1>5, <2>4, <2>9
    <3>2. h[n + 1].ts <= h[c].ts BY <1>2, <2>4, <2>6, <2>9
    <3>3. i \notin Lineage[s] BY <1>3, <2>1, <2>2, <2>9
    <3>4. m[i] = h[i] BY <1>5, <1>9, <2>2, <3>3
    <3>5. QED BY <2>1, <2>5, <2>7, <2>8, <3>1, <3>2, <3>4
  <2>10. CASE p # s /\ p \in Lineage[s]
    <3>1. m[p] = h[c] BY <1>5, <2>4, <2>6, <2>10
    <3>2. CASE i # c
      <4>1. i \notin Lineage[s] BY <1>3, <2>1, <2>2, <2>6, <3>2
      <4>2. m[i] = h[i] BY <1>5, <1>9, <2>2, <4>1
      <4>3. QED BY <2>1, <2>7, <3>1, <4>2
    <3>3. CASE i = c
      <4>1. i \in Lineage[s] BY <1>4, <2>6, <2>10, <3>3
      <4>2. CASE i = s
        <5>1. m[i] = h[n + 1] BY <1>5, <2>2, <4>2
        <5>2. h[i].ts <= h[n + 1].ts BY <1>3, <2>2, <4>1
        <5>3. QED BY <2>1, <3>1, <3>3, <5>1, <5>2
      <4>3. CASE i # s
        <5>1. PICK d : d = Child(h, n, i) OBVIOUS
        <5>2. m[i] = h[d] BY <1>5, <2>2, <4>1, <4>3, <5>1
        <5>3. d \in Lineage[s] /\ d # 1 /\ d \div 2 = i BY <1>4, <4>1, <4>3, <5>1
        <5>4. d \in 2 .. n BY <1>3, <5>3
        <5>5. d \in 2 .. n + 1 BY <1>2, <5>4
        <5>6. h[i].ts <= h[d].ts BY <1>7, <5>3, <5>5
        <5>7. QED BY <2>1, <3>1, <3>3, <5>2, <5>6
      <4>4. QED BY <4>2, <4>3
    <3>4. QED BY <3>2, <3>3
  <2>11. CASE p # s /\ p \notin Lineage[s]
    <3>1. i \notin Lineage[s] BY <1>3, <2>1, <2>2, <2>11
    <3>2. m[i] = h[i] /\ m[p] = h[p] BY <1>5, <1>9, <2>2, <2>4, <2>11, <3>1
    <3>3. i \in 2 .. n + 1 BY <1>2
    <3>4. QED BY <1>7, <2>1, <3>2, <3>3
  <2>12. QED BY <2>9, <2>10, <2>11
<1>11. HeapOrder(m) BY <1>2, <1>10 DEF HeapOrder
<1>12. QED BY <1>1, <1>2, <1>11

(* It takes the root out and loses, doubles and invents nothing else.      *)
LEMMA SiftDownTally ==
  ASSUME NEW h \in Seq(Event), h # << >>, NEW f \in Event
  PROVE  /\ Tally(SiftDown(h), f) \in Nat
         /\ Tally(h, f) = IF f = h[1] THEN Tally(SiftDown(h), f) + 1 ELSE Tally(SiftDown(h), f)
<1>1. PICK n, s, m : n = Len(h) - 1 /\ s = DequeueSlot(h, n) /\ m = SiftDown(h) OBVIOUS
<1>0. DownSlots(h, n, s, m) BY <1>1, SiftDownSlots
<1>2. /\ n \in Nat /\ DOMAIN h = 1 .. n + 1 /\ DOMAIN m = 1 .. n
      /\ s \in Nat \ {0} /\ (n # 0 => s \in 1 .. n)
  BY <1>0 DEF DownSlots
<1>3. \A k \in Lineage[s] : k # 1 =>
        /\ k \in 2 .. n /\ k <= s /\ k \div 2 \in Lineage[s] /\ k \div 2 < k /\ k \div 2 # s
        /\ k = Child(h, n, k \div 2)
  BY <1>0 DEF DownSlots
<1>4. \A k \in Lineage[s] : k # s =>
        /\ Child(h, n, k) \in Lineage[s] /\ Child(h, n, k) # 1 /\ Child(h, n, k) \div 2 = k
  BY <1>0 DEF DownSlots
<1>5. \A k \in 1 .. n : m[k] = IF k = s THEN h[n + 1]
                               ELSE IF k \in Lineage[s] THEN h[Child(h, n, k)] ELSE h[k]
  BY <1>0 DEF DownSlots
<1>6. s \in Lineage[s] /\ 1 \in Lineage[s] /\ Lineage[s] \subseteq 1 .. s BY <1>2, LineageIn
<1> DEFINE A == 1 .. n
           B == 2 .. n + 1
           from(k) == IF k = s THEN n + 1 ELSE IF k \in Lineage[s] THEN Child(h, n, k) ELSE k
           move == [k \in A |-> from(k)]
<1>7. IsFiniteSet(A) /\ IsFiniteSet(B) BY <1>2, FS_Interval
<1>8. \A k \in A : m[k] = h[from(k)] BY <1>5
<1>9. ASSUME NEW k \in A
      PROVE  /\ k = s => from(k) = n + 1
             /\ k # s /\ k \in Lineage[s] => from(k) \in Lineage[s] /\ from(k) \in 2 .. n /\ from(k) \div 2 = k
             /\ k # s /\ k \notin Lineage[s] => from(k) = k /\ k \in 2 .. n
  <2>1. k # s /\ k \in Lineage[s] => from(k) \in Lineage[s] /\ from(k) # 1 /\ from(k) \div 2 = k
    BY <1>4
  <2>2. k # s /\ k \in Lineage[s] => from(k) \in 2 .. n BY <1>3, <2>1
  <2>3. k # s /\ k \notin Lineage[s] => from(k) = k /\ k # 1 BY <1>6
  <2>4. QED BY <1>2, <2>1, <2>2, <2>3
<1>10. \A k \in A : from(k) \in B
  <2> SUFFICES ASSUME NEW k \in A PROVE from(k) \in B OBVIOUS
  <2>1. n + 1 \in 2 .. n + 1 /\ \A x \in 2 .. n : x \in 2 .. n + 1 BY <1>2
  <2> HIDE DEF from
  <2>2. QED BY <1>9, <2>1
<1>11. \A j, k \in A : from(j) = from(k) => j = k
  <2> SUFFICES ASSUME NEW j \in A, NEW k \in A, from(j) = from(k) PROVE j = k OBVIOUS
  <2> HIDE DEF from
  <2>1. n + 1 \notin 2 .. n BY <1>2
  <2>2. CASE j = s \/ k = s BY <1>9, <2>1, <2>2
  <2>3. CASE j # s /\ k # s
    <3>1. CASE j \in Lineage[s] /\ k \in Lineage[s] BY <1>9, <2>3, <3>1
    <3>2. CASE j \notin Lineage[s] \/ k \notin Lineage[s] BY <1>9, <2>3, <3>2
    <3>3. QED BY <3>1, <3>2
  <2>4. QED BY <2>2, <2>3
<1>12. \A b \in B : \E k \in A : from(k) = b
  <2> SUFFICES ASSUME NEW b \in B PROVE \E k \in A : from(k) = b OBVIOUS
  <2>1. CASE b = n + 1
    <3>1. n # 0 BY <1>2, <2>1
    <3>2. s \in A BY <1>2, <3>1
    <3>3. QED BY <1>9, <2>1, <3>2
  <2>2. CASE b # n + 1 /\ b \in Lineage[s]
    <3>1. b # 1 BY <1>2
    <3>2. /\ b \in 2 .. n /\ b \div 2 \in Lineage[s] /\ b \div 2 < b /\ b \div 2 # s
          /\ b = Child(h, n, b \div 2)
      BY <1>3, <2>2, <3>1
    <3>3. PICK p : p = b \div 2 OBVIOUS
    <3>4. p \in A
      <4>1. p \in 1 .. s BY <1>6, <3>2, <3>3
      <4>2. QED BY <1>2, <3>2, <3>3, <4>1
    <3>5. from(p) = b BY <3>2, <3>3
    <3>6. QED BY <3>4, <3>5
  <2>3. CASE b # n + 1 /\ b \notin Lineage[s]
    <3>1. b \in A BY <1>2, <2>3
    <3>2. from(b) = b BY <1>6, <2>3
    <3>3. QED BY <3>1, <3>2
  <2>4. QED BY <2>1, <2>2, <2>3
<1>13. /\ move \in [A -> B] /\ \A k \in A : m[k] = h[move[k]]
       /\ \A j, k \in A : move[j] = move[k] => j = k
       /\ \A b \in B : \E k \in A : move[k] = b
  <2> HIDE DEF from, A, B
  <2>1. \A k \in A : move[k] = from(k) OBVIOUS
  <2>2. move \in [A -> B] BY <1>10
  <2> HIDE DEF move
  <2>3. QED BY <1>8, <1>11, <1>12, <2>1, <2>2
<1> HIDE DEF from, A, B, move
<1> DEFINE C == Where(h, B, f)
<1>14. Cardinality(Where(m, A, f)) = Cardinality(C) BY <1>7, <1>13, Moved
<1>15. A = DOMAIN m BY <1>2 DEF A
<1>16. IsFiniteSet(C) BY <1>7, FS_Subset DEF Where
<1>17. Tally(m, f) = Cardinality(C) /\ Cardinality(C) \in Nat
  BY <1>14, <1>15, <1>16, FS_CardinalityType DEF Tally
<1>18. 1 \notin C BY <1>2 DEF B, Where
<1>19. Where(h, DOMAIN h, f) = IF f = h[1] THEN C \cup {1} ELSE C
  <2>1. DOMAIN h = B \cup {1} BY <1>2 DEF B
  <2>2. QED BY <2>1 DEF Where
<1> HIDE DEF C
<1>20. Cardinality(C \cup {1}) = Cardinality(C) + 1 BY <1>16, <1>18, FS_AddElement
<1>21. Tally(h, f) = IF f = h[1] THEN Tally(m, f) + 1 ELSE Tally(m, f)
  BY <1>17, <1>19, <1>20 DEF Tally
<1>22. QED BY <1>1, <1>17, <1>21

(* The events of the array after a sift were there before.                 *)
LEMMA SiftUpFrom ==
  ASSUME NEW h \in Seq(Event), NEW e \in Event, NEW k \in 1 .. Len(SiftUp(h, e))
  PROVE  SiftUp(h, e)[k] = e \/ \E j \in 1 .. Len(h) : SiftUp(h, e)[k] = h[j]
<1>1. PICK n, s, m : n = Len(h) + 1 /\ s = InsertSlot(h, e, n) /\ m = SiftUp(h, e) OBVIOUS
<1>2. UpSlots(h, e, n, s, m) BY <1>1, SiftUpSlots
<1>3. Len(m) = n /\ Len(h) = n - 1 /\ m[s] = e BY <1>2 DEF UpSlots
<1>4. k \in 1 .. n BY <1>1, <1>3
<1>5. \A i \in 1 .. n : i \in Lineage[n] /\ i > s => i \div 2 \in 1 .. n - 1 /\ m[i] = h[i \div 2]
  BY <1>2 DEF UpSlots
<1>6. \A i \in 1 .. n : i # s /\ ~(i \in Lineage[n] /\ i > s) => i \in 1 .. n - 1 /\ m[i] = h[i]
  BY <1>2 DEF UpSlots
<1>7. m[k] = e \/ \E j \in 1 .. n - 1 : m[k] = h[j] BY <1>3, <1>4, <1>5, <1>6
<1>8. QED BY <1>1, <1>3, <1>7

(* Nor does SiftDown bring in anything.                                    *)
LEMMA SiftDownFrom ==
  ASSUME NEW h \in Seq(Event), h # << >>, NEW k \in 1 .. Len(SiftDown(h))
  PROVE  \E j \in 1 .. Len(h) : SiftDown(h)[k] = h[j]
<1>1. PICK n, s, m : n = Len(h) - 1 /\ s = DequeueSlot(h, n) /\ m = SiftDown(h) OBVIOUS
<1>2. DownSlots(h, n, s, m) BY <1>1, SiftDownSlots
<1>3. Len(m) = n /\ Len(h) = n + 1 /\ n \in Nat BY <1>2 DEF DownSlots
<1>4. k \in 1 .. n /\ k \in 1 .. n + 1 /\ n + 1 \in 1 .. n + 1 BY <1>1, <1>3
<1>5. m[k] = IF k = s THEN h[n + 1] ELSE IF k \in Lineage[s] THEN h[Child(h, n, k)] ELSE h[k]
  BY <1>2, <1>4 DEF DownSlots
<1>6. k \in Lineage[s] /\ k # s => Child(h, n, k) \in 1 .. n + 1
  <2>1. k \in Lineage[s] /\ k # s => Child(h, n, k) \in Lineage[s] /\ Child(h, n, k) # 1
    BY <1>2 DEF DownSlots
  <2>2. \A i \in Lineage[s] : i # 1 => i \in 2 .. n BY <1>2 DEF DownSlots
  <2>3. \A i \in 2 .. n : i \in 1 .. n + 1 BY <1>3
  <2>4. QED BY <2>1, <2>2, <2>3
<1>7. \E j \in 1 .. n + 1 : m[k] = h[j]
  <2>1. CASE k = s BY <1>4, <1>5, <2>1
  <2>2. CASE k # s /\ k \in Lineage[s] BY <1>5, <1>6, <2>2
  <2>3. CASE k # s /\ k \notin Lineage[s] BY <1>4, <1>5, <2>3
  <2>4. QED BY <2>1, <2>2, <2>3
<1>8. QED BY <1>1, <1>3, <1>7

(* The invariant: the array is in order and nothing in it was missed.      *)
HeapInv == /\ HeapOK /\ HeapOrder(heap)
           /\ \A i \in 1 .. Len(heap) : curtime <= heap[i].ts

\* The agenda the array stands for.
Pending == [e \in Event |-> Count(e)]

(* The agenda counts what the array holds.                                 *)
LEMMA CountIsTally ==
  ASSUME NEW f
  PROVE  Count(f) = Tally(heap, f) /\ Count(f)' = Tally(heap', f)
BY DEF Count, Tally, Where

(* The array starts empty.                                                 *)
LEMMA HeapInitially == HeapInit => HeapInv /\ Agenda!Init
<1> SUFFICES ASSUME HeapInit PROVE HeapInv /\ Agenda!Init OBVIOUS
<1>1. heap = << >> /\ curtime = 0 /\ status = "run" BY DEF HeapInit
<1>2. heap \in Seq(Event) /\ Len(heap) = 0 /\ DOMAIN heap = {} BY <1>1
<1>3. 1 .. 0 = {} /\ 2 .. 0 = {} OBVIOUS
<1>4. HeapOrder(heap) /\ \A i \in 1 .. Len(heap) : curtime <= heap[i].ts
  BY <1>2, <1>3 DEF HeapOrder
<1>5. 0 \in 0 .. MaxTimeStamp /\ 0 < MaxEvent BY HeapConstants
<1>6. HeapOK BY <1>1, <1>2, <1>5 DEF HeapOK
<1>7. \A e \in Event : Count(e) = 0
  <2>1. \A e \in Event : {i \in DOMAIN heap : heap[i] = e} = {} BY <1>2
  <2>2. QED BY <2>1, FS_EmptySet DEF Count
<1>8. Agenda!Init BY <1>1, <1>7 DEF Agenda!Init
<1>9. QED BY <1>4, <1>6, <1>8 DEF HeapInv

(* An accepted event is one more in the agenda.                            *)
LEMMA AcceptSteps ==
  ASSUME HeapInv, NEW e \in Event, InsertAccepts(e)
  PROVE  HeapInv' /\ Agenda!Insert(e)
<1>1. /\ heap \in Seq(Event) /\ Len(heap) \in Nat /\ HeapOrder(heap)
      /\ curtime \in 0 .. MaxTimeStamp /\ status \in {"run", "exit"}
      /\ \A i \in 1 .. Len(heap) : curtime <= heap[i].ts
  BY DEF HeapInv, HeapOK
<1>2. /\ ~Full /\ e.ts >= curtime /\ heap' = SiftUp(heap, e)
      /\ curtime' = curtime /\ status' = status
  BY DEF InsertAccepts
<1>3. heap' \in Seq(Event) /\ Len(heap') = Len(heap) + 1 /\ HeapOrder(heap')
  BY <1>1, <1>2, SiftUpOrder
<1>4. Len(heap') < MaxEvent
  <2>1. PICK n \in Nat : n = Len(heap) BY <1>1
  <2>2. ~(n >= MaxEvent - 1) BY <1>2, <2>1 DEF Full
  <2>3. n + 1 < MaxEvent BY <2>2, HeapConstants
  <2>4. QED BY <1>3, <2>1, <2>3
<1>5. ASSUME NEW k \in 1 .. Len(heap') PROVE curtime <= heap'[k].ts
  <2>1. heap'[k] = e \/ \E j \in 1 .. Len(heap) : heap'[k] = heap[j] BY <1>1, <1>2, SiftUpFrom
  <2>2. curtime <= e.ts
    <3>1. e.ts \in Nat /\ curtime \in Nat BY <1>1, HeapConstants, Stamps
    <3>2. QED BY <1>2, <3>1
  <2>3. QED BY <1>1, <2>1, <2>2
<1>6. HeapInv' BY <1>1, <1>2, <1>3, <1>4, <1>5 DEF HeapInv, HeapOK
<1>7. \A f \in Event : Count(f)' = IF f = e THEN Count(f) + 1 ELSE Count(f)
  BY <1>1, <1>2, CountIsTally, SiftUpTally
<1>8. Pending' = [Pending EXCEPT ![e] = @ + 1] BY <1>7 DEF Pending
<1>9. QED BY <1>2, <1>6, <1>8 DEF Agenda!Insert, Pending

(* The one taken out is an earliest, and was not missed.                   *)
LEMMA DequeueSteps ==
  ASSUME HeapInv, dequeueEvent
  PROVE  HeapInv' /\ \E e \in Event : Agenda!Dequeue(e)
<1>1. /\ heap \in Seq(Event) /\ Len(heap) \in Nat /\ Len(heap) < MaxEvent /\ HeapOrder(heap)
      /\ curtime \in 0 .. MaxTimeStamp /\ status \in {"run", "exit"}
      /\ \A i \in 1 .. Len(heap) : curtime <= heap[i].ts
  BY DEF HeapInv, HeapOK
<1>2. heap # << >> /\ heap' = SiftDown(heap) BY DEF dequeueEvent
<1>3. 1 \in 1 .. Len(heap) /\ \A i \in 1 .. Len(heap) : heap[i] \in Event BY <1>1, <1>2
<1>4. PICK e \in Event : e = heap[1] BY <1>3
<1>5. e.ts \in 0 .. MaxTimeStamp /\ e.ts \in Nat /\ curtime \in Nat BY <1>1, HeapConstants, Stamps
<1>6. curtime' = e.ts /\ status' = status
  <2>1. curtime <= e.ts BY <1>1, <1>3, <1>4
  <2>2. ~(heap[1].ts < curtime) BY <1>4, <1>5, <2>1
  <2>3. QED BY <1>4, <2>2 DEF dequeueEvent
<1>7. heap' \in Seq(Event) /\ Len(heap') = Len(heap) - 1 /\ HeapOrder(heap')
  BY <1>1, <1>2, SiftDownOrder
<1>8. Len(heap') < MaxEvent
  <2>1. PICK n \in Nat : n = Len(heap) BY <1>1
  <2>2. n - 1 < MaxEvent BY <1>1, <2>1, HeapConstants
  <2>3. QED BY <1>7, <2>1, <2>2
<1>9. \A i \in 1 .. Len(heap) : e.ts <= heap[i].ts BY <1>1, <1>4, RootEarliest
<1>10. ASSUME NEW k \in 1 .. Len(heap') PROVE curtime' <= heap'[k].ts
  <2>1. \E j \in 1 .. Len(heap) : heap'[k] = heap[j] BY <1>1, <1>2, SiftDownFrom
  <2>2. QED BY <1>6, <1>9, <2>1
<1>11. HeapInv' BY <1>1, <1>5, <1>6, <1>7, <1>8, <1>10 DEF HeapInv, HeapOK
<1>12. ASSUME NEW f \in Event
       PROVE  /\ Count(f)' \in Nat /\ Count(f) = IF f = e THEN Count(f)' + 1 ELSE Count(f)'
  <2>1. PICK m : m = heap' OBVIOUS
  <2>2. Tally(m, f) \in Nat /\ Tally(heap, f) = IF f = e THEN Tally(m, f) + 1 ELSE Tally(m, f)
    BY <1>1, <1>2, <1>4, <2>1, SiftDownTally
  <2>3. QED BY <2>1, <2>2, CountIsTally
<1>13. \A f \in Event : Count(f)' = IF f = e THEN Count(f) - 1 ELSE Count(f) BY <1>12
<1>14. Pending' = [Pending EXCEPT ![e] = @ - 1] BY <1>13 DEF Pending
<1>15. Pending[e] > 0
  <2>1. Count(e)' \in Nat /\ Count(e) = Count(e)' + 1 BY <1>12
  <2>2. QED BY <2>1 DEF Pending
<1>16. ASSUME NEW f \in Event, Pending[f] > 0 PROVE e.ts <= f.ts
  <2>1. Count(f) > 0 BY <1>16 DEF Pending
  <2>2. {i \in DOMAIN heap : heap[i] = f} # {}
    <3>1. Cardinality({}) = 0 BY FS_EmptySet
    <3>2. QED BY <2>1, <3>1 DEF Count
  <2>3. PICK i \in 1 .. Len(heap) : heap[i] = f BY <1>1, <2>2
  <2>4. QED BY <1>9, <2>3
<1>17. Agenda!Dequeue(e)
  BY <1>6, <1>14, <1>15, <1>16 DEF Agenda!Dequeue, Agenda!Earliest, Pending
<1>18. QED BY <1>11, <1>17

(* Every step of the heap is a step of the agenda or none; refused events  *)
(* change nothing.                                                         *)
LEMMA HeapSteps ==
  ASSUME HeapInv, HeapNext
  PROVE  HeapInv' /\ [Agenda!Next]_(Agenda!vars)
<1>1. CASE dequeueEvent BY <1>1, DequeueSteps DEF Agenda!Next
<1>2. ASSUME NEW e \in Event, insertEvent(e) PROVE HeapInv' /\ [Agenda!Next]_(Agenda!vars)
  <2>1. CASE InsertAccepts(e) BY <2>1, AcceptSteps DEF Agenda!Next
  <2>2. CASE InsertFails(e) \/ InsertPastEnd(e)
    <3>1. heap' = heap /\ curtime' = curtime /\ status' \in {"run", "exit"}
      BY <2>2 DEF InsertFails, InsertPastEnd, arrayVars, HeapInv, HeapOK
    <3>2. HeapInv' BY <3>1 DEF HeapInv, HeapOK
    <3>3. UNCHANGED Agenda!vars BY <3>1 DEF Agenda!vars, Count
    <3>4. QED BY <3>2, <3>3
  <2>3. QED BY <1>2, <2>1, <2>2 DEF insertEvent
<1>3. QED BY <1>1, <1>2 DEF HeapNext

(* The array is in order at all times.                                     *)
LEMMA HeapAlways == HeapSpec => []HeapInv
<1>1. HeapInit => HeapInv BY HeapInitially
<1>2. HeapInv /\ [HeapNext]_arrayVars => HeapInv'
  <2>1. ASSUME HeapInv, UNCHANGED arrayVars PROVE HeapInv'
    BY <2>1 DEF HeapInv, HeapOK, arrayVars
  <2>2. QED BY <2>1, HeapSteps
<1>3. QED BY <1>1, <1>2, PTL DEF HeapSpec

(* numEvent_ never exceeds the array, which insertEvent checks before it   *)
(* writes, and the array holds events only, wherever the loops move them.  *)
THEOREM HeapTyped == HeapSpec => []HeapOK
<1>1. HeapInv => HeapOK BY DEF HeapInv
<1>2. QED BY <1>1, HeapAlways, PTL

(* The array and its two sifting loops (HeapObject::insertEvent and        *)
(* dequeueEvent) implement the agenda the scheduler relies on, for an      *)
(* array of any size and events in any order: an accepted event is pending *)
(* once more, and the event taken out is one of the earliest, never one    *)
(* the clock has passed, and leaves all the others pending.                *)
THEOREM HeapIsAgenda == HeapSpec => IsAgenda
<1>1. HeapInit => Agenda!Init BY HeapInitially
<1>2. HeapInv /\ [HeapNext]_arrayVars => [Agenda!Next]_(Agenda!vars)
  <2>1. ASSUME UNCHANGED arrayVars PROVE UNCHANGED Agenda!vars
    BY <2>1 DEF arrayVars, Agenda!vars, Count
  <2>2. QED BY <2>1, HeapSteps
<1>3. QED BY <1>1, <1>2, HeapAlways, PTL DEF HeapSpec, IsAgenda, Agenda!Spec

=============================================================================
