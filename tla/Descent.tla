------------------------------- MODULE Descent -------------------------------
(***************************************************************************)
(* The rule by which every liveness proof of this project that has no      *)
(* fixed number of steps ends: a state function that is a natural number   *)
(* while something goes on, and from each value comes to a smaller one,    *)
(* brings it to its end. rank and busy are functions of what may go on: a  *)
(* component instantiates them with its state functions.                   *)
(*                                                                         *)
(* The induction is over the bound n of the rank, and what holds for all n *)
(* is a temporal formula, so the library's induction theorems cannot be    *)
(* used. Ends(n) is made the elements of a set, and it is the set that has *)
(* a least missing number.                                                 *)
(***************************************************************************)
EXTENDS Naturals, WellFoundedInduction, TLAPS

VARIABLES rank, busy

\* While c is busy its rank is a number, and it does not stay what it is.
Ranked(c) == [](busy[c] => rank[c] \in Nat)
Falls(c, n) == [](busy[c] /\ rank[c] = n => <>(~busy[c] \/ rank[c] < n))
Descends(c) == Ranked(c) /\ \A n \in Nat : Falls(c, n)

\* The rule's premise and its conclusion.
Descending(c) == []Descends(c)
Rests(c) == busy[c] ~> ~busy[c]

\* What is to be shown for every n.
Ends(c, n) == [](busy[c] /\ rank[c] < n => <>~busy[c])

-----------------------------------------------------------------------------
(* Induction for a set of numbers, and from it for Ends.                   *)

LEMMA SetInduction ==
    ASSUME NEW S, 0 \in S, \A n \in Nat : n \in S => n + 1 \in S
    PROVE  \A n \in Nat : n \in S
<1> DEFINE T == Nat \ S
<1>1. SUFFICES ASSUME T # {} PROVE FALSE
  OBVIOUS
<1>2. PICK x \in T : \A y \in T : ~ (<<y, x>> \in OpToRel(<, Nat))
  BY <1>1, NatLessThanWellFounded, WFMin, Zenon
<1>3. x \in Nat /\ x # 0 /\ x \notin S
  OBVIOUS
<1>4. x - 1 \in Nat /\ (x - 1) + 1 = x /\ x - 1 < x
  BY <1>3
<1>5. x - 1 \in T
  BY <1>3, <1>4
<1>6. <<x - 1, x>> \in OpToRel(<, Nat)
  BY <1>3, <1>4 DEF OpToRel
<1>7. QED
  BY <1>2, <1>5, <1>6

\* Holds of everything. It lets a temporal function be named in a fact: as a witness, or
\* beside an equality, the language does not admit it.
IsValue(x) == x \/ ~x

\* In every behavior the numbers n with Ends(c, n) are what they are: a function, hence a
\* set, has them.
LEMMA EndsAsFunction ==
    ASSUME NEW c
    PROVE  \E f : \A n \in Nat : f[n] <=> Ends(c, n)
<1>1. IsValue([n \in Nat |-> Ends(c, n)])
  BY Zenon DEF IsValue
<1>2. \A f : IsValue(f) => ((\A n \in Nat : f[n] <=> Ends(c, n)) =>
                              \E g : \A n \in Nat : g[n] <=> Ends(c, n))
  BY Zenon
<1>3. QED
  BY <1>1, <1>2, Zenon

LEMMA EndsAsSet ==
    ASSUME NEW c
    PROVE  \E S : \A n \in Nat : n \in S <=> Ends(c, n)
<1>1. PICK f : \A n \in Nat : f[n] <=> Ends(c, n)
  BY EndsAsFunction
<1>2. \A n \in Nat : n \in {k \in Nat : f[k]} <=> Ends(c, n)
  BY <1>1
<1>3. QED
  BY <1>2

LEMMA EndsInduction ==
    ASSUME NEW c
    PROVE  Ends(c, 0) /\ (\A n \in Nat : Ends(c, n) => Ends(c, n + 1))
             => \A n \in Nat : Ends(c, n)
<1> SUFFICES ASSUME Ends(c, 0), \A n \in Nat : Ends(c, n) => Ends(c, n + 1)
             PROVE  \A n \in Nat : Ends(c, n)
  OBVIOUS
<1>1. PICK S : \A n \in Nat : n \in S <=> Ends(c, n)
  BY EndsAsSet
<1>2. \A n \in Nat : n \in S
  BY <1>1, SetInduction
<1>3. QED
  BY <1>1, <1>2

-----------------------------------------------------------------------------
(* The rule.                                                               *)

LEMMA EndsAtOnce ==
    ASSUME NEW c
    PROVE  Ranked(c) => Ends(c, 0)
<1>1. (busy[c] => rank[c] \in Nat) => ~(busy[c] /\ rank[c] < 0)
  OBVIOUS
<1>2. QED
  BY <1>1, PTL DEF Ranked, Ends

LEMMA EndsLater ==
    ASSUME NEW c, NEW n \in Nat
    PROVE  Ranked(c) /\ Falls(c, n) => (Ends(c, n) => Ends(c, n + 1))
<1>1. (busy[c] => rank[c] \in Nat) =>
        (busy[c] /\ rank[c] < n + 1
           => (busy[c] /\ rank[c] < n) \/ (busy[c] /\ rank[c] = n))
  OBVIOUS
<1>2. QED
  BY <1>1, PTL DEF Ranked, Ends, Falls

LEMMA EndsNow ==
    ASSUME NEW c
    PROVE  Descends(c) => (busy[c] => <>~busy[c])
<1> SUFFICES ASSUME Ranked(c), \A n \in Nat : Falls(c, n), busy[c] PROVE <>~busy[c]
  BY DEF Descends
<1>1. Ranked(c) => (busy[c] => rank[c] \in Nat)
  BY PTL DEF Ranked
<1>2. PICK n \in Nat : rank[c] < n
  <2>1. rank[c] \in Nat => rank[c] + 1 \in Nat /\ rank[c] < rank[c] + 1
    OBVIOUS
  <2>2. QED
    BY <1>1, <2>1
<1>3. \A k \in Nat : Ends(c, k)
  BY EndsAtOnce, EndsLater, EndsInduction
<1>4. Ends(c, n) => (busy[c] /\ rank[c] < n => <>~busy[c])
  BY PTL DEF Ends
<1>5. QED
  BY <1>2, <1>3, <1>4

\* Where the rank always falls, whatever is busy comes to its end: the last step of the
\* liveness proofs about the launcher's restart, logins, hotplug events, windows and calls.
THEOREM Descent ==
    ASSUME NEW c
    PROVE  Descending(c) => Rests(c)
<1>1. Descends(c) => (busy[c] => <>~busy[c])
  BY EndsNow
<1>2. QED
  BY <1>1, PTL DEF Descending, Rests

=============================================================================
