----------------------- MODULE FinishSubscriptionsProofs -----------------------
(***************************************************************************)
(* What FinishSubscriptions, and AgentMessages below it, promise for every *)
(* number of messages, registrations, failures and restarts.               *)
(*                                                                         *)
(* The messages first: they reach the agent in the order of their          *)
(* admission, each once, and a wait that ends covers everything admitted   *)
(* before it.  Then the subscriptions: what a caller was promised stays on *)
(* disk until its dispatch acknowledged the notice, and a watch reports a  *)
(* finish once.                                                            *)
(***************************************************************************)
EXTENDS FinishSubscriptions, SequenceTheorems, FiniteSetTheorems, WellFoundedInduction, TLAPS

Message == [from : Nat, what : {"message", "permission", "finish", "lost"},
            turn : {"steer", "interrupt"}, mode : Modes \cup {NoMode}]

Rising(s) == \A i, j \in DOMAIN s : i < j => s[i] < s[j]
Precedes(s, t) == \A x \in Range(s), y \in Range(t) : x < y

InGroups(gs) == UNION {Range(gs[k]) : k \in DOMAIN gs}
OnWay == Range(window) \cup InGroups(groups)

\* Admission order runs through what was handed over, the groups and the window.
AdmissionInv ==
  /\ Rising(handed) /\ Rising(window)
  /\ Precedes(handed, window)
  /\ \A k \in DOMAIN groups :
       Rising(groups[k]) /\ Precedes(handed, groups[k]) /\ Precedes(groups[k], window)
  /\ \A j, k \in DOMAIN groups : j < k => Precedes(groups[j], groups[k])

\* Every message is somewhere, and a refused one nowhere else.
PlaceInv ==
  /\ refused \cap (Range(handed) \cup OnWay) = {}
  /\ DOMAIN admitted \subseteq Settled \cup OnWay

\* What a wait is to cover was settled, is waited for, or goes out before something waited for.
WaitInv ==
  /\ waiter.upto <= Len(admitted)
  /\ waiter.on => \A x \in 1..waiter.upto :
                    x \in Settled \cup waiter.for \/ \E y \in waiter.for : x < y
  /\ WaitCovers

MessagesInv == MessagesTypeOK /\ AdmissionInv /\ PlaceInv /\ WaitInv
-----------------------------------------------------------------------------
(* Sequences *)

LEMMA InSomeGroup == \A gs, x : x \in InGroups(gs) <=> \E k \in DOMAIN gs : x \in Range(gs[k])
BY DEF InGroups

LEMMA AppendRange ==
  ASSUME NEW S, NEW s \in Seq(S), NEW e \in S
  PROVE  Range(Append(s, e)) = Range(s) \cup {e}
<1>1. /\ Len(Append(s, e)) = Len(s) + 1 /\ Append(s, e)[Len(s) + 1] = e
      /\ \A i \in 1..Len(s) : Append(s, e)[i] = s[i]
  BY AppendProperties
<1>2. DOMAIN Append(s, e) = 1..(Len(s) + 1) /\ DOMAIN s = 1..Len(s)
  BY <1>1
<1>3. \A x \in Range(Append(s, e)) : x \in Range(s) \cup {e}
  BY <1>1, <1>2 DEF Range
<1>4. \A x \in Range(s) \cup {e} : x \in Range(Append(s, e))
  BY <1>1, <1>2 DEF Range
<1> QED BY <1>3, <1>4

LEMMA ConcatRange ==
  ASSUME NEW S, NEW s \in Seq(S), NEW t \in Seq(S)
  PROVE  Range(s \o t) = Range(s) \cup Range(t)
<1>1. /\ Len(s \o t) = Len(s) + Len(t)
      /\ \A i \in 1..(Len(s) + Len(t)) : (s \o t)[i] = IF i <= Len(s) THEN s[i] ELSE t[i - Len(s)]
  BY ConcatProperties
<1>2. DOMAIN (s \o t) = 1..(Len(s) + Len(t)) /\ DOMAIN s = 1..Len(s) /\ DOMAIN t = 1..Len(t)
  BY <1>1
<1>3. \A x \in Range(s \o t) : x \in Range(s) \cup Range(t)
  <2>1. TAKE x \in Range(s \o t)
  <2>2. PICK i \in 1..(Len(s) + Len(t)) : (s \o t)[i] = x
    BY <1>2, <2>1 DEF Range
  <2>3. CASE i <= Len(s)
    BY <1>1, <1>2, <2>2, <2>3 DEF Range
  <2>4. CASE i > Len(s)
    <3>1. i - Len(s) \in 1..Len(t) /\ x = t[i - Len(s)]
      BY <1>1, <2>2, <2>4
    <3> QED BY <1>2, <3>1 DEF Range
  <2> QED BY <2>2, <2>3, <2>4
<1>4. \A i \in 1..Len(s) : s[i] \in Range(s \o t)
  BY <1>1, <1>2 DEF Range
<1>5. \A i \in 1..Len(t) : t[i] \in Range(s \o t)
  <2>1. TAKE i \in 1..Len(t)
  <2>2. Len(s) + i \in 1..(Len(s) + Len(t)) /\ (s \o t)[Len(s) + i] = t[i]
    BY <1>1, <2>1
  <2> QED BY <1>2, <2>2 DEF Range
<1> QED BY <1>2, <1>3, <1>4, <1>5 DEF Range

LEMMA SliceRange ==
  ASSUME NEW S, NEW s \in Seq(S), NEW a \in 1..(Len(s) + 1), NEW b \in a..Len(s)
  PROVE  /\ SubSeq(s, a, b) \in Seq(S)
         /\ Len(SubSeq(s, a, b)) = b - a + 1
         /\ \A i \in 1..(b - a + 1) : SubSeq(s, a, b)[i] = s[a + i - 1]
BY SubSeqProperties

LEMMA CutPosition ==
  \A a, b, i \in Nat : a <= i /\ i < b => i - a + 1 \in 1..(b - a) /\ a + (i - a + 1) - 1 = i
OBVIOUS

LEMMA CutPositions ==
  ASSUME NEW l \in Nat, NEW a \in 1..l, NEW b \in 1..(l + 1), NEW c \in 1..l, NEW d \in 1..(l + 1),
         b <= c, NEW i \in 1..(b - a), NEW j \in 1..(d - c)
  PROVE  a + i - 1 \in 1..l /\ c + j - 1 \in 1..l /\ a + i - 1 < c + j - 1
OBVIOUS

\* Every position lies in one of the parts that the cuts make.
LEMMA CutsCover ==
  ASSUME NEW n \in Nat \ {0}, NEW l \in Nat, NEW c \in [1..(n + 1) -> 1..(l + 1)],
         c[1] = 1, c[n + 1] = l + 1, NEW i \in 1..l
  PROVE  \E k \in 1..n : c[k] <= i /\ i < c[k + 1]
<1> DEFINE T == {k \in 1..(n + 1) : i < c[k]}
<1>1. T \subseteq Nat /\ T # {}
  <2>1. n + 1 \in T
    OBVIOUS
  <2> QED BY <2>1
<1>2. PICK m \in T : \A y \in T : ~(<<y, m>> \in OpToRel(<, Nat))
  BY <1>1, NatLessThanWellFounded, WFMin
<1>3. \A y \in T : ~(y < m)
  BY <1>1, <1>2 DEF OpToRel
<1>4. m \in 1..(n + 1) /\ i < c[m] /\ m # 1
  OBVIOUS
<1>5. m - 1 \in 1..n /\ m - 1 \in 1..(n + 1) /\ m - 1 < m
  BY <1>4
<1>6. ~(i < c[m - 1])
  BY <1>3, <1>5
<1>7. c[m - 1] <= i /\ i < c[(m - 1) + 1]
  BY <1>4, <1>5, <1>6
<1> QED BY <1>5, <1>7

\* gs are the n slices of ms between the cuts c.
Slices(gs, ms, n, c) ==
  /\ c \in [1..(n + 1) -> 1..(Len(ms) + 1)]
  /\ c[1] = 1 /\ c[n + 1] = Len(ms) + 1
  /\ \A i, j \in 1..(n + 1) : i < j => c[i] < c[j]
  /\ gs = [j \in 1..n |-> SubSeq(ms, c[j], c[j + 1] - 1)]

\* The groups of a flush are slices of the window, one after the other.
LEMMA SplitsSlice ==
  ASSUME NEW ms, Len(ms) \in Nat, NEW gs \in Splits(ms)
  PROVE  \E n \in Nat \ {0} : \E c : Slices(gs, ms, n, c)
<1> DEFINE Cuts(n) == {c \in [1..(n + 1) -> 1..(Len(ms) + 1)] :
                          /\ c[1] = 1 /\ c[n + 1] = Len(ms) + 1
                          /\ \A i, j \in 1..(n + 1) : i < j => c[i] < c[j]}
           Parts(n, c) == [j \in 1..n |-> SubSeq(ms, c[j], c[j + 1] - 1)]
<1>1. gs \in UNION {{Parts(n, c) : c \in Cuts(n)} : n \in 1..Len(ms)}
  BY Zenon DEF Splits
<1>2. \E n \in 1..Len(ms) : gs \in {Parts(n, c) : c \in Cuts(n)}
  <2> HIDE DEF Parts, Cuts
  <2> QED BY <1>1
<1>3. PICK n \in 1..Len(ms) : \E c \in Cuts(n) : gs = Parts(n, c)
  <2> HIDE DEF Parts, Cuts
  <2> QED BY <1>2
<1>4. PICK c \in Cuts(n) : gs = Parts(n, c)
  BY <1>3
<1>5. Slices(gs, ms, n, c)
  BY <1>4, Zenon DEF Slices
<1>6. n \in Nat \ {0}
  OBVIOUS
<1> QED BY <1>5, <1>6

LEMMA SplitsParts ==
  ASSUME NEW D, NEW ms \in Seq(D), NEW gs \in Splits(ms)
  PROVE  /\ gs \in Seq(Seq(D) \ {<<>>})
         /\ InGroups(gs) = Range(ms)
         /\ D \subseteq Nat /\ Rising(ms) =>
              /\ \A k \in DOMAIN gs : Rising(gs[k])
              /\ \A j, k \in DOMAIN gs : j < k => Precedes(gs[j], gs[k])
<1>0. PICK n \in Nat \ {0} : \E c : Slices(gs, ms, n, c)
  <2>1. Len(ms) \in Nat
    OBVIOUS
  <2> QED BY <2>1, SplitsSlice
<1>01. PICK c : Slices(gs, ms, n, c)
  BY <1>0
<1>1. /\ c \in [1..(n + 1) -> 1..(Len(ms) + 1)]
      /\ c[1] = 1 /\ c[n + 1] = Len(ms) + 1
      /\ \A i, j \in 1..(n + 1) : i < j => c[i] < c[j]
      /\ gs = [j \in 1..n |-> SubSeq(ms, c[j], c[j + 1] - 1)]
  BY <1>01 DEF Slices
<1>2. Len(ms) \in Nat /\ DOMAIN ms = 1..Len(ms)
  OBVIOUS
<1>3. \A k \in 1..n : /\ k \in 1..(n + 1) /\ k + 1 \in 1..(n + 1)
                      /\ c[k] \in 1..Len(ms) /\ c[k + 1] \in 1..(Len(ms) + 1) /\ c[k] < c[k + 1]
                      /\ c[k + 1] - 1 \in c[k]..Len(ms)
  <2>1. TAKE k \in 1..n
  <2>2. k \in 1..(n + 1) /\ k + 1 \in 1..(n + 1) /\ k < k + 1
    BY <2>1
  <2>3. c[k] \in 1..(Len(ms) + 1) /\ c[k + 1] \in 1..(Len(ms) + 1) /\ c[k] < c[k + 1]
    BY <1>1, <2>2
  <2> QED BY <1>2, <2>2, <2>3
<1>4. \A k \in 1..n :
        /\ gs[k] \in Seq(D)
        /\ Len(gs[k]) = c[k + 1] - c[k]
        /\ \A i \in 1..(c[k + 1] - c[k]) : gs[k][i] = ms[c[k] + i - 1]
  <2>1. TAKE k \in 1..n
  <2>2. gs[k] = SubSeq(ms, c[k], c[k + 1] - 1)
    BY <1>1
  <2>3. c[k] \in 1..(Len(ms) + 1) /\ c[k + 1] - 1 \in c[k]..Len(ms)
    BY <1>2, <1>3
  <2>4. /\ SubSeq(ms, c[k], c[k + 1] - 1) \in Seq(D)
        /\ Len(SubSeq(ms, c[k], c[k + 1] - 1)) = (c[k + 1] - 1) - c[k] + 1
        /\ \A i \in 1..((c[k + 1] - 1) - c[k] + 1) :
             SubSeq(ms, c[k], c[k + 1] - 1)[i] = ms[c[k] + i - 1]
    BY ONLY <2>3, ms \in Seq(D), SliceRange
  <2>5. (c[k + 1] - 1) - c[k] + 1 = c[k + 1] - c[k]
    BY <1>2, <1>3
  <2> QED BY <2>2, <2>4, <2>5
<1>5. \A k \in 1..n : DOMAIN gs[k] = 1..(c[k + 1] - c[k]) /\ gs[k] # <<>>
  <2>1. TAKE k \in 1..n
  <2>2. c[k] \in Nat /\ c[k + 1] \in Nat /\ c[k] < c[k + 1]
    BY <1>2, <1>3
  <2>3. gs[k] \in Seq(D) /\ Len(gs[k]) = c[k + 1] - c[k]
    BY <1>4
  <2> QED BY <2>2, <2>3
<1>6. gs \in Seq(Seq(D) \ {<<>>}) /\ DOMAIN gs = 1..n
  <2>1. \A k \in 1..n : gs[k] \in Seq(D) \ {<<>>}
    BY <1>4, <1>5
  <2>2. gs = [k \in 1..n |-> gs[k]]
    BY <1>1
  <2> QED BY <2>1, <2>2
<1>7. InGroups(gs) = Range(ms)
  <2>1. \A k \in 1..n : \A i \in DOMAIN gs[k] : gs[k][i] \in Range(ms)
    <3> TAKE k \in 1..n
    <3> TAKE i \in DOMAIN gs[k]
    <3>1. /\ c[k] \in 1..Len(ms) /\ c[k + 1] \in 1..(Len(ms) + 1)
          /\ i \in 1..(c[k + 1] - c[k])
      BY <1>3, <1>5
    <3>2. c[k] + i - 1 \in DOMAIN ms
      BY <1>2, <3>1
    <3>3. gs[k][i] = ms[c[k] + i - 1]
      BY <1>4, <3>1
    <3> QED BY <3>2, <3>3 DEF Range
  <2>2. \A i \in DOMAIN ms : \E k \in 1..n : ms[i] \in Range(gs[k])
    <3>1. TAKE i \in DOMAIN ms
    <3>2. PICK k \in 1..n : c[k] <= i /\ i < c[k + 1]
      BY <1>1, <1>2, CutsCover
    <3>3. c[k] \in Nat /\ c[k + 1] \in Nat /\ i \in Nat
      BY <1>2, <1>3
    <3>4. i - c[k] + 1 \in 1..(c[k + 1] - c[k]) /\ c[k] + (i - c[k] + 1) - 1 = i
      BY ONLY <3>2, <3>3, CutPosition
    <3>5. i - c[k] + 1 \in DOMAIN gs[k] /\ gs[k][i - c[k] + 1] = ms[i]
      BY <1>4, <1>5, <3>4
    <3> QED BY <3>5 DEF Range
  <2>3. \A x \in Range(ms) : x \in InGroups(gs)
    BY <1>6, <2>2, InSomeGroup DEF Range
  <2>4. \A k \in DOMAIN gs : Range(gs[k]) \subseteq Range(ms)
    BY <1>6, <2>1 DEF Range
  <2> QED BY <2>3, <2>4, InSomeGroup
<1>8. ASSUME D \subseteq Nat, Rising(ms)
      PROVE  /\ \A k \in DOMAIN gs : Rising(gs[k])
             /\ \A j, k \in DOMAIN gs : j < k => Precedes(gs[j], gs[k])
  <2>1. ASSUME NEW k \in 1..n PROVE Rising(gs[k])
    <3>1. ASSUME NEW i \in DOMAIN gs[k], NEW j \in DOMAIN gs[k], i < j PROVE gs[k][i] < gs[k][j]
      <4>1. /\ c[k] \in 1..Len(ms) /\ c[k + 1] \in 1..(Len(ms) + 1)
            /\ i \in 1..(c[k + 1] - c[k]) /\ j \in 1..(c[k + 1] - c[k])
        BY <1>3, <1>5
      <4>2. gs[k][i] = ms[c[k] + i - 1] /\ gs[k][j] = ms[c[k] + j - 1]
        BY <1>4, <4>1
      <4>3. /\ c[k] + i - 1 \in DOMAIN ms /\ c[k] + j - 1 \in DOMAIN ms
            /\ c[k] + i - 1 < c[k] + j - 1
        BY <1>2, <3>1, <4>1
      <4> QED BY <1>8, <4>2, <4>3 DEF Rising
    <3> QED BY <3>1 DEF Rising
  <2>2. ASSUME NEW j \in 1..n, NEW k \in 1..n, j < k PROVE Precedes(gs[j], gs[k])
    <3>1. c[j + 1] <= c[k]
      <4>1. j + 1 \in 1..(n + 1) /\ k \in 1..(n + 1) /\ (j + 1 = k \/ j + 1 < k)
        BY <2>2
      <4>2. c[j + 1] \in Nat /\ c[k] \in Nat
        BY <1>2, <1>3, <2>2
      <4>3. j + 1 < k => c[j + 1] < c[k]
        BY <1>1, <4>1
      <4> QED BY <4>1, <4>2, <4>3
    <3>2. ASSUME NEW a \in DOMAIN gs[j], NEW b \in DOMAIN gs[k] PROVE gs[j][a] < gs[k][b]
      <4>1. /\ c[j] \in 1..Len(ms) /\ c[j + 1] \in 1..(Len(ms) + 1)
            /\ c[k] \in 1..Len(ms) /\ c[k + 1] \in 1..(Len(ms) + 1)
            /\ a \in 1..(c[j + 1] - c[j]) /\ b \in 1..(c[k + 1] - c[k])
        BY <1>3, <1>5
      <4>2. gs[j][a] = ms[c[j] + a - 1] /\ gs[k][b] = ms[c[k] + b - 1]
        BY <1>4, <4>1
      <4>3. /\ c[j] + a - 1 \in DOMAIN ms /\ c[k] + b - 1 \in DOMAIN ms
            /\ c[j] + a - 1 < c[k] + b - 1
        BY ONLY <1>2, <3>1, <4>1, CutPositions
      <4> QED BY <1>8, <4>2, <4>3 DEF Rising
    <3> QED BY <3>2 DEF Precedes, Range
  <2> QED BY <1>6, <2>1, <2>2
<1> QED BY <1>6, <1>7, <1>8

LEMMA RisingConcat ==
  ASSUME NEW S, S \subseteq Nat, NEW s \in Seq(S), NEW t \in Seq(S), Rising(s), Rising(t), Precedes(s, t)
  PROVE  Rising(s \o t)
<1>1. /\ Len(s) \in Nat /\ Len(t) \in Nat
      /\ DOMAIN s = 1..Len(s) /\ DOMAIN t = 1..Len(t) /\ DOMAIN (s \o t) = 1..(Len(s) + Len(t))
      /\ \A i \in 1..(Len(s) + Len(t)) : (s \o t)[i] = IF i <= Len(s) THEN s[i] ELSE t[i - Len(s)]
  BY ConcatProperties
<1>2. ASSUME NEW i \in 1..(Len(s) + Len(t)), NEW j \in 1..(Len(s) + Len(t)), i < j
      PROVE  (s \o t)[i] < (s \o t)[j]
  <2>1. CASE j <= Len(s)
    BY <1>1, <1>2, <2>1 DEF Rising
  <2>2. CASE i <= Len(s) /\ j > Len(s)
    <3>1. s[i] \in Range(s) /\ t[j - Len(s)] \in Range(t)
      <4>1. i \in DOMAIN s /\ j - Len(s) \in DOMAIN t
        BY <1>1, <2>2
      <4> QED BY <4>1 DEF Range
    <3> QED BY <1>1, <2>2, <3>1 DEF Precedes
  <2>3. CASE i > Len(s)
    <3>1. i - Len(s) \in DOMAIN t /\ j - Len(s) \in DOMAIN t /\ i - Len(s) < j - Len(s)
      BY <1>1, <1>2, <2>3
    <3> QED BY <1>1, <1>2, <2>3, <3>1 DEF Rising
  <2> QED BY <1>1, <2>1, <2>2, <2>3
<1> QED BY <1>1, <1>2 DEF Rising

-----------------------------------------------------------------------------
(* The steps *)

LEMMA MessagesStart == MessagesInit => MessagesInv
<1> SUFFICES ASSUME MessagesInit PROVE MessagesInv
  OBVIOUS
<1>1. MessagesTypeOK
  BY DEF MessagesInit, MessagesTypeOK, NoWait
<1>2. AdmissionInv /\ PlaceInv
  BY DEF MessagesInit, AdmissionInv, PlaceInv, Rising, Precedes, OnWay, InGroups, Settled, Range
<1>3. WaitInv
  BY DEF MessagesInit, WaitInv, WaitCovers, NoWait
<1> QED BY <1>1, <1>2, <1>3 DEF MessagesInv

\* What the shape of the messages says of the positions that are in use.
LEMMA Positions ==
  ASSUME MessagesTypeOK
  PROVE  /\ Len(admitted) \in Nat /\ DOMAIN admitted = 1..Len(admitted)
         /\ DOMAIN admitted \subseteq Nat
         /\ Range(handed) \subseteq DOMAIN admitted /\ Range(window) \subseteq DOMAIN admitted
         /\ \A k \in DOMAIN groups :
              /\ groups[k] \in Seq(DOMAIN admitted) /\ groups[k] # <<>>
              /\ Range(groups[k]) \subseteq DOMAIN admitted
         /\ OnWay \subseteq DOMAIN admitted
<1>1. Len(admitted) \in Nat /\ DOMAIN admitted = 1..Len(admitted)
  BY DEF MessagesTypeOK
<1>2. \A s \in Seq(DOMAIN admitted) : Range(s) \subseteq DOMAIN admitted
  BY DEF Range
<1>3. \A k \in DOMAIN groups : groups[k] \in Seq(DOMAIN admitted) /\ groups[k] # <<>>
  BY DEF MessagesTypeOK
<1>4. window \in Seq(DOMAIN admitted) /\ handed \in Seq(DOMAIN admitted)
  BY DEF MessagesTypeOK
<1> QED BY <1>1, <1>2, <1>3, <1>4, InSomeGroup DEF OnWay

LEMMA EnqueueKeeps ==
  ASSUME MessagesInv, NEW m \in Message, Enqueue(m)
  PROVE  /\ MessagesInv'
         /\ Len(admitted') = Len(admitted) + 1 /\ DOMAIN admitted' = 1..(Len(admitted) + 1)
         /\ admitted'[Len(admitted) + 1] = m
         /\ \A i \in DOMAIN admitted : admitted'[i] = admitted[i]
<1> DEFINE n == Len(admitted) + 1
<1>0. MessagesTypeOK /\ AdmissionInv /\ PlaceInv /\ WaitInv
  BY DEF MessagesInv
<1>1. /\ n \in Nat /\ DOMAIN admitted = 1..Len(admitted) /\ n \notin DOMAIN admitted
      /\ \A x \in DOMAIN admitted : x < n
  BY <1>0, Positions
<1>2. /\ admitted' \in Seq(Message) /\ Len(admitted') = n /\ DOMAIN admitted' = 1..n
      /\ admitted'[n] = m /\ \A i \in DOMAIN admitted : admitted'[i] = admitted[i]
  <2>1. admitted \in Seq(Message) /\ admitted' = Append(admitted, m)
    BY <1>0 DEF MessagesTypeOK, Message, Enqueue
  <2> QED BY <1>1, <2>1, AppendProperties
<1>3. DOMAIN admitted' = DOMAIN admitted \cup {n} /\ n \in DOMAIN admitted'
  BY <1>1, <1>2
<1>4. UNCHANGED <<groups, under, handed, refused, waiter, service>> /\ window' = Append(window, n)
  BY <1>2 DEF Enqueue
<1>5. \A s \in Seq(DOMAIN admitted) : s \in Seq(DOMAIN admitted')
  BY <1>3, SeqMonotonic
<1>6. window \in Seq(DOMAIN admitted') /\ handed \in Seq(DOMAIN admitted')
  BY <1>0, <1>5 DEF MessagesTypeOK
<1>7. window' \in Seq(DOMAIN admitted') /\ Range(window') = Range(window) \cup {n}
  BY <1>3, <1>4, <1>6, AppendProperties, AppendRange
<1>8. MessagesTypeOK'
  <2>1. groups \in Seq(Seq(DOMAIN admitted') \ {<<>>})
    <3>1. Seq(DOMAIN admitted) \ {<<>>} \subseteq Seq(DOMAIN admitted') \ {<<>>}
      BY <1>5
    <3>2. groups \in Seq(Seq(DOMAIN admitted) \ {<<>>})
      BY <1>0 DEF MessagesTypeOK
    <3> QED BY <3>1, <3>2, SeqMonotonic
  <2>2. waiter \in [on : BOOLEAN, upto : Nat, for : SUBSET DOMAIN admitted']
    <3>1. waiter \in [on : BOOLEAN, upto : Nat, for : SUBSET DOMAIN admitted]
      BY <1>0 DEF MessagesTypeOK
    <3> QED BY <1>3, <3>1
  <2>3. refused \subseteq DOMAIN admitted' /\ (under => groups # <<>>)
        /\ service \in {"open", "closing", "closed"}
    BY <1>0, <1>3 DEF MessagesTypeOK
  <2> QED BY <1>2, <1>4, <1>6, <1>7, <2>1, <2>2, <2>3 DEF MessagesTypeOK, Message
<1>9. AdmissionInv'
  <2>1. Precedes(handed, window')
    BY <1>0, <1>1, <1>7, Positions DEF AdmissionInv, Precedes
  <2>2. \A k \in DOMAIN groups : Precedes(groups[k], window')
    BY <1>0, <1>1, <1>7, Positions DEF AdmissionInv, Precedes
  <2>3. Rising(window')
    <3>1. window \in Seq(DOMAIN admitted) /\ Range(window) \subseteq DOMAIN admitted
      BY <1>0, Positions DEF MessagesTypeOK
    <3>2. /\ Len(window) \in Nat /\ DOMAIN window = 1..Len(window) /\ DOMAIN window' = 1..(Len(window) + 1)
          /\ window'[Len(window) + 1] = n /\ \A i \in 1..Len(window) : window'[i] = window[i]
      BY <1>3, <1>4, <1>6, AppendProperties
    <3>3. \A i \in 1..Len(window) : window[i] < n
      BY <1>1, <3>1, <3>2 DEF Range
    <3> QED BY <1>0, <3>2, <3>3 DEF AdmissionInv, Rising
  <2> QED BY <1>0, <1>4, <2>1, <2>2, <2>3 DEF AdmissionInv
<1>10. OnWay' = OnWay \cup {n} /\ Settled' = Settled
  BY <1>4, <1>7 DEF OnWay, Settled
<1>11. PlaceInv'
  <2>1. n \notin refused
    BY <1>0, <1>1 DEF MessagesTypeOK
  <2> QED BY <1>0, <1>3, <1>4, <1>10, <2>1 DEF PlaceInv
<1>12. WaitInv'
  <2>1. waiter.upto <= Len(admitted')
    BY <1>0, <1>1, <1>2 DEF WaitInv, MessagesTypeOK
  <2> QED BY <1>0, <1>4, <1>10, <2>1 DEF WaitInv, WaitCovers
<1> QED BY <1>2, <1>8, <1>9, <1>11, <1>12 DEF MessagesInv

LEMMA FlushKeeps ==
  ASSUME MessagesInv, Flush, UNCHANGED <<admitted, under, handed, refused, waiter>>,
         service' \in {"open", "closing", "closed"}
  PROVE  MessagesInv'
<1> DEFINE D == DOMAIN admitted
<1>0. MessagesTypeOK /\ AdmissionInv /\ PlaceInv /\ WaitInv
  BY DEF MessagesInv
<1>1. PICK gs \in Splits(window) : groups' = groups \o gs /\ window' = <<>>
  BY DEF Flush
<1>2. window \in Seq(D) /\ groups \in Seq(Seq(D) \ {<<>>}) /\ D \subseteq Nat
  BY <1>0, Positions DEF MessagesTypeOK
<1>3. /\ gs \in Seq(Seq(D) \ {<<>>})
      /\ InGroups(gs) = Range(window)
      /\ \A k \in DOMAIN gs : Rising(gs[k])
      /\ \A j, k \in DOMAIN gs : j < k => Precedes(gs[j], gs[k])
  BY <1>0, <1>1, <1>2, SplitsParts DEF AdmissionInv
<1>4. /\ Len(groups) \in Nat /\ Len(gs) \in Nat
      /\ DOMAIN groups = 1..Len(groups) /\ DOMAIN gs = 1..Len(gs)
      /\ groups' \in Seq(Seq(D) \ {<<>>})
      /\ DOMAIN groups' = 1..(Len(groups) + Len(gs))
      /\ \A i \in DOMAIN groups' : groups'[i] = IF i <= Len(groups) THEN groups[i] ELSE gs[i - Len(groups)]
  BY <1>1, <1>2, <1>3, ConcatProperties
<1>5. \A k \in DOMAIN groups' :
        \/ k \in DOMAIN groups /\ groups'[k] = groups[k]
        \/ k > Len(groups) /\ k - Len(groups) \in DOMAIN gs /\ groups'[k] = gs[k - Len(groups)]
  BY <1>4
<1>6. /\ \A k \in DOMAIN groups : k \in DOMAIN groups' /\ groups'[k] = groups[k]
      /\ \A k \in DOMAIN gs : Len(groups) + k \in DOMAIN groups' /\ groups'[Len(groups) + k] = gs[k]
  <2>1. \A k \in DOMAIN groups : k \in DOMAIN groups' /\ groups'[k] = groups[k]
    BY <1>4
  <2>2. ASSUME NEW k \in DOMAIN gs
        PROVE  Len(groups) + k \in DOMAIN groups' /\ groups'[Len(groups) + k] = gs[k]
    <3>1. /\ Len(groups) + k \in DOMAIN groups' /\ ~(Len(groups) + k <= Len(groups))
          /\ (Len(groups) + k) - Len(groups) = k
      BY <1>4, <2>2
    <3> QED BY <1>4, <3>1
  <2> QED BY <2>1, <2>2
<1>7. \A k \in DOMAIN gs : Range(gs[k]) \subseteq Range(window)
  BY <1>3, InSomeGroup
<1>8. Range(window') = {}
  BY <1>1 DEF Range
<1>9. MessagesTypeOK'
  <2>1. under' => groups' # <<>>
    <3>1. under => groups # <<>>
      BY <1>0 DEF MessagesTypeOK
    <3> QED BY <1>2, <1>3, <1>4, <3>1
  <2>2. window' \in Seq(D)
    BY <1>1
  <2> QED BY <1>0, <1>4, <2>1, <2>2 DEF MessagesTypeOK
<1>10. AdmissionInv'
  <2>1. ASSUME NEW k \in DOMAIN groups'
        PROVE  Rising(groups'[k]) /\ Precedes(handed, groups'[k]) /\ Precedes(groups'[k], window')
    BY <1>0, <1>3, <1>5, <1>7, <1>8 DEF AdmissionInv, Precedes
  <2>2. ASSUME NEW j \in DOMAIN groups', NEW k \in DOMAIN groups', j < k
        PROVE  Precedes(groups'[j], groups'[k])
    <3>1. CASE k \in DOMAIN groups /\ groups'[k] = groups[k]
      <4>1. j \in DOMAIN groups /\ groups'[j] = groups[j]
        BY <1>4, <2>2, <3>1
      <4> QED BY <1>0, <2>2, <3>1, <4>1 DEF AdmissionInv
    <3>2. CASE /\ k > Len(groups) /\ k - Len(groups) \in DOMAIN gs /\ groups'[k] = gs[k - Len(groups)]
               /\ j \in DOMAIN groups /\ groups'[j] = groups[j]
      BY <1>0, <1>7, <3>2 DEF AdmissionInv, Precedes
    <3>3. CASE /\ k > Len(groups) /\ k - Len(groups) \in DOMAIN gs /\ groups'[k] = gs[k - Len(groups)]
               /\ j > Len(groups) /\ j - Len(groups) \in DOMAIN gs /\ groups'[j] = gs[j - Len(groups)]
      <4>1. j - Len(groups) < k - Len(groups)
        BY <1>4, <2>2
      <4> QED BY <1>3, <3>3, <4>1
    <3> QED BY <1>5, <3>1, <3>2, <3>3
  <2>3. Rising(window') /\ Precedes(handed, window')
    BY <1>1, <1>8 DEF Rising, Precedes
  <2> QED BY <1>0, <2>1, <2>2, <2>3 DEF AdmissionInv
<1>11. OnWay' = OnWay
  <2>1. \A x : x \in InGroups(groups') <=> x \in InGroups(groups) \/ x \in InGroups(gs)
    BY <1>5, <1>6, InSomeGroup
  <2>2. InGroups(groups') = InGroups(groups) \cup Range(window)
    BY <1>3, <2>1
  <2> QED BY <1>8, <2>2 DEF OnWay
<1>12. PlaceInv' /\ WaitInv'
  BY <1>0, <1>11 DEF PlaceInv, WaitInv, WaitCovers, Settled
<1> QED BY <1>9, <1>10, <1>12 DEF MessagesInv

\* The first group leaves; the others move up.
LEMMA TailOnWay ==
  ASSUME MessagesInv, groups # <<>>, groups' = Tail(groups), UNCHANGED window
  PROVE  /\ 1 \in DOMAIN groups /\ Head(groups) = groups[1]
         /\ DOMAIN groups' = 1..(Len(groups) - 1) /\ Len(groups) \in Nat
         /\ \A k \in DOMAIN groups' : k + 1 \in DOMAIN groups /\ groups'[k] = groups[k + 1]
         /\ groups' \in Seq(Seq(DOMAIN admitted) \ {<<>>})
         /\ OnWay = OnWay' \cup Range(Head(groups))
         /\ \A x \in Range(Head(groups)), y \in OnWay' : x < y
<1>0. MessagesTypeOK /\ AdmissionInv
  BY DEF MessagesInv
<1>1. groups \in Seq(Seq(DOMAIN admitted) \ {<<>>})
  BY <1>0 DEF MessagesTypeOK
<1>2. /\ Len(groups) \in Nat \ {0} /\ DOMAIN groups = 1..Len(groups)
      /\ groups' \in Seq(Seq(DOMAIN admitted) \ {<<>>})
      /\ Len(groups') = Len(groups) - 1 /\ DOMAIN groups' = 1..Len(groups')
      /\ \A k \in 1..Len(groups') : groups'[k] = groups[k + 1]
  BY <1>1, HeadTailProperties
<1>3. 1 \in DOMAIN groups /\ Head(groups) = groups[1]
  BY <1>1, <1>2
<1>4. \A k \in DOMAIN groups' : k + 1 \in DOMAIN groups /\ groups'[k] = groups[k + 1]
  BY <1>2
<1>5. \A k \in DOMAIN groups : k = 1 \/ (k - 1 \in DOMAIN groups' /\ groups'[k - 1] = groups[k])
  BY <1>2
<1>6. \A x : x \in InGroups(groups) <=> x \in InGroups(groups') \/ x \in Range(groups[1])
  <2>1. ASSUME NEW k \in DOMAIN groups, NEW x \in Range(groups[k])
        PROVE  x \in InGroups(groups') \/ x \in Range(groups[1])
    BY <1>5, <2>1, InSomeGroup
  <2>2. ASSUME NEW k \in DOMAIN groups', NEW x \in Range(groups'[k])
        PROVE  x \in InGroups(groups)
    BY <1>4, <2>2, InSomeGroup
  <2>3. \A x \in Range(groups[1]) : x \in InGroups(groups)
    BY <1>3, InSomeGroup
  <2>4. \A x \in InGroups(groups) : x \in InGroups(groups') \/ x \in Range(groups[1])
    BY <2>1, InSomeGroup
  <2>5. \A x \in InGroups(groups') : x \in InGroups(groups)
    BY <2>2, InSomeGroup
  <2> QED BY <2>3, <2>4, <2>5
<1>7. OnWay = OnWay' \cup Range(Head(groups))
  <2>1. InGroups(groups) = InGroups(groups') \cup Range(groups[1])
    BY <1>6
  <2> QED BY <1>3, <2>1 DEF OnWay
<1>8. ASSUME NEW x \in Range(groups[1]), NEW y \in OnWay' PROVE x < y
  <2>1. CASE y \in Range(window)
    BY <1>0, <1>3, <1>8, <2>1 DEF AdmissionInv, Precedes
  <2>2. CASE y \notin Range(window)
    <3>1. PICK k \in DOMAIN groups' : y \in Range(groups'[k])
      BY <1>8, <2>2, InSomeGroup DEF OnWay
    <3>2. k + 1 \in DOMAIN groups /\ 1 < k + 1 /\ y \in Range(groups[k + 1])
      BY <1>2, <1>4, <3>1
    <3> QED BY <1>0, <1>3, <1>8, <3>2 DEF AdmissionInv, Precedes
  <2> QED BY <2>1, <2>2
<1> QED BY <1>2, <1>3, <1>4, <1>7, <1>8

LEMMA TailOrder ==
  ASSUME MessagesInv, groups # <<>>, groups' = Tail(groups), UNCHANGED window
  PROVE  /\ \A k \in DOMAIN groups' : Rising(groups'[k]) /\ Precedes(groups'[k], window')
         /\ \A k \in DOMAIN groups' : Precedes(handed, groups'[k])
         /\ \A j, k \in DOMAIN groups' : j < k => Precedes(groups'[j], groups'[k])
<1>0. AdmissionInv
  BY DEF MessagesInv
<1>1. /\ DOMAIN groups' = 1..(Len(groups) - 1) /\ Len(groups) \in Nat
      /\ \A k \in DOMAIN groups' : k + 1 \in DOMAIN groups /\ groups'[k] = groups[k + 1]
  BY TailOnWay
<1>2. \A j, k \in DOMAIN groups' : j < k => j + 1 < k + 1
  BY <1>1
<1> QED BY <1>0, <1>1, <1>2 DEF AdmissionInv

LEMMA AcknowledgedKeeps ==
  ASSUME MessagesInv, DispatchAcknowledged
  PROVE  /\ MessagesInv'
         /\ Range(handed') = Range(handed) \cup Range(Head(groups))
         /\ Range(Head(groups)) \subseteq DOMAIN admitted /\ Range(handed') \subseteq DOMAIN admitted
<1> DEFINE D == DOMAIN admitted
           g == Head(groups)
<1>0. MessagesTypeOK /\ AdmissionInv /\ PlaceInv /\ WaitInv
  BY DEF MessagesInv
<1>1. /\ groups # <<>> /\ groups' = Tail(groups) /\ handed' = handed \o g /\ under' = FALSE
      /\ UNCHANGED <<admitted, window, refused, waiter, service>>
  BY <1>0 DEF DispatchAcknowledged, MessagesTypeOK
<1>2. /\ 1 \in DOMAIN groups /\ g = groups[1]
      /\ groups' \in Seq(Seq(D) \ {<<>>})
      /\ OnWay = OnWay' \cup Range(g)
      /\ \A x \in Range(g), y \in OnWay' : x < y
  BY <1>1, TailOnWay
<1>3. D \subseteq Nat /\ g \in Seq(D) /\ handed \in Seq(D) /\ Range(g) \subseteq D /\ Range(handed) \subseteq D
  BY <1>0, <1>2, Positions DEF MessagesTypeOK
<1>4. handed' \in Seq(D) /\ Range(handed') = Range(handed) \cup Range(g)
  BY <1>1, <1>3, ConcatProperties, ConcatRange
<1>5. MessagesTypeOK'
  BY <1>0, <1>1, <1>2, <1>4 DEF MessagesTypeOK
<1>6. Rising(handed')
  <2>1. Rising(handed) /\ Rising(g) /\ Precedes(handed, g)
    BY <1>0, <1>2 DEF AdmissionInv
  <2> QED BY <1>1, <1>3, <2>1, RisingConcat
<1>7. /\ \A k \in DOMAIN groups' : Rising(groups'[k]) /\ Precedes(groups'[k], window')
      /\ \A k \in DOMAIN groups' : Precedes(handed, groups'[k])
      /\ \A j, k \in DOMAIN groups' : j < k => Precedes(groups'[j], groups'[k])
  BY <1>1, TailOrder
<1>8. \A k \in DOMAIN groups' : Precedes(handed', groups'[k])
  <2>1. TAKE k \in DOMAIN groups'
  <2>2. Range(groups'[k]) \subseteq OnWay'
    BY <2>1, InSomeGroup DEF OnWay
  <2> QED BY <1>2, <1>4, <1>7, <2>1, <2>2 DEF Precedes
<1>9. Precedes(handed', window')
  BY <1>0, <1>1, <1>2, <1>4 DEF AdmissionInv, Precedes
<1>10. AdmissionInv'
  BY <1>0, <1>1, <1>6, <1>7, <1>8, <1>9 DEF AdmissionInv
<1>11. PlaceInv' /\ Settled \subseteq Settled' /\ Settled' = Settled \cup Range(g)
  <2>1. Settled' = Settled \cup Range(g)
    BY <1>1, <1>4 DEF Settled
  <2> QED BY <1>0, <1>1, <1>2, <1>4, <2>1 DEF PlaceInv
<1>12. WaitInv'
  BY <1>0, <1>1, <1>11 DEF WaitInv, WaitCovers
<1> QED BY <1>3, <1>4, <1>5, <1>10, <1>11, <1>12 DEF MessagesInv

LEMMA FailsKeeps ==
  ASSUME MessagesInv, DispatchFails
  PROVE  /\ MessagesInv'
         /\ refused \subseteq refused' /\ UNCHANGED <<admitted, handed>>
<1> DEFINE D == DOMAIN admitted
           g == Head(groups)
<1>0. MessagesTypeOK /\ AdmissionInv /\ PlaceInv /\ WaitInv
  BY DEF MessagesInv
<1>1. /\ groups # <<>> /\ groups' = Tail(groups) /\ under' = FALSE /\ refused' = refused \cup Range(g)
      /\ UNCHANGED <<admitted, window, handed, waiter, service>>
  BY DEF DispatchFails
<1>2. /\ 1 \in DOMAIN groups /\ g = groups[1]
      /\ groups' \in Seq(Seq(D) \ {<<>>})
      /\ OnWay = OnWay' \cup Range(g)
      /\ \A x \in Range(g), y \in OnWay' : x < y
  BY <1>1, TailOnWay
<1>3. D \subseteq Nat /\ Range(g) \subseteq D
  BY <1>0, <1>2, Positions
<1>4. MessagesTypeOK'
  BY <1>0, <1>1, <1>2, <1>3 DEF MessagesTypeOK
<1>5. AdmissionInv'
  BY <1>0, <1>1, TailOrder DEF AdmissionInv
<1>6. PlaceInv' /\ Settled' = Settled \cup Range(g)
  <2>1. Settled' = Settled \cup Range(g)
    BY <1>1 DEF Settled
  <2>2. Range(g) \cap Range(handed) = {}
    <3>1. Precedes(handed, g) /\ Range(handed) \subseteq D
      BY <1>0, <1>2, Positions DEF AdmissionInv
    <3> QED BY <1>3, <3>1 DEF Precedes
  <2>3. Range(g) \cap OnWay' = {}
    BY <1>2, <1>3
  <2> QED BY <1>0, <1>1, <1>2, <2>1, <2>2, <2>3 DEF PlaceInv
<1>7. WaitInv'
  BY <1>0, <1>1, <1>6 DEF WaitInv, WaitCovers
<1> QED BY <1>1, <1>4, <1>5, <1>6, <1>7 DEF MessagesInv

\* A wait that begins covers everything admitted: what is not settled is in the window, in the last
\* group, or before a message of the last group.
LEMMA WaitKeeps ==
  ASSUME MessagesInv, WaitForDispatch
  PROVE  MessagesInv'
<1>0. MessagesTypeOK /\ AdmissionInv /\ PlaceInv /\ WaitInv
  BY DEF MessagesInv
<1> DEFINE last == IF groups = <<>> THEN {} ELSE Range(groups[Len(groups)])
<1>1. /\ waiter' = [on |-> TRUE, upto |-> Len(admitted), for |-> Range(window) \cup last]
      /\ UNCHANGED <<admitted, window, groups, under, handed, refused, service>>
  BY DEF WaitForDispatch
<1>2. groups # <<>> => Len(groups) \in DOMAIN groups
  BY <1>0 DEF MessagesTypeOK
<1>3. last \subseteq DOMAIN admitted /\ Range(window) \subseteq DOMAIN admitted
  BY <1>0, <1>2, Positions
<1>4. /\ waiter'.on = TRUE /\ waiter'.upto = Len(admitted)
      /\ waiter'.for = Range(window) \cup last
  BY <1>1
<1>5. MessagesTypeOK'
  <2>1. waiter' \in [on : BOOLEAN, upto : Nat, for : SUBSET DOMAIN admitted]
    BY <1>0, <1>1, <1>3, Positions
  <2> QED BY <1>0, <1>1, <2>1 DEF MessagesTypeOK
<1>6. ASSUME NEW x \in DOMAIN admitted, x \notin Settled, x \notin waiter'.for
      PROVE  \E y \in waiter'.for : x < y
  <2>1. x \in InGroups(groups)
    BY <1>0, <1>4, <1>6 DEF PlaceInv, OnWay
  <2>2. PICK k \in DOMAIN groups : x \in Range(groups[k])
    BY <2>1, InSomeGroup
  <2>3. /\ groups # <<>> /\ Len(groups) \in DOMAIN groups /\ k < Len(groups)
        /\ last = Range(groups[Len(groups)])
    <3>1. groups \in Seq(Seq(DOMAIN admitted) \ {<<>>}) /\ groups # <<>>
      BY <1>0, <2>2 DEF MessagesTypeOK
    <3>2. k # Len(groups)
      BY <1>4, <1>6, <2>2, <3>1
    <3> QED BY <1>2, <3>1, <3>2
  <2>4. PICK y : y \in Range(groups[Len(groups)])
    <3>1. groups[Len(groups)] \in Seq(DOMAIN admitted) /\ groups[Len(groups)] # <<>>
      BY <1>0, <2>3, Positions
    <3>2. 1 \in DOMAIN groups[Len(groups)]
      BY <3>1
    <3> QED BY <3>2 DEF Range
  <2>5. x < y
    BY <1>0, <2>2, <2>3, <2>4 DEF AdmissionInv, Precedes
  <2> QED BY <1>4, <2>3, <2>4, <2>5
<1>7. WaitInv'
  <2>1. Settled' = Settled /\ 1..waiter'.upto = DOMAIN admitted /\ Len(admitted') = waiter'.upto
    BY <1>0, <1>1, <1>4, Positions DEF Settled
  <2>2. Len(admitted) <= Len(admitted)
    BY <1>0, Positions
  <2> QED BY <1>1, <1>4, <1>6, <2>1, <2>2 DEF WaitInv, WaitCovers
<1>8. AdmissionInv' /\ PlaceInv'
  BY <1>0, <1>1 DEF AdmissionInv, PlaceInv, OnWay, Settled
<1> QED BY <1>5, <1>7, <1>8 DEF MessagesInv

\* When everything waited for was handed over, so was everything that goes out before it.
LEMMA WaitEndsKeeps ==
  ASSUME MessagesInv, WaitEnds
  PROVE  MessagesInv'
<1>0. MessagesTypeOK /\ AdmissionInv /\ PlaceInv /\ WaitInv
  BY DEF MessagesInv
<1>1. /\ waiter.on /\ waiter.for \subseteq Range(handed)
      /\ waiter' = [waiter EXCEPT !.on = FALSE, !.for = {}]
      /\ UNCHANGED <<admitted, window, groups, under, handed, refused, service>>
  BY DEF WaitEnds
<1>2. waiter \in [on : BOOLEAN, upto : Nat, for : SUBSET DOMAIN admitted]
  BY <1>0 DEF MessagesTypeOK
<1>3. waiter'.on = FALSE /\ waiter'.upto = waiter.upto
  BY <1>1, <1>2
<1>4. MessagesTypeOK'
  <2>1. waiter' \in [on : BOOLEAN, upto : Nat, for : SUBSET DOMAIN admitted]
    BY <1>1, <1>2
  <2> QED BY <1>0, <1>1, <2>1 DEF MessagesTypeOK
<1>5. \A y \in Range(handed), x \in OnWay : y < x
  <2>1. ASSUME NEW y \in Range(handed), NEW x \in InGroups(groups) PROVE y < x
    <3>1. PICK k \in DOMAIN groups : x \in Range(groups[k])
      BY <2>1, InSomeGroup
    <3> QED BY <1>0, <2>1, <3>1 DEF AdmissionInv, Precedes
  <2> QED BY <1>0, <2>1 DEF AdmissionInv, Precedes, OnWay
<1>6. ASSUME NEW x \in 1..waiter.upto PROVE x \in Settled
  <2>1. x \in DOMAIN admitted
    BY <1>0, <1>2, <1>6, Positions DEF WaitInv
  <2>2. CASE x \in waiter.for
    BY <1>1, <2>2 DEF Settled
  <2>3. CASE \E y \in waiter.for : x < y
    <3>1. PICK y \in waiter.for : x < y
      BY <2>3
    <3>2. x \in Nat /\ y \in Nat /\ y \in Range(handed)
      BY <1>0, <1>1, <2>1, <3>1, Positions
    <3>3. x \notin OnWay
      BY <1>5, <3>1, <3>2
    <3> QED BY <1>0, <2>1, <3>3 DEF PlaceInv
  <2> QED BY <1>0, <1>1, <1>6, <2>2, <2>3 DEF WaitInv
<1>7. WaitInv'
  <2>1. Settled' = Settled
    BY <1>1 DEF Settled
  <2> QED BY <1>0, <1>1, <1>3, <1>6, <2>1 DEF WaitInv, WaitCovers
<1>8. AdmissionInv' /\ PlaceInv'
  BY <1>0, <1>1 DEF AdmissionInv, PlaceInv, OnWay, Settled
<1> QED BY <1>4, <1>7, <1>8 DEF MessagesInv

\* These leave the queues alone.
LEMMA OthersKeep ==
  ASSUME MessagesInv, Dispatch \/ WaitRejected \/ MessagesClosed \/ UNCHANGED messageVars
  PROVE  MessagesInv'
<1>0. MessagesTypeOK /\ AdmissionInv /\ PlaceInv /\ WaitInv
  BY DEF MessagesInv
<1>1. UNCHANGED <<admitted, window, groups, handed, refused>>
  BY DEF Dispatch, WaitRejected, MessagesClosed, messageVars
<1>2. AdmissionInv' /\ PlaceInv' /\ Settled' = Settled
  BY <1>0, <1>1 DEF AdmissionInv, PlaceInv, OnWay, Settled
<1>3. CASE WaitRejected
  <2>1. waiter' = NoWait /\ UNCHANGED <<under, service>>
    BY <1>3 DEF WaitRejected
  <2>2. MessagesTypeOK'
    BY <1>0, <1>1, <2>1 DEF MessagesTypeOK, NoWait
  <2>3. Len(admitted) \in Nat
    BY <1>0, Positions
  <2>4. WaitInv'
    BY <1>0, <1>1, <2>1, <2>3 DEF WaitInv, WaitCovers, NoWait
  <2> QED BY <1>2, <2>2, <2>4 DEF MessagesInv
<1>4. CASE Dispatch \/ MessagesClosed \/ UNCHANGED messageVars
  <2>1. MessagesTypeOK' /\ UNCHANGED waiter
    BY <1>0, <1>1, <1>4 DEF MessagesTypeOK, Dispatch, MessagesClosed, messageVars
  <2>2. WaitInv'
    BY <1>0, <1>1, <1>2, <2>1 DEF WaitInv, WaitCovers
  <2> QED BY <1>2, <2>1, <2>2 DEF MessagesInv
<1> QED BY <1>3, <1>4

LEMMA CloseKeeps ==
  ASSUME MessagesInv, CloseMessages
  PROVE  MessagesInv'
<1>1. /\ service' \in {"open", "closing", "closed"}
      /\ UNCHANGED <<admitted, under, handed, refused, waiter>>
      /\ Flush \/ UNCHANGED <<window, groups>>
  BY DEF CloseMessages
<1>2. CASE Flush
  BY <1>1, <1>2, FlushKeeps
<1>3. CASE UNCHANGED <<window, groups>>
  BY <1>1, <1>3 DEF MessagesInv, MessagesTypeOK, AdmissionInv, PlaceInv, WaitInv, OnWay, Settled, WaitCovers
<1> QED BY <1>1, <1>2, <1>3

LEMMA MessagesStep == MessagesInv /\ [MessagesNext]_messageVars => MessagesInv'
<1> SUFFICES ASSUME MessagesInv, [MessagesNext]_messageVars PROVE MessagesInv'
  OBVIOUS
<1>1. CASE OtherSends
  <2>1. PICK turn \in {"steer", "interrupt"}, mode \in Modes \cup {NoMode} :
          Enqueue([from |-> Other, what |-> "message", turn |-> turn, mode |-> mode])
    BY <1>1 DEF OtherSends
  <2>2. [from |-> Other, what |-> "message", turn |-> turn, mode |-> mode] \in Message
    BY DEF Message, Other
  <2> QED BY <2>1, <2>2, EnqueueKeeps
<1>2. CASE QuietPeriodEnds
  <2>1. service' \in {"open", "closing", "closed"}
    BY <1>2 DEF QuietPeriodEnds, MessagesInv, MessagesTypeOK
  <2> QED BY <1>2, <2>1, FlushKeeps DEF QuietPeriodEnds
<1>3. CASE DispatchAcknowledged
  BY <1>3, AcknowledgedKeeps
<1>4. CASE DispatchFails
  BY <1>4, FailsKeeps
<1>5. CASE WaitForDispatch
  BY <1>5, WaitKeeps
<1>6. CASE WaitEnds
  BY <1>6, WaitEndsKeeps
<1>7. CASE CloseMessages
  BY <1>7, CloseKeeps
<1>8. CASE Dispatch \/ WaitRejected \/ MessagesClosed \/ UNCHANGED messageVars
  BY <1>8, OthersKeep
<1> QED BY <1>1, <1>2, <1>3, <1>4, <1>5, <1>6, <1>7, <1>8 DEF MessagesNext

-----------------------------------------------------------------------------
(* Theorems about the messages *)

\* The messages keep their shape, in the order of their admission, each in one place: the window, a
\* group, handed over or refused.
THEOREM MessagesInvariance == MessagesSpec => []MessagesInv
<1>1. MessagesInit => MessagesInv
  BY MessagesStart
<1>2. MessagesInv /\ [MessagesNext]_messageVars => MessagesInv'
  BY MessagesStep
<1> QED BY <1>1, <1>2, PTL DEF MessagesSpec

\* Positions, groups and waits keep their shape.
THEOREM MessagesTypeCorrect == MessagesSpec => []MessagesTypeOK
<1>1. MessagesInv => MessagesTypeOK
  BY DEF MessagesInv
<1> QED BY <1>1, MessagesInvariance, PTL

\* The agent gets messages in the order they were admitted, each at most once, however many there
\* are and however the flushes group them.
THEOREM AlwaysInOrder == MessagesSpec => []HandedInOrder
<1>1. MessagesInv => HandedInOrder
  BY DEF MessagesInv, AdmissionInv, Rising, HandedInOrder
<1> QED BY <1>1, MessagesInvariance, PTL

\* A wait that ended well left nothing admitted before it on its way, although it looked only at the
\* window and the last group.
THEOREM WaitsCover == MessagesSpec => []WaitCovers
<1>1. MessagesInv => WaitCovers
  BY DEF MessagesInv, WaitInv
<1> QED BY <1>1, MessagesInvariance, PTL

-----------------------------------------------------------------------------
(* The subscriptions *)

Mutations == [op : {"put", "reject", "drop"}, w : Regs, drop : SUBSET Regs]
Watches == [pc : {"none", "wait", "check", "observe", "held", "recheck", "send", "ack", "remove", "end"},
            live : BOOLEAN, pending : BOOLEAN, before : SUBSET Regs, records : SUBSET Regs,
            out : {"none", "permission", "finish", "lost"}, acked : BOOLEAN, msg : Nat,
            fails : 0..RemoteTries]

Shape ==
  /\ store \subseteq 1..asked
  /\ asked \in 0..MaxRegs
  /\ mutations \in Seq(Mutations)
  /\ prompt \in [Regs -> {"none", "sent", "accepted", "rejected", "lost"}]
  /\ watch \in [Regs -> Watches]
  /\ closed \in {"no", "closing", "stopped"}
  /\ owed \in Regs \cup {0}

Known(w) == prompt[w] # "none"
\* Registered since the daemon started.
Fresh(w) == prompt[w] \in {"sent", "accepted", "rejected"}

\* How the fields of one watch go together.
WatchOK(w) ==
  /\ watch[w].pc \in {"none", "end"} => ~watch[w].live
  /\ watch[w].pc \in {"held", "recheck", "send", "ack"} => watch[w].out # "none"
  /\ watch[w].pc = "observe" => watch[w].out = "none"
  /\ watch[w].fails = RemoteTries => watch[w].out = "lost"
  /\ watch[w].pending => Fresh(w) /\ watch[w].pc \in {"wait", "end"} /\ ~watch[w].acked
WatchInv == \A w \in Regs : WatchOK(w)

\* Registrations come in the order of their numbers.
RegisterInv ==
  /\ \A w \in Regs : Known(w) => w <= asked
  /\ \A w \in Regs : ~Known(w) => watch[w] = NoWatch
  /\ \A r \in store : Known(r)
  /\ \A r, w \in Regs : prompt[r] = "lost" /\ Fresh(w) => r < w

\* A registration under way is newer than all that were written; a rejection under way was decided.
MutationInv ==
  /\ \A i \in DOMAIN mutations : mutations[i].op = "put" =>
       /\ mutations[i].w <= asked
       /\ \A v \in Regs : Known(v) => v < mutations[i].w
  /\ \A i, j \in DOMAIN mutations :
       mutations[i].op = "put" /\ mutations[j].op = "put" /\ i < j => mutations[i].w < mutations[j].w
  /\ \A i \in DOMAIN mutations : mutations[i].op = "reject" => prompt[mutations[i].w] = "rejected"

\* A candidate remembers every watch before it that still runs, and of those that run the first is
\* the only one past its decision.
BeforeInv == \A w \in Regs :
  /\ \A v \in watch[w].before : v < w /\ Known(v)
  /\ watch[w].pending => \A v \in Group : v < w => v \in watch[w].before
  /\ watch[w].live /\ ~watch[w].pending => \A v \in Group : ~(v < w)

\* A watch is for its own registration, or for those that a restart found.
RecordsInv == \A w \in Regs :
  /\ \A r \in watch[w].records : r = w \/ prompt[r] = "lost"
  /\ Fresh(w) => watch[w].records \subseteq {w}
  /\ watch[w].live /\ watch[w].pending => w \in store

\* No registration of a watch that runs is about to be removed.
DropInv == \A i \in DOMAIN mutations : \A r \in mutations[i].drop :
  prompt[r] = "lost" \/ (Known(r) /\ ~watch[r].live)

\* What is owed was accepted, is on disk and will not be removed; a candidate stopped by a later one
\* came before it.
OwedInv ==
  /\ IntentKept
  /\ owed # 0 => prompt[owed] \in {"accepted", "lost"}
  /\ \A i \in DOMAIN mutations : owed \notin mutations[i].drop
  /\ closed = "no" => \A w \in Regs :
       prompt[w] = "sent" /\ watch[w].pending /\ ~watch[w].live =>
         /\ owed = 0 \/ w < owed
         /\ \A v \in Group : ~(v < w)

Notice(i, w) == admitted[i].from = w /\ admitted[i].what \in {"finish", "lost"}

\* What a watch may remove, or told of, is owed no more.
ToldInv == \A w \in Regs :
  /\ watch[w].pc = "remove" \/ watch[w].acked => owed \notin watch[w].records
  /\ \A i \in Range(handed) : Notice(i, w) => owed \notin watch[w].records

\* Of the notices of a watch at most one was not refused.
NoticeInv ==
  /\ \A i \in DOMAIN admitted : admitted[i].from \in Regs \cup {Other}
  /\ \A w \in Regs :
       /\ \A i \in DOMAIN admitted : admitted[i].from = w => Known(w) /\ ~watch[w].pending
       /\ watch[w].pc = "ack" => /\ watch[w].msg \in DOMAIN admitted
                                 /\ admitted[watch[w].msg].from = w
                                 /\ admitted[watch[w].msg].what = watch[w].out
       /\ \A i, j \in DOMAIN admitted \ refused : Notice(i, w) /\ Notice(j, w) => i = j
       /\ watch[w].pc \notin {"ack", "end"} /\ ~watch[w].acked =>
            \A i \in DOMAIN admitted \ refused : ~Notice(i, w)
       /\ watch[w].pc = "ack" =>
            \A i \in DOMAIN admitted \ refused : Notice(i, w) => i = watch[w].msg

RegistryInv == RegisterInv /\ MutationInv /\ BeforeInv /\ RecordsInv /\ DropInv /\ OwedInv

FinishInv == MessagesInv /\ Shape /\ WatchInv /\ RegistryInv /\ ToldInv /\ NoticeInv

-----------------------------------------------------------------------------
(* The beginning *)

LEMMA NoWatchTyped == NoWatch \in Watches
BY FinishAssumption DEF NoWatch, Watches

LEMMA RegNat == MaxRegs \in Nat /\ Regs \subseteq Nat /\ \A w \in Regs : w # 0
BY FinishAssumption DEF Regs

LEMMA MutationTyped ==
  ASSUME Shape
  PROVE  \A i \in DOMAIN mutations :
           /\ mutations[i] \in Mutations /\ mutations[i].w \in Regs
           /\ mutations[i].drop \subseteq Regs /\ 0 \notin mutations[i].drop
<1>1. \A i \in DOMAIN mutations : mutations[i] \in Mutations
  BY DEF Shape
<1>2. \A m \in Mutations : m.w \in Regs /\ m.drop \subseteq Regs
  BY DEF Mutations
<1> QED BY <1>1, <1>2, RegNat

LEMMA FinishStart == FinishInit => FinishInv
<1> SUFFICES ASSUME FinishInit PROVE FinishInv
  OBVIOUS
<1>1. MessagesInv /\ admitted = <<>> /\ handed = <<>>
  BY MessagesStart DEF FinishInit, MessagesInit
<1>2. /\ store = {} /\ mutations = <<>> /\ asked = 0 /\ closed = "no" /\ owed = 0
      /\ prompt = [w \in Regs |-> "none"]
      /\ watch = [w \in Regs |-> NoWatch]
  BY DEF FinishInit
<1>3. Shape
  BY <1>2, NoWatchTyped, RegNat DEF Shape
<1>4. \A w \in Regs : watch[w] = NoWatch /\ ~Known(w) /\ ~Fresh(w) /\ prompt[w] # "lost"
  BY <1>2 DEF Known, Fresh
<1>5. WatchInv
  <2>1. NoWatch.fails = 0 /\ RemoteTries # 0
    BY FinishAssumption DEF NoWatch
  <2> QED BY <1>4, <2>1 DEF WatchInv, WatchOK, NoWatch
<1>6. RegisterInv /\ MutationInv /\ BeforeInv /\ RecordsInv
  BY <1>2, <1>4 DEF RegisterInv, MutationInv, BeforeInv, RecordsInv, NoWatch, Group
<1>7. DropInv /\ OwedInv
  BY <1>2, <1>4 DEF DropInv, OwedInv, IntentKept, NoWatch
<1>8. ToldInv /\ NoticeInv
  BY <1>1, <1>4 DEF ToldInv, NoticeInv, NoWatch, Range
<1> QED BY <1>1, <1>3, <1>5, <1>6, <1>7, <1>8 DEF FinishInv, RegistryInv

-----------------------------------------------------------------------------
(* Steps of one watch *)

\* A watch goes on or ends: what the registry knows of it stays, and no candidate stops.
Moves(w) ==
  /\ UNCHANGED <<mutations, asked, prompt, closed>>
  /\ watch' \in [Regs -> Watches]
  /\ \A v \in Regs \ {w} : watch'[v] = watch[v]
  /\ watch'[w].records = watch[w].records
  /\ watch'[w].pending = watch[w].pending
  /\ watch'[w].before = watch[w].before
  /\ watch'[w].live => watch[w].live
  /\ watch[w].pending /\ watch[w].live => watch'[w].live

LEMMA MovesKeep ==
  ASSUME FinishInv, NEW w \in Regs, Known(w), Moves(w),
         store' \subseteq store,
         \A v \in store : watch[v].live /\ watch[v].pending => v \in store',
         owed' \in {owed, 0}, owed' # 0 => owed' \in store'
  PROVE  Shape' /\ RegistryInv'
<1>0. /\ Shape /\ RegisterInv /\ MutationInv /\ BeforeInv /\ RecordsInv /\ DropInv /\ OwedInv
  BY DEF FinishInv, RegistryInv
<1>1. \A v \in Regs : /\ watch'[v].records = watch[v].records
                      /\ watch'[v].pending = watch[v].pending
                      /\ watch'[v].before = watch[v].before
                      /\ watch'[v].live => watch[v].live
                      /\ watch[v].pending /\ watch[v].live => watch'[v].live
  BY DEF Moves
<1>2. UNCHANGED <<mutations, asked, prompt, closed>> /\ watch' \in [Regs -> Watches]
  BY DEF Moves
<1>3. \A v \in Regs : (Known(v)' <=> Known(v)) /\ (Fresh(v)' <=> Fresh(v))
  BY <1>2 DEF Known, Fresh
<1>4. Group' \subseteq Group
  BY <1>1 DEF Group
<1>5. Shape'
  BY <1>0, <1>2 DEF Shape
<1>6. RegisterInv'
  <2>1. \A v \in Regs : ~Known(v) => watch'[v] = NoWatch
    BY <1>0 DEF Moves, RegisterInv
  <2> QED BY <1>0, <1>2, <2>1 DEF RegisterInv, Known, Fresh
<1>7. MutationInv'
  BY <1>0, <1>2 DEF MutationInv, Known
<1>8. BeforeInv'
  <2>1. ASSUME NEW v \in Regs
        PROVE  /\ \A u \in watch'[v].before : u < v /\ Known(u)'
               /\ watch'[v].pending => \A u \in Group' : u < v => u \in watch'[v].before
               /\ watch'[v].live /\ ~watch'[v].pending => \A u \in Group' : ~(u < v)
    <3>1. \A u \in watch[v].before : u < v /\ Known(u)
      BY <1>0 DEF BeforeInv
    <3>2. \A u \in watch'[v].before : u < v /\ Known(u)'
      BY <1>1, <1>2, <3>1 DEF Known
    <3> QED BY <1>0, <1>1, <1>4, <3>2 DEF BeforeInv
  <2> QED BY <2>1 DEF BeforeInv
<1>9. RecordsInv'
  BY <1>0, <1>1, <1>2, <1>3 DEF RecordsInv
<1>10. DropInv'
  <2>1. \A i \in DOMAIN mutations : mutations[i].drop \subseteq Regs
    BY <1>0, MutationTyped
  <2> QED BY <1>0, <1>1, <1>2, <2>1 DEF DropInv, Known
<1>11. OwedInv'
  <2>1. IntentKept'
    BY DEF IntentKept
  <2>2. owed' # 0 => prompt'[owed'] \in {"accepted", "lost"}
    BY <1>0, <1>2 DEF OwedInv
  <2>3. \A i \in DOMAIN mutations' : owed' \notin mutations'[i].drop
    <3>1. \A i \in DOMAIN mutations : 0 \notin mutations[i].drop
      BY <1>0, MutationTyped
    <3> QED BY <1>0, <1>2, <3>1 DEF OwedInv
  <2>4. ASSUME closed' = "no", NEW v \in Regs,
               prompt'[v] = "sent", watch'[v].pending, ~watch'[v].live
        PROVE  (owed' = 0 \/ v < owed') /\ \A u \in Group' : ~(u < v)
    <3>1. closed = "no" /\ prompt[v] = "sent" /\ watch[v].pending /\ ~watch[v].live
      BY <1>1, <1>2, <2>4
    <3> QED BY <1>0, <1>4, <3>1 DEF OwedInv
  <2> QED BY <2>1, <2>2, <2>3, <2>4 DEF OwedInv
<1> QED BY <1>5, <1>6, <1>7, <1>8, <1>9, <1>10, <1>11 DEF RegistryInv

\* Ending, and going on, are such steps.
LEMMA EndMoves ==
  ASSUME FinishInv, NEW w \in Regs, End(w), ~watch[w].pending \/ ~watch[w].live,
         UNCHANGED <<mutations, asked, prompt, closed>>
  PROVE  /\ Moves(w)
         /\ watch'[w].pc = "end" /\ ~watch'[w].live /\ ~watch'[w].acked
         /\ watch'[w].out = "none" /\ watch'[w].fails = 0
<1>1. watch \in [Regs -> Watches]
  BY DEF FinishInv, Shape
<1> DEFINE e == [NoWatch EXCEPT !.pc = "end", !.records = watch[w].records,
                                !.pending = watch[w].pending, !.before = watch[w].before]
<1>2. watch' = [watch EXCEPT ![w] = e]
  BY DEF End
<1>3. watch[w] \in Watches
  BY <1>1
<1>4. /\ e \in Watches
      /\ e.records = watch[w].records /\ e.pending = watch[w].pending /\ e.before = watch[w].before
      /\ e.pc = "end" /\ ~e.live /\ ~e.acked /\ e.out = "none" /\ e.fails = 0
  <2>1. /\ watch[w].pending \in BOOLEAN /\ watch[w].before \in SUBSET Regs
        /\ watch[w].records \in SUBSET Regs
    BY <1>3 DEF Watches
  <2>2. /\ e \in Watches
        /\ e.pc = "end" /\ e.records = watch[w].records /\ e.pending = watch[w].pending
        /\ e.before = watch[w].before
        /\ e.live = NoWatch.live /\ e.acked = NoWatch.acked /\ e.out = NoWatch.out
        /\ e.fails = NoWatch.fails
    BY <2>1, NoWatchTyped DEF Watches
  <2>3. ~NoWatch.live /\ ~NoWatch.acked /\ NoWatch.out = "none" /\ NoWatch.fails = 0
    BY DEF NoWatch
  <2> HIDE DEF e
  <2> QED BY <2>2, <2>3
<1> HIDE DEF e
<1>5. watch'[w] = e /\ watch' \in [Regs -> Watches] /\ \A v \in Regs \ {w} : watch'[v] = watch[v]
  BY <1>1, <1>2, <1>4
<1> QED BY <1>4, <1>5 DEF Moves

LEMMA GoMoves ==
  ASSUME FinishInv, NEW w \in Regs, NEW pc, Go(w, pc),
         pc \in {"observe", "held", "recheck", "send", "ack", "remove", "check"},
         UNCHANGED <<mutations, asked, prompt, closed>>
  PROVE  Moves(w) /\ watch'[w] = [watch[w] EXCEPT !.pc = pc]
<1>1. watch \in [Regs -> Watches] /\ watch[w] \in Watches
  BY DEF FinishInv, Shape
<1>2. [watch[w] EXCEPT !.pc = pc] \in Watches
  BY <1>1 DEF Watches
<1>3. watch' = [watch EXCEPT ![w] = [watch[w] EXCEPT !.pc = pc]]
  BY <1>1 DEF Go
<1> QED BY <1>1, <1>2, <1>3 DEF Moves, Watches

\* A watch that is not about to tell and has not told has no notice that was not refused.
Untold(w) == \A i \in DOMAIN admitted \ refused : ~Notice(i, w)

LEMMA StepKeeps ==
  ASSUME FinishInv, NEW w \in Regs, Known(w), Moves(w), UNCHANGED messageVars,
         store' \subseteq store,
         \A v \in store : watch[v].live /\ watch[v].pending => v \in store',
         owed' \in {owed, 0}, owed' # 0 => owed' \in store',
         WatchOK(w)', watch'[w].pc # "ack",
         watch'[w].pc = "remove" \/ watch'[w].acked => owed' \notin watch[w].records,
         watch'[w].pc # "end" /\ ~watch'[w].acked => Untold(w)
  PROVE  FinishInv'
<1>0. MessagesInv /\ Shape /\ WatchInv /\ ToldInv /\ NoticeInv
  BY DEF FinishInv
<1>1. Shape' /\ RegistryInv'
  BY MovesKeep
<1>2. MessagesInv' /\ UNCHANGED <<admitted, handed, refused, prompt>>
  BY <1>0, OthersKeep DEF messageVars, Moves
<1>3. WatchInv'
  <2>1. \A v \in Regs \ {w} : WatchOK(v)'
    BY <1>0, <1>2 DEF WatchInv, WatchOK, Moves, Fresh
  <2> QED BY <2>1 DEF WatchInv
<1>4. \A v \in Regs : 0 \notin watch[v].records
  BY <1>0, RegNat DEF Shape, Watches
<1>5. ToldInv'
  <2>1. \A v \in Regs : watch'[v].records = watch[v].records
    BY DEF Moves
  <2>2. \A v \in Regs \ {w} : watch'[v] = watch[v]
    BY DEF Moves
  <2>3. \A i, v : Notice(i, v)' <=> Notice(i, v)
    BY <1>2 DEF Notice
  <2> QED BY <1>0, <1>2, <1>4, <2>1, <2>2, <2>3 DEF ToldInv
<1>6. NoticeInv'
  <2>1. \A i, v : Notice(i, v)' <=> Notice(i, v)
    BY <1>2 DEF Notice
  <2>2. \A v \in Regs : watch'[v].pending = watch[v].pending /\ (Known(v)' <=> Known(v))
    BY <1>2 DEF Moves, Known
  <2>3. \A v \in Regs \ {w} : watch'[v] = watch[v]
    BY DEF Moves
  <2> QED BY <1>0, <1>2, <2>1, <2>2, <2>3 DEF NoticeInv, Untold
<1> QED BY <1>1, <1>2, <1>3, <1>5, <1>6 DEF FinishInv

\* What the invariant says of one watch.
LEMMA OfOne ==
  ASSUME FinishInv, NEW w \in Regs
  PROVE  /\ watch \in [Regs -> Watches] /\ watch[w] \in Watches /\ WatchOK(w)
         /\ watch[w].pc # "none" => Known(w)
         /\ watch[w].pc \notin {"ack", "end"} /\ ~watch[w].acked => Untold(w)
         /\ watch[w].pc = "remove" \/ watch[w].acked => owed \notin watch[w].records
         /\ watch[w].pc \notin {"wait", "end"} => ~watch[w].pending
         /\ owed # 0 => owed \in store
         /\ 0 \notin watch[w].records
<1>0. Shape /\ WatchInv /\ RegisterInv /\ OwedInv /\ ToldInv /\ NoticeInv
  BY DEF FinishInv, RegistryInv
<1>1. watch \in [Regs -> Watches] /\ watch[w] \in Watches
  BY <1>0 DEF Shape
<1>2. WatchOK(w)
  BY <1>0 DEF WatchInv
<1>3. watch[w].pc # "none" => Known(w)
  BY <1>0 DEF RegisterInv, NoWatch
<1>4. 0 \notin watch[w].records
  BY <1>1, RegNat DEF Watches
<1> QED BY <1>0, <1>1, <1>2, <1>3, <1>4 DEF WatchOK, NoticeInv, Untold, ToldInv, OwedInv, IntentKept

LEMMA CheckKeeps ==
  ASSUME FinishInv, NEW w \in Regs, Check(w)
  PROVE  FinishInv'
<1>1. /\ watch[w].pc = "check" /\ UNCHANGED <<messageVars, mutations, asked, prompt, closed, store>>
      /\ \/ Suppress(w)
         \/ UNCHANGED owed /\ Go(w, IF watch[w].out = "none" THEN "observe" ELSE "held")
  BY DEF Check, At, Watching
<1>2. /\ watch[w] \in Watches /\ WatchOK(w) /\ Known(w) /\ ~watch[w].pending
      /\ ~watch[w].acked => Untold(w)
      /\ watch[w].acked => owed \notin watch[w].records
      /\ owed # 0 => owed \in store
      /\ 0 \notin watch[w].records
  BY <1>1, OfOne
<1>3. CASE Suppress(w)
  <2>1. Go(w, "remove") /\ owed' = IF owed \in watch[w].records THEN 0 ELSE owed
    BY <1>3 DEF Suppress
  <2>2. Moves(w) /\ watch'[w] = [watch[w] EXCEPT !.pc = "remove"]
    BY <1>1, <2>1, GoMoves
  <2>3. watch'[w].pc = "remove" /\ watch'[w].acked = watch[w].acked /\ WatchOK(w)'
    BY <1>2, <2>2 DEF Watches, WatchOK
  <2> QED BY <1>1, <1>2, <2>1, <2>2, <2>3, StepKeeps
<1>4. CASE UNCHANGED owed /\ Go(w, IF watch[w].out = "none" THEN "observe" ELSE "held")
  <2> DEFINE pc == IF watch[w].out = "none" THEN "observe" ELSE "held"
  <2>1. Moves(w) /\ watch'[w] = [watch[w] EXCEPT !.pc = pc]
    BY <1>1, <1>4, GoMoves
  <2>2. /\ watch'[w].pc = pc /\ watch'[w].acked = watch[w].acked /\ WatchOK(w)'
    BY <1>1, <1>2, <2>1 DEF Watches, WatchOK, Fresh
  <2> QED BY <1>1, <1>2, <1>4, <2>1, <2>2, StepKeeps
<1> QED BY <1>1, <1>3, <1>4

LEMMA SetMoves ==
  ASSUME FinishInv, NEW w \in Regs, NEW m \in Watches,
         watch' \in [Regs -> Watches], watch'[w] = m, \A v \in Regs \ {w} : watch'[v] = watch[v],
         m.records = watch[w].records, m.pending = watch[w].pending, m.before = watch[w].before,
         m.live = watch[w].live,
         UNCHANGED <<mutations, asked, prompt, closed>>
  PROVE  Moves(w)
BY DEF Moves

LEMMA ObserveKeeps ==
  ASSUME FinishInv, NEW w \in Regs, Observe(w)
  PROVE  FinishInv'
<1>1. PICK out \in {"permission", "finish"} :
        watch' = [watch EXCEPT ![w].out = out, ![w].pc = "held", ![w].fails = 0]
  BY DEF Observe
<1>2. watch[w].pc = "observe" /\ UNCHANGED <<messageVars, mutations, asked, prompt, closed, store, owed>>
  BY DEF Observe, At, Watching
<1>3. /\ watch \in [Regs -> Watches] /\ watch[w] \in Watches /\ WatchOK(w) /\ Known(w)
      /\ ~watch[w].pending
      /\ ~watch[w].acked => Untold(w)
      /\ watch[w].acked => owed \notin watch[w].records
      /\ owed # 0 => owed \in store
  BY <1>2, OfOne
<1> DEFINE m == [watch[w] EXCEPT !.out = out, !.pc = "held", !.fails = 0]
<1>4. /\ m \in Watches /\ m.records = watch[w].records /\ m.pending = watch[w].pending
      /\ m.before = watch[w].before /\ m.live = watch[w].live /\ m.acked = watch[w].acked
      /\ m.pc = "held" /\ m.out = out /\ m.fails = 0
  <2>1. 0 \in 0..RemoteTries /\ out \in {"none", "permission", "finish", "lost"}
    BY FinishAssumption
  <2> QED BY ONLY <1>3, <2>1 DEF Watches
<1>5. watch' = [watch EXCEPT ![w] = m]
  BY <1>1, <1>3
<1> HIDE DEF m
<1>6. watch'[w] = m /\ watch' \in [Regs -> Watches] /\ \A v \in Regs \ {w} : watch'[v] = watch[v]
  BY <1>3, <1>4, <1>5
<1>7. Moves(w)
  BY <1>2, <1>4, <1>6, SetMoves
<1>8. WatchOK(w)'
  BY <1>2, <1>3, <1>4, <1>6, FinishAssumption DEF WatchOK
<1> QED BY <1>2, <1>3, <1>4, <1>6, <1>7, <1>8, StepKeeps

\* The count of failures reaches its bound only with the outcome that the host is lost.
LEMMA ObserveFailsKeeps ==
  ASSUME FinishInv, NEW w \in Regs, ObserveFails(w)
  PROVE  FinishInv'
<1> DEFINE n == watch[w].fails + 1
           pc == IF n < RemoteTries THEN "check" ELSE "held"
           out == IF n < RemoteTries THEN "none" ELSE "lost"
<1>1. watch' = [watch EXCEPT ![w].fails = n, ![w].pc = pc, ![w].out = out]
  BY DEF ObserveFails
<1>2. watch[w].pc = "observe" /\ UNCHANGED <<messageVars, mutations, asked, prompt, closed, store, owed>>
  BY DEF ObserveFails, At, Watching
<1>3. /\ watch \in [Regs -> Watches] /\ watch[w] \in Watches /\ WatchOK(w) /\ Known(w)
      /\ ~watch[w].pending
      /\ ~watch[w].acked => Untold(w)
      /\ watch[w].acked => owed \notin watch[w].records
      /\ owed # 0 => owed \in store
  BY <1>2, OfOne
<1> DEFINE m == [watch[w] EXCEPT !.fails = n, !.pc = pc, !.out = out]
<1>4. n \in 0..RemoteTries /\ (n = RemoteTries => out = "lost")
  <2>1. watch[w].fails \in 0..RemoteTries /\ watch[w].fails # RemoteTries
    BY <1>2, <1>3 DEF Watches, WatchOK
  <2> QED BY <2>1, FinishAssumption
<1>5. pc \in {"check", "held"} /\ out \in {"none", "lost"} /\ (pc = "held" => out = "lost")
  OBVIOUS
<1>6. watch' = [watch EXCEPT ![w] = m]
  <2> HIDE DEF n, pc, out
  <2> QED BY <1>1, <1>3
<1> HIDE DEF n, pc, out
<1>7. /\ m \in Watches /\ m.records = watch[w].records /\ m.pending = watch[w].pending
      /\ m.before = watch[w].before /\ m.live = watch[w].live /\ m.acked = watch[w].acked
      /\ m.pc = pc /\ m.out = out /\ m.fails = n
  BY <1>3, <1>4, <1>5 DEF Watches
<1> HIDE DEF m
<1>8. watch'[w] = m /\ watch' \in [Regs -> Watches] /\ \A v \in Regs \ {w} : watch'[v] = watch[v]
  BY <1>3, <1>6, <1>7
<1>9. Moves(w)
  BY <1>2, <1>7, <1>8, SetMoves
<1>10. WatchOK(w)'
  BY <1>3, <1>4, <1>5, <1>7, <1>8 DEF WatchOK
<1> QED BY <1>2, <1>3, <1>5, <1>7, <1>8, <1>9, <1>10, StepKeeps

LEMMA HeldKeeps ==
  ASSUME FinishInv, NEW w \in Regs, Held(w)
  PROVE  FinishInv'
<1>1. /\ watch[w].pc = "held" /\ Go(w, "recheck")
      /\ UNCHANGED <<messageVars, mutations, asked, prompt, closed, store, owed>>
  BY DEF Held, At, Watching
<1>2. /\ watch[w] \in Watches /\ WatchOK(w) /\ Known(w) /\ ~watch[w].pending
      /\ ~watch[w].acked => Untold(w)
      /\ watch[w].acked => owed \notin watch[w].records
      /\ owed # 0 => owed \in store
  BY <1>1, OfOne
<1>3. Moves(w) /\ watch'[w] = [watch[w] EXCEPT !.pc = "recheck"]
  BY <1>1, GoMoves
<1>4. watch'[w].pc = "recheck" /\ watch'[w].acked = watch[w].acked /\ WatchOK(w)'
  BY <1>1, <1>2, <1>3 DEF Watches, WatchOK
<1> QED BY <1>1, <1>2, <1>3, <1>4, StepKeeps

LEMMA RecheckKeeps ==
  ASSUME FinishInv, NEW w \in Regs, Recheck(w)
  PROVE  FinishInv'
<1>1. /\ watch[w].pc = "recheck"
      /\ UNCHANGED <<messageVars, mutations, asked, prompt, closed, store>>
      /\ Suppress(w) \/ (UNCHANGED owed /\ Go(w, "send"))
  BY DEF Recheck, At, Watching
<1>2. /\ watch[w] \in Watches /\ WatchOK(w) /\ Known(w) /\ ~watch[w].pending
      /\ ~watch[w].acked => Untold(w)
      /\ watch[w].acked => owed \notin watch[w].records
      /\ owed # 0 => owed \in store
      /\ 0 \notin watch[w].records
  BY <1>1, OfOne
<1>3. CASE Suppress(w)
  <2>1. Go(w, "remove") /\ owed' = IF owed \in watch[w].records THEN 0 ELSE owed
    BY <1>3 DEF Suppress
  <2>2. Moves(w) /\ watch'[w] = [watch[w] EXCEPT !.pc = "remove"]
    BY <1>1, <2>1, GoMoves
  <2>3. watch'[w].pc = "remove" /\ watch'[w].acked = watch[w].acked /\ WatchOK(w)'
    BY <1>2, <2>2 DEF Watches, WatchOK
  <2> QED BY <1>1, <1>2, <2>1, <2>2, <2>3, StepKeeps
<1>4. CASE UNCHANGED owed /\ Go(w, "send")
  <2>1. Moves(w) /\ watch'[w] = [watch[w] EXCEPT !.pc = "send"]
    BY <1>1, <1>4, GoMoves
  <2>2. watch'[w].pc = "send" /\ watch'[w].acked = watch[w].acked /\ WatchOK(w)'
    BY <1>1, <1>2, <2>1 DEF Watches, WatchOK
  <2> QED BY <1>1, <1>2, <1>4, <2>1, <2>2, StepKeeps
<1> QED BY <1>1, <1>3, <1>4

LEMMA AcknowledgedWatchKeeps ==
  ASSUME FinishInv, NEW w \in Regs, Acknowledged(w)
  PROVE  FinishInv'
<1> DEFINE m == IF watch[w].out = "permission"
                THEN [watch[w] EXCEPT !.pc = "check", !.out = "none", !.msg = 0]
                ELSE [watch[w] EXCEPT !.pc = "remove", !.acked = TRUE, !.msg = 0]
<1>1. /\ watch[w].pc = "ack" /\ watch[w].msg \in Range(handed)
      /\ UNCHANGED <<messageVars, mutations, asked, prompt, closed, store, owed>>
      /\ watch' = [watch EXCEPT ![w] = m]
  BY DEF Acknowledged, At, Watching
<1>2. /\ watch \in [Regs -> Watches] /\ watch[w] \in Watches /\ WatchOK(w) /\ Known(w)
      /\ ~watch[w].pending
      /\ watch[w].acked => owed \notin watch[w].records
      /\ owed # 0 => owed \in store
  BY <1>1, OfOne
<1>3. /\ watch[w].msg \in DOMAIN admitted
      /\ admitted[watch[w].msg].from = w /\ admitted[watch[w].msg].what = watch[w].out
      /\ \A i \in DOMAIN admitted \ refused : Notice(i, w) => i = watch[w].msg
  BY <1>1 DEF FinishInv, NoticeInv
<1>4. /\ m \in Watches /\ m.records = watch[w].records /\ m.pending = watch[w].pending
      /\ m.before = watch[w].before /\ m.live = watch[w].live /\ m.fails = watch[w].fails
  BY <1>2 DEF Watches
<1>5. \/ /\ watch[w].out = "permission" /\ m.pc = "check" /\ m.out = "none" /\ m.acked = watch[w].acked
      \/ /\ watch[w].out # "permission" /\ m.pc = "remove" /\ m.out = watch[w].out /\ m.acked
  BY <1>2 DEF Watches
<1> HIDE DEF m
<1>6. watch'[w] = m /\ watch' \in [Regs -> Watches] /\ \A v \in Regs \ {w} : watch'[v] = watch[v]
  BY <1>1, <1>2, <1>4
<1>7. Moves(w)
  BY <1>1, <1>4, <1>6, SetMoves
<1>8. WatchOK(w)'
  BY <1>2, <1>4, <1>5, <1>6 DEF WatchOK
<1>9. CASE watch[w].out = "permission"
  <2>1. Untold(w)
    BY <1>3, <1>9 DEF Untold, Notice
  <2> QED BY <1>1, <1>2, <1>5, <1>6, <1>7, <1>8, <1>9, <2>1, StepKeeps
<1>10. CASE watch[w].out # "permission"
  <2>1. watch[w].out \in {"finish", "lost"}
    BY <1>1, <1>2, <1>10 DEF Watches, WatchOK
  <2>2. owed \notin watch[w].records
    BY <1>1, <1>3, <2>1 DEF FinishInv, ToldInv, Notice
  <2> QED BY <1>1, <1>2, <1>5, <1>6, <1>7, <1>8, <1>10, <2>2, StepKeeps
<1> QED BY <1>9, <1>10

LEMMA RefusedKeeps ==
  ASSUME FinishInv, NEW w \in Regs, Refused(w)
  PROVE  FinishInv'
<1>1. /\ watch[w].pc = "ack" /\ watch[w].msg \in refused /\ Go(w, "check")
      /\ UNCHANGED <<messageVars, mutations, asked, prompt, closed, store, owed>>
  BY DEF Refused, At, Watching
<1>2. /\ watch[w] \in Watches /\ WatchOK(w) /\ Known(w) /\ ~watch[w].pending
      /\ watch[w].acked => owed \notin watch[w].records
      /\ owed # 0 => owed \in store
  BY <1>1, OfOne
<1>3. Untold(w)
  BY <1>1 DEF FinishInv, NoticeInv, Untold
<1>4. Moves(w) /\ watch'[w] = [watch[w] EXCEPT !.pc = "check"]
  BY <1>1, GoMoves
<1>5. watch'[w].pc = "check" /\ watch'[w].acked = watch[w].acked /\ WatchOK(w)'
  BY <1>1, <1>2, <1>4 DEF Watches, WatchOK
<1> QED BY <1>1, <1>2, <1>3, <1>4, <1>5, StepKeeps

\* A watch that ends keeps the invariant when it was stopped or had its decision.
LEMMA EndKeeps ==
  ASSUME FinishInv, NEW w \in Regs, watch[w].pc # "none", End(w), ~watch[w].pending \/ ~watch[w].live,
         UNCHANGED <<messageVars, mutations, asked, prompt, closed, store, owed>>
  PROVE  FinishInv'
<1>1. WatchOK(w) /\ Known(w) /\ (owed # 0 => owed \in store)
  BY OfOne
<1>2. /\ Moves(w) /\ watch'[w].pc = "end" /\ ~watch'[w].live /\ ~watch'[w].acked
      /\ watch'[w].out = "none" /\ watch'[w].fails = 0
  BY EndMoves
<1>3. WatchOK(w)'
  BY <1>1, <1>2, FinishAssumption DEF WatchOK, Moves, Fresh
<1> QED BY <1>1, <1>2, <1>3, StepKeeps

LEMMA StepFailsKeeps ==
  ASSUME FinishInv, NEW w \in Regs, StepFails(w)
  PROVE  FinishInv'
<1>1. /\ watch[w].pc \in {"check", "observe", "recheck", "send", "remove"}
      /\ UNCHANGED <<messageVars, mutations, asked, prompt, closed, store, owed>>
      /\ (watch[w].live /\ Go(w, "check")) \/ (~watch[w].live /\ End(w))
  BY DEF StepFails, Watching
<1>2. /\ watch[w] \in Watches /\ WatchOK(w) /\ Known(w) /\ ~watch[w].pending
      /\ ~watch[w].acked => Untold(w)
      /\ watch[w].acked => owed \notin watch[w].records
      /\ owed # 0 => owed \in store
  BY <1>1, OfOne
<1>3. CASE Go(w, "check")
  <2>1. Moves(w) /\ watch'[w] = [watch[w] EXCEPT !.pc = "check"]
    BY <1>1, <1>3, GoMoves
  <2>2. watch'[w].pc = "check" /\ watch'[w].acked = watch[w].acked /\ WatchOK(w)'
    BY <1>2, <2>1 DEF Watches, WatchOK
  <2> QED BY <1>1, <1>2, <2>1, <2>2, StepKeeps
<1>4. CASE End(w)
  BY <1>1, <1>2, <1>4, EndKeeps
<1> QED BY <1>1, <1>3, <1>4

\* What a watch removes is not owed, and belongs to no candidate.
LEMMA RemoveOwnKeeps ==
  ASSUME FinishInv, NEW w \in Regs, RemoveOwn(w)
  PROVE  FinishInv'
<1>1. /\ watch[w].pc = "remove"
      /\ UNCHANGED <<messageVars, mutations, asked, prompt, closed, owed>>
      /\ \/ End(w) /\ UNCHANGED store
         \/ \E r \in watch[w].records \cap store : store' = store \ {r} /\ UNCHANGED watch
  BY DEF RemoveOwn, Watching
<1>2. /\ watch \in [Regs -> Watches] /\ watch[w] \in Watches /\ WatchOK(w) /\ Known(w)
      /\ ~watch[w].pending
      /\ ~watch[w].acked => Untold(w)
      /\ owed \notin watch[w].records
      /\ owed # 0 => owed \in store
  BY <1>1, OfOne
<1>3. CASE End(w) /\ UNCHANGED store
  BY <1>1, <1>2, <1>3, EndKeeps
<1>4. CASE \E r \in watch[w].records \cap store : store' = store \ {r} /\ UNCHANGED watch
  <2>1. PICK r \in watch[w].records \cap store : store' = store \ {r} /\ UNCHANGED watch
    BY <1>4
  <2>2. Moves(w) /\ WatchOK(w)'
    BY <1>1, <1>2, <2>1 DEF Moves, WatchOK, Fresh
  <2>3. r = w \/ prompt[r] = "lost"
    BY <2>1 DEF FinishInv, RegistryInv, RecordsInv
  <2>4. store \subseteq Regs
    BY RegNat, FinishAssumption DEF FinishInv, Shape, Regs
  <2>5. ASSUME NEW v \in store, watch[v].pending PROVE v # r
    <3>1. Fresh(v)
      BY <2>4, <2>5 DEF FinishInv, WatchInv, WatchOK
    <3> QED BY <1>2, <2>3, <2>5, <3>1 DEF Fresh
  <2>6. owed # r
    BY <1>2, <2>1
  <2> QED BY <1>1, <1>2, <2>1, <2>2, <2>5, <2>6, StepKeeps
<1> QED BY <1>1, <1>3, <1>4

LEMMA StoppedKeeps ==
  ASSUME FinishInv, NEW w \in Regs, Stopped(w)
  PROVE  FinishInv'
<1>1. /\ ~watch[w].live /\ watch[w].pc # "none" /\ End(w)
      /\ UNCHANGED <<messageVars, mutations, asked, prompt, closed, store, owed>>
  BY DEF Stopped, Watching
<1> QED BY <1>1, EndKeeps

\* A notice goes out when those before it were refused.
LEMMA SendKeeps ==
  ASSUME FinishInv, NEW w \in Regs, Send(w)
  PROVE  FinishInv'
<1>5. PICK n : n = Len(admitted) + 1
  OBVIOUS
<1> DEFINE note == [from |-> w, what |-> watch[w].out, turn |-> "steer", mode |-> NoMode]
           m == [watch[w] EXCEPT !.pc = "ack", !.msg = n]
<1>0. MessagesInv /\ Shape /\ WatchInv /\ ToldInv /\ NoticeInv
  BY DEF FinishInv
<1>1. watch[w].pc = "send" /\ UNCHANGED <<mutations, asked, prompt, closed, store, owed>>
  BY DEF Send, At
<1>2. /\ watch \in [Regs -> Watches] /\ watch[w] \in Watches /\ WatchOK(w) /\ Known(w)
      /\ ~watch[w].pending
      /\ ~watch[w].acked => Untold(w)
      /\ watch[w].acked => owed \notin watch[w].records
      /\ owed # 0 => owed \in store
  BY <1>1, OfOne
<1>3. CASE watch[w].acked /\ Go(w, "remove") /\ UNCHANGED messageVars
  <2>1. Moves(w) /\ watch'[w] = [watch[w] EXCEPT !.pc = "remove"]
    BY <1>1, <1>3, GoMoves
  <2>2. watch'[w].pc = "remove" /\ watch'[w].acked = watch[w].acked /\ WatchOK(w)'
    BY <1>1, <1>2, <2>1 DEF Watches, WatchOK
  <2> QED BY <1>1, <1>2, <1>3, <2>1, <2>2, StepKeeps
<1>4. CASE /\ ~watch[w].acked /\ Enqueue(note)
           /\ watch' = [watch EXCEPT ![w].pc = "ack", ![w].msg = Len(admitted')]
  <2>1. note \in Message
    <3>1. watch[w].out \in {"permission", "finish", "lost"}
      BY <1>1, <1>2 DEF Watches, WatchOK
    <3>2. w \in Nat
      BY RegNat
    <3> QED BY <3>1, <3>2 DEF Message
  <2>2. note.from = w /\ note.what = watch[w].out
    OBVIOUS
  <2> HIDE DEF note
  <2>3. /\ MessagesInv'
        /\ Len(admitted') = n /\ DOMAIN admitted' = 1..n /\ admitted'[n] = note
        /\ \A i \in DOMAIN admitted : admitted'[i] = admitted[i]
    BY <1>0, <1>4, <1>5, <2>1, EnqueueKeeps
  <2>4. UNCHANGED <<handed, refused>>
    BY <1>4 DEF Enqueue
  <2>5. /\ n \in Nat /\ DOMAIN admitted = 1..Len(admitted) /\ n \notin DOMAIN admitted
        /\ Len(admitted) \in Nat /\ Range(handed) \subseteq DOMAIN admitted
    BY <1>0, <1>5, Positions DEF MessagesInv
  <2>6. DOMAIN admitted' = DOMAIN admitted \cup {n}
    BY <1>5, <2>3, <2>5
  <2>7. /\ m \in Watches /\ m.records = watch[w].records /\ m.pending = watch[w].pending
        /\ m.before = watch[w].before /\ m.live = watch[w].live /\ m.acked = watch[w].acked
        /\ m.pc = "ack" /\ m.msg = n /\ m.out = watch[w].out /\ m.fails = watch[w].fails
    BY <1>2, <2>5 DEF Watches
  <2>8. watch' = [watch EXCEPT ![w] = m]
    BY <1>2, <1>4, <2>3
  <2> HIDE DEF m
  <2>9. watch'[w] = m /\ watch' \in [Regs -> Watches] /\ \A v \in Regs \ {w} : watch'[v] = watch[v]
    BY <1>2, <2>7, <2>8
  <2>10. Moves(w)
    BY <1>1, <2>7, <2>9, SetMoves
  <2>11. Shape' /\ RegistryInv'
    BY <1>1, <1>2, <2>10, MovesKeep
  <2>12. WatchInv'
    <3>1. \A v \in Regs \ {w} : WatchOK(v)'
      BY <1>0, <1>1, <2>9 DEF WatchInv, WatchOK, Fresh
    <3>2. WatchOK(w)'
      BY <1>1, <1>2, <2>7, <2>9 DEF WatchOK
    <3> QED BY <3>1, <3>2 DEF WatchInv
  <2>13. \A i \in DOMAIN admitted, v \in Regs : Notice(i, v)' <=> Notice(i, v)
    BY <2>3 DEF Notice
  <2>14. \A v \in Regs \ {w} : ~Notice(n, v)'
    BY <2>2, <2>3 DEF Notice
  <2>15. ToldInv'
    <3>1. \A v \in Regs : /\ watch'[v].records = watch[v].records
                          /\ watch'[v].acked = watch[v].acked
                          /\ watch'[v].pc = "remove" => watch[v].pc = "remove"
      BY <2>7, <2>9
    <3> QED BY <1>0, <1>1, <2>4, <2>5, <2>13, <3>1 DEF ToldInv
  <2>16. NoticeInv'
    <3>1. \A i \in DOMAIN admitted' : admitted'[i].from \in Regs \cup {Other}
      BY <1>0, <2>2, <2>3, <2>6 DEF NoticeInv
    <3>2. ASSUME NEW v \in Regs, v # w
          PROVE  /\ \A i \in DOMAIN admitted' : admitted'[i].from = v => Known(v)' /\ ~watch'[v].pending
                 /\ watch'[v].pc = "ack" => /\ watch'[v].msg \in DOMAIN admitted'
                                            /\ admitted'[watch'[v].msg].from = v
                                            /\ admitted'[watch'[v].msg].what = watch'[v].out
                 /\ \A i, j \in DOMAIN admitted' \ refused' : Notice(i, v)' /\ Notice(j, v)' => i = j
                 /\ watch'[v].pc \notin {"ack", "end"} /\ ~watch'[v].acked =>
                      \A i \in DOMAIN admitted' \ refused' : ~Notice(i, v)'
                 /\ watch'[v].pc = "ack" =>
                      \A i \in DOMAIN admitted' \ refused' : Notice(i, v)' => i = watch'[v].msg
      <4>1. watch'[v] = watch[v] /\ (Known(v)' <=> Known(v)) /\ admitted'[n].from # v
        BY <1>1, <2>2, <2>3, <2>9, <3>2 DEF Known
      <4>2. \A i \in DOMAIN admitted' : admitted'[i].from = v \/ Notice(i, v)' =>
              i \in DOMAIN admitted /\ admitted'[i] = admitted[i] /\ (Notice(i, v)' <=> Notice(i, v))
        BY <2>3, <2>6, <2>13, <2>14, <3>2, <4>1
      <4>3. \A i \in DOMAIN admitted' : admitted'[i].from = v => Known(v)' /\ ~watch'[v].pending
        BY <1>0, <4>1, <4>2 DEF NoticeInv
      <4>4. watch'[v].pc = "ack" => /\ watch'[v].msg \in DOMAIN admitted'
                                    /\ admitted'[watch'[v].msg].from = v
                                    /\ admitted'[watch'[v].msg].what = watch'[v].out
        <5>1. watch[v].pc = "ack" => /\ watch[v].msg \in DOMAIN admitted
                                     /\ admitted[watch[v].msg].from = v
                                     /\ admitted[watch[v].msg].what = watch[v].out
          BY <1>0, <3>2 DEF NoticeInv
        <5> QED BY <2>3, <2>6, <4>1, <5>1
      <4>5. /\ \A i, j \in DOMAIN admitted' \ refused' : Notice(i, v)' /\ Notice(j, v)' => i = j
            /\ watch'[v].pc \notin {"ack", "end"} /\ ~watch'[v].acked =>
                 \A i \in DOMAIN admitted' \ refused' : ~Notice(i, v)'
            /\ watch'[v].pc = "ack" =>
                 \A i \in DOMAIN admitted' \ refused' : Notice(i, v)' => i = watch'[v].msg
        BY <1>0, <2>4, <4>1, <4>2 DEF NoticeInv
      <4> QED BY <4>3, <4>4, <4>5
    <3>3. /\ Known(w)' /\ ~watch'[w].pending
          /\ watch'[w].pc = "ack" /\ watch'[w].msg = n
          /\ n \in DOMAIN admitted' /\ admitted'[n].from = w /\ admitted'[n].what = watch'[w].out
      BY <1>1, <1>2, <2>2, <2>3, <2>6, <2>7, <2>9 DEF Known
    <3>4. \A i \in DOMAIN admitted' \ refused' : Notice(i, w)' => i = n
      BY <1>2, <1>4, <2>4, <2>6, <2>13 DEF Untold
    <3> QED BY <3>1, <3>2, <3>3, <3>4 DEF NoticeInv
  <2> QED BY <2>3, <2>11, <2>12, <2>15, <2>16 DEF FinishInv
<1> QED BY <1>3, <1>4 DEF Send

-----------------------------------------------------------------------------
(* Steps of the registry *)

LEMMA MutationAppended ==
  ASSUME Shape, NEW m \in Mutations, mutations' = Append(mutations, m)
  PROVE  /\ mutations' \in Seq(Mutations)
         /\ \A i \in DOMAIN mutations' :
              \/ i \in DOMAIN mutations /\ mutations'[i] = mutations[i]
              \/ mutations'[i] = m /\ \A j \in DOMAIN mutations' : ~(i < j)
<1>1. mutations \in Seq(Mutations)
  BY DEF Shape
<1>2. /\ mutations' \in Seq(Mutations) /\ Len(mutations) \in Nat
      /\ DOMAIN mutations = 1..Len(mutations) /\ DOMAIN mutations' = 1..(Len(mutations) + 1)
      /\ mutations'[Len(mutations) + 1] = m
      /\ \A i \in 1..Len(mutations) : mutations'[i] = mutations[i]
  BY <1>1, AppendProperties
<1> QED BY <1>2

LEMMA MutationDone ==
  ASSUME Shape, mutations # <<>>, mutations' = Tail(mutations)
  PROVE  /\ mutations' \in Seq(Mutations) /\ 1 \in DOMAIN mutations
         /\ \A i \in DOMAIN mutations' : /\ i + 1 \in DOMAIN mutations /\ 1 < i + 1
                                         /\ mutations'[i] = mutations[i + 1]
         /\ \A i, j \in DOMAIN mutations' : i < j => i + 1 < j + 1
<1>1. mutations \in Seq(Mutations)
  BY DEF Shape
<1>2. /\ mutations' \in Seq(Mutations) /\ Len(mutations) \in Nat \ {0}
      /\ DOMAIN mutations = 1..Len(mutations) /\ DOMAIN mutations' = 1..(Len(mutations) - 1)
      /\ \A i \in 1..(Len(mutations) - 1) : mutations'[i] = mutations[i + 1]
  BY <1>1, HeadTailProperties
<1> QED BY <1>2

LEMMA MutationChanged ==
  ASSUME Shape, mutations # <<>>, NEW m \in Mutations, mutations' = [mutations EXCEPT ![1] = m]
  PROVE  /\ mutations' \in Seq(Mutations) /\ 1 \in DOMAIN mutations
         /\ DOMAIN mutations' = DOMAIN mutations /\ mutations'[1] = m
         /\ \A i \in DOMAIN mutations : i # 1 => mutations'[i] = mutations[i]
<1>1. mutations \in Seq(Mutations) /\ 1 \in DOMAIN mutations
  BY DEF Shape
<1> QED BY <1>1

\* What the notices say of a watch stays true when its telling is not touched.
LEMMA NoticeKeeps ==
  ASSUME NoticeInv, UNCHANGED <<admitted, refused>>,
         \A v \in Regs : Known(v) => Known(v)',
         \A v \in Regs : watch'[v].pending => watch[v].pending \/ ~Known(v),
         \A v \in Regs :
           \/ /\ watch'[v].pc = watch[v].pc /\ watch'[v].acked = watch[v].acked
              /\ watch'[v].msg = watch[v].msg /\ watch'[v].out = watch[v].out
           \/ watch'[v].pc # "ack" /\ Untold(v)
  PROVE  NoticeInv'
<1>1. \A i, v : Notice(i, v)' <=> Notice(i, v)
  BY DEF Notice
<1>2. \A i \in DOMAIN admitted' : admitted'[i].from \in Regs \cup {Other}
  BY DEF NoticeInv
<1>3. ASSUME NEW v \in Regs
      PROVE  /\ \A i \in DOMAIN admitted' : admitted'[i].from = v => Known(v)' /\ ~watch'[v].pending
             /\ \A i, j \in DOMAIN admitted' \ refused' : Notice(i, v)' /\ Notice(j, v)' => i = j
  BY <1>1 DEF NoticeInv
<1>4. ASSUME NEW v \in Regs,
             watch'[v].pc = watch[v].pc /\ watch'[v].acked = watch[v].acked,
             watch'[v].msg = watch[v].msg /\ watch'[v].out = watch[v].out
      PROVE  /\ watch'[v].pc = "ack" => /\ watch'[v].msg \in DOMAIN admitted'
                                        /\ admitted'[watch'[v].msg].from = v
                                        /\ admitted'[watch'[v].msg].what = watch'[v].out
             /\ watch'[v].pc \notin {"ack", "end"} /\ ~watch'[v].acked =>
                  \A i \in DOMAIN admitted' \ refused' : ~Notice(i, v)'
             /\ watch'[v].pc = "ack" =>
                  \A i \in DOMAIN admitted' \ refused' : Notice(i, v)' => i = watch'[v].msg
  BY <1>1, <1>4 DEF NoticeInv
<1>5. ASSUME NEW v \in Regs, watch'[v].pc # "ack", Untold(v)
      PROVE  \A i \in DOMAIN admitted' \ refused' : ~Notice(i, v)'
  BY <1>1, <1>5 DEF Untold
<1> QED BY <1>2, <1>3, <1>4, <1>5 DEF NoticeInv

LEMMA ToldKeeps ==
  ASSUME ToldInv, Shape, UNCHANGED <<admitted, handed>>, owed' \in {owed, 0},
         \A v \in Regs : /\ watch'[v].records = watch[v].records
                         /\ watch'[v].acked => watch[v].acked
                         /\ watch'[v].pc = "remove" => watch[v].pc = "remove"
  PROVE  ToldInv'
<1>1. \A i, v : Notice(i, v)' <=> Notice(i, v)
  BY DEF Notice
<1>2. \A v \in Regs : 0 \notin watch[v].records
  BY RegNat DEF Shape, Watches
<1> QED BY <1>1, <1>2 DEF ToldInv

\* Writing and removing registrations leaves the watches, and what they told, alone.
LEMMA OnlyMutations ==
  ASSUME FinishInv, UNCHANGED <<messageVars, prompt, watch, closed, owed>>
  PROVE  MessagesInv' /\ WatchInv' /\ BeforeInv' /\ ToldInv' /\ NoticeInv'
<1>0. MessagesInv /\ Shape /\ WatchInv /\ BeforeInv /\ ToldInv /\ NoticeInv
  BY DEF FinishInv, RegistryInv
<1>1. WatchInv' /\ BeforeInv'
  BY <1>0 DEF WatchInv, WatchOK, BeforeInv, Known, Fresh, Group
<1>2. UNCHANGED <<admitted, handed, refused>>
  BY DEF messageVars
<1>3. \A v \in Regs : Known(v) => Known(v)'
  BY DEF Known
<1>4. ToldInv' /\ NoticeInv'
  BY <1>0, <1>2, <1>3, ToldKeeps, NoticeKeeps
<1> QED BY <1>0, <1>1, <1>4, OthersKeep

LEMMA AskRegisterKeeps ==
  ASSUME FinishInv, AskRegister
  PROVE  FinishInv'
<1>0. /\ MessagesInv /\ Shape /\ WatchInv /\ RegisterInv /\ MutationInv /\ BeforeInv /\ RecordsInv
      /\ DropInv /\ OwedInv /\ ToldInv /\ NoticeInv
  BY DEF FinishInv, RegistryInv
<1> DEFINE m == [op |-> "put", w |-> asked + 1, drop |-> {}]
<1>1. /\ asked < MaxRegs /\ asked' = asked + 1 /\ mutations' = Append(mutations, m)
      /\ UNCHANGED <<messageVars, store, prompt, watch, closed, owed>>
  BY DEF AskRegister
<1>2. asked \in Nat /\ asked + 1 \in Regs /\ asked' \in 0..MaxRegs
  BY <1>0, <1>1, FinishAssumption DEF Shape, Regs
<1>3. m \in Mutations /\ m.op = "put" /\ m.w = asked + 1 /\ m.drop = {}
  BY <1>2 DEF Mutations
<1> HIDE DEF m
<1>4. /\ mutations' \in Seq(Mutations)
      /\ \A i \in DOMAIN mutations' :
           \/ i \in DOMAIN mutations /\ mutations'[i] = mutations[i]
           \/ mutations'[i] = m /\ \A j \in DOMAIN mutations' : ~(i < j)
  BY <1>0, <1>1, <1>3, MutationAppended
<1>5. Shape'
  BY <1>0, <1>1, <1>2, <1>4 DEF Shape
<1>6. \A v \in Regs : Known(v)' <=> Known(v)
  BY <1>1 DEF Known
<1>7. RegisterInv'
  <2>1. \A v \in Regs : v \in Nat
    BY RegNat
  <2> QED BY <1>0, <1>1, <1>2, <2>1 DEF RegisterInv, Known, Fresh
<1>8. MutationInv'
  <2>1. \A i \in DOMAIN mutations : mutations[i].w \in Nat
    BY <1>0, MutationTyped, RegNat
  <2>2. \A v \in Regs : Known(v) => v < asked + 1
    BY <1>0, <1>2, RegNat DEF RegisterInv
  <2>3. ASSUME NEW i \in DOMAIN mutations', mutations'[i].op = "put"
        PROVE  mutations'[i].w <= asked' /\ \A v \in Regs : Known(v)' => v < mutations'[i].w
    <3>1. CASE i \in DOMAIN mutations /\ mutations'[i] = mutations[i]
      BY <1>0, <1>1, <1>2, <1>6, <2>1, <2>3, <3>1 DEF MutationInv
    <3>2. CASE mutations'[i] = m
      BY <1>1, <1>2, <1>3, <1>6, <2>2, <3>2
    <3> QED BY <1>4, <3>1, <3>2
  <2>4. ASSUME NEW i \in DOMAIN mutations', NEW j \in DOMAIN mutations',
               mutations'[i].op = "put", mutations'[j].op = "put", i < j
        PROVE  mutations'[i].w < mutations'[j].w
    <3>1. i \in DOMAIN mutations /\ mutations'[i] = mutations[i]
      BY <1>4, <2>4
    <3>2. CASE j \in DOMAIN mutations /\ mutations'[j] = mutations[j]
      BY <1>0, <2>4, <3>1, <3>2 DEF MutationInv
    <3>3. CASE mutations'[j] = m
      <4>1. mutations[i].w <= asked
        BY <1>0, <2>4, <3>1 DEF MutationInv
      <4> QED BY <1>2, <1>3, <2>1, <3>1, <3>3, <4>1
    <3> QED BY <1>4, <3>2, <3>3
  <2>5. \A i \in DOMAIN mutations' : mutations'[i].op = "reject" => prompt'[mutations'[i].w] = "rejected"
    BY <1>0, <1>1, <1>3, <1>4 DEF MutationInv
  <2> QED BY <2>3, <2>4, <2>5 DEF MutationInv
<1>9. DropInv'
  BY <1>0, <1>1, <1>3, <1>4 DEF DropInv, Known
<1>10. OwedInv'
  <2>1. \A i \in DOMAIN mutations' : owed' \notin mutations'[i].drop
    BY <1>0, <1>1, <1>3, <1>4 DEF OwedInv
  <2> QED BY <1>0, <1>1, <2>1 DEF OwedInv, IntentKept, Group
<1>11. RecordsInv'
  BY <1>0, <1>1 DEF RecordsInv, Fresh
<1> QED BY <1>1, <1>5, <1>7, <1>8, <1>9, <1>10, <1>11, OnlyMutations DEF FinishInv, RegistryInv

\* A mutation is done; what it did to the disk stays.
LEMMA DoneKeeps ==
  ASSUME FinishInv, mutations # <<>>, mutations' = Tail(mutations),
         UNCHANGED <<messageVars, store, asked, prompt, watch, closed, owed>>
  PROVE  FinishInv'
<1>0. /\ Shape /\ RegisterInv /\ MutationInv /\ RecordsInv /\ DropInv /\ OwedInv
  BY DEF FinishInv, RegistryInv
<1>1. /\ mutations' \in Seq(Mutations) /\ 1 \in DOMAIN mutations
      /\ \A i \in DOMAIN mutations' : i + 1 \in DOMAIN mutations /\ mutations'[i] = mutations[i + 1]
      /\ \A i, j \in DOMAIN mutations' : i < j => i + 1 < j + 1
  BY <1>0, MutationDone
<1>2. Shape' /\ RegisterInv' /\ RecordsInv'
  BY <1>0, <1>1 DEF Shape, RegisterInv, RecordsInv, Known, Fresh
<1>3. MutationInv' /\ DropInv'
  BY <1>0, <1>1 DEF MutationInv, DropInv, Known
<1>4. OwedInv'
  BY <1>0, <1>1 DEF OwedInv, IntentKept, Group
<1> QED BY <1>2, <1>3, <1>4, OnlyMutations DEF FinishInv, RegistryInv

\* A registration that is removed is not owed, and no candidate's.
LEMMA DropKeeps ==
  ASSUME FinishInv, Drop
  PROVE  FinishInv'
<1>0. /\ Shape /\ WatchInv /\ RegisterInv /\ MutationInv /\ RecordsInv /\ DropInv /\ OwedInv
  BY DEF FinishInv, RegistryInv
<1>1. /\ mutations # <<>> /\ mutations[1].op = "drop"
      /\ UNCHANGED <<messageVars, asked, prompt, watch, closed, owed>>
      /\ \/ mutations' = Tail(mutations) /\ UNCHANGED store
         \/ \E r \in mutations[1].drop :
              /\ store' = store \ {r}
              /\ mutations' = [mutations EXCEPT ![1].drop = @ \ {r}]
  BY DEF Drop, Turn
<1>2. CASE mutations' = Tail(mutations) /\ UNCHANGED store
  BY <1>1, <1>2, DoneKeeps
<1>3. CASE \E r \in mutations[1].drop :
             /\ store' = store \ {r}
             /\ mutations' = [mutations EXCEPT ![1].drop = @ \ {r}]
  <2>1. PICK r \in mutations[1].drop :
          /\ store' = store \ {r}
          /\ mutations' = [mutations EXCEPT ![1].drop = @ \ {r}]
    BY <1>3
  <2> DEFINE m == [mutations[1] EXCEPT !.drop = @ \ {r}]
  <2>2. mutations[1] \in Mutations /\ 1 \in DOMAIN mutations
    BY <1>0, <1>1 DEF Shape
  <2>3. /\ m \in Mutations /\ m.op = mutations[1].op /\ m.w = mutations[1].w
        /\ m.drop \subseteq mutations[1].drop
    BY <2>2 DEF Mutations
  <2>4. mutations' = [mutations EXCEPT ![1] = m]
    BY <2>1
  <2> HIDE DEF m
  <2>5. /\ mutations' \in Seq(Mutations)
        /\ DOMAIN mutations' = DOMAIN mutations /\ mutations'[1] = m
        /\ \A i \in DOMAIN mutations : i # 1 => mutations'[i] = mutations[i]
    BY <1>0, <1>1, <2>3, <2>4, MutationChanged
  <2>6. \A i \in DOMAIN mutations : /\ mutations'[i].op = mutations[i].op
                                    /\ mutations'[i].w = mutations[i].w
                                    /\ mutations'[i].drop \subseteq mutations[i].drop
    BY <2>3, <2>5
  <2>7. Shape' /\ RegisterInv'
    BY <1>0, <1>1, <2>1, <2>5 DEF Shape, RegisterInv, Known, Fresh
  <2>8. MutationInv' /\ DropInv'
    BY <1>0, <1>1, <2>5, <2>6 DEF MutationInv, DropInv, Known
  <2>9. RecordsInv'
    <3>1. prompt[r] = "lost" \/ (Known(r) /\ ~watch[r].live)
      BY <1>0, <2>1, <2>2 DEF DropInv
    <3>2. \A v \in Regs : watch[v].live /\ watch[v].pending => v # r
      BY <1>0, <3>1 DEF WatchInv, WatchOK, Fresh
    <3> QED BY <1>0, <1>1, <2>1, <3>2 DEF RecordsInv, Fresh
  <2>10. OwedInv'
    <3>1. owed # r
      BY <1>0, <2>1, <2>2 DEF OwedInv
    <3>2. IntentKept'
      BY <1>0, <1>1, <2>1, <3>1 DEF OwedInv, IntentKept
    <3>3. \A i \in DOMAIN mutations' : owed' \notin mutations'[i].drop
      BY <1>0, <1>1, <2>5, <2>6 DEF OwedInv
    <3> QED BY <1>0, <1>1, <3>2, <3>3 DEF OwedInv, Group
  <2> QED BY <1>1, <2>7, <2>8, <2>9, <2>10, OnlyMutations DEF FinishInv, RegistryInv
<1> QED BY <1>1, <1>2, <1>3

\* Only this candidate stops; its removal, not yet under way, names nothing that is owed.
LEMMA RejectedStopsKeeps ==
  ASSUME FinishInv, RejectedStops
  PROVE  FinishInv'
<1>0. /\ MessagesInv /\ Shape /\ WatchInv /\ RegisterInv /\ MutationInv /\ BeforeInv /\ RecordsInv
      /\ DropInv /\ OwedInv /\ ToldInv /\ NoticeInv
  BY DEF FinishInv, RegistryInv
<1>1. PICK w : w = mutations[1].w
  OBVIOUS
<1> DEFINE m == [mutations[1] EXCEPT !.op = "drop", !.drop = watch[w].records]
<1>2. /\ mutations # <<>> /\ mutations[1].op = "reject"
      /\ watch' = [watch EXCEPT ![w].live = FALSE]
      /\ mutations' = [mutations EXCEPT ![1].op = "drop", ![1].drop = watch[w].records]
      /\ UNCHANGED <<messageVars, store, asked, prompt, closed, owed>>
  BY <1>1 DEF RejectedStops, Turn
<1>3. 1 \in DOMAIN mutations /\ mutations[1] \in Mutations /\ w \in Regs /\ prompt[w] = "rejected"
  <2>1. 1 \in DOMAIN mutations
    BY <1>0, <1>2 DEF Shape
  <2> QED BY <1>0, <1>1, <1>2, <2>1, MutationTyped DEF MutationInv
<1>4. watch \in [Regs -> Watches] /\ watch[w] \in Watches /\ watch[w].records \in SUBSET Regs
  BY <1>0, <1>3 DEF Shape, Watches
<1>5. m \in Mutations /\ m.op = "drop" /\ m.drop = watch[w].records
  BY <1>3, <1>4 DEF Mutations
<1>6. mutations' = [mutations EXCEPT ![1] = m]
  BY <1>2, <1>3
<1> HIDE DEF m
<1>7. /\ mutations' \in Seq(Mutations)
      /\ DOMAIN mutations' = DOMAIN mutations /\ mutations'[1] = m
      /\ \A i \in DOMAIN mutations : i # 1 => mutations'[i] = mutations[i]
  BY <1>0, <1>2, <1>5, <1>6, MutationChanged
<1>8. /\ watch' \in [Regs -> Watches] /\ watch'[w] = [watch[w] EXCEPT !.live = FALSE]
      /\ \A v \in Regs \ {w} : watch'[v] = watch[v]
  BY <1>2, <1>4, <1>3 DEF Watches
<1>9. \A v \in Regs :
        /\ watch'[v].records = watch[v].records /\ watch'[v].pending = watch[v].pending
        /\ watch'[v].before = watch[v].before /\ watch'[v].pc = watch[v].pc
        /\ watch'[v].acked = watch[v].acked /\ watch'[v].msg = watch[v].msg
        /\ watch'[v].out = watch[v].out /\ watch'[v].fails = watch[v].fails
        /\ watch'[v].live => watch[v].live
        /\ v # w => watch'[v].live = watch[v].live
  BY <1>4, <1>8 DEF Watches
<1>10. ~watch'[w].live /\ Group' \subseteq Group
  BY <1>4, <1>8, <1>9 DEF Group, Watches
<1>11. \A v \in Regs : (Known(v)' <=> Known(v)) /\ (Fresh(v)' <=> Fresh(v))
  BY <1>2 DEF Known, Fresh
<1>12. Shape' /\ WatchInv'
  BY <1>0, <1>2, <1>7, <1>8, <1>9, <1>11 DEF Shape, WatchInv, WatchOK
<1>13. RegisterInv'
  <2>1. \A v \in Regs : ~Known(v) => watch'[v] = NoWatch
    BY <1>0, <1>3, <1>8 DEF RegisterInv, Known
  <2> QED BY <1>0, <1>2, <2>1 DEF RegisterInv, Known, Fresh
<1>14. MutationInv'
  <2>1. \A i \in DOMAIN mutations' : mutations'[i].op \in {"put", "reject"} =>
          i \in DOMAIN mutations /\ mutations'[i] = mutations[i]
    BY <1>5, <1>7
  <2> QED BY <1>0, <1>2, <1>7, <1>11, <2>1 DEF MutationInv
<1>15. BeforeInv'
  <2>1. ASSUME NEW v \in Regs
        PROVE  /\ \A u \in watch'[v].before : u < v /\ Known(u)'
               /\ watch'[v].pending => \A u \in Group' : u < v => u \in watch'[v].before
               /\ watch'[v].live /\ ~watch'[v].pending => \A u \in Group' : ~(u < v)
    <3>1. \A u \in watch'[v].before : u < v /\ Known(u)'
      BY <1>0, <1>2, <1>9 DEF BeforeInv, Known
    <3> QED BY <1>0, <1>9, <1>10, <3>1 DEF BeforeInv
  <2> QED BY <2>1 DEF BeforeInv
<1>16. RecordsInv'
  BY <1>0, <1>2, <1>9, <1>11 DEF RecordsInv
<1>17. DropInv'
  <2>1. ASSUME NEW i \in DOMAIN mutations', NEW r \in mutations'[i].drop
        PROVE  prompt[r] = "lost" \/ (Known(r) /\ ~watch'[r].live)
    <3>1. CASE i = 1
      <4>1. r \in watch[w].records /\ r \in Regs
        BY <1>4, <1>5, <1>7, <2>1, <3>1
      <4> QED BY <1>0, <1>3, <1>10, <4>1 DEF RecordsInv, Known
    <3>2. CASE i # 1
      <4>1. r \in mutations[i].drop /\ r \in Regs /\ i \in DOMAIN mutations
        BY <1>0, <1>7, <2>1, <3>2, MutationTyped
      <4> QED BY <1>0, <1>9, <4>1 DEF DropInv
    <3> QED BY <3>1, <3>2
  <2> QED BY <1>2, <2>1 DEF DropInv, Known
<1>18. OwedInv'
  <2>1. owed \notin watch[w].records
    <3>1. watch[w].records \subseteq {w}
      BY <1>0, <1>3 DEF RecordsInv, Fresh
    <3>2. w # 0 /\ owed # w
      BY <1>0, <1>3, RegNat DEF OwedInv
    <3> QED BY <3>1, <3>2
  <2>2. \A i \in DOMAIN mutations' : owed' \notin mutations'[i].drop
    BY <1>0, <1>2, <1>5, <1>7, <2>1 DEF OwedInv
  <2>3. ASSUME closed' = "no", NEW v \in Regs,
               prompt'[v] = "sent", watch'[v].pending, ~watch'[v].live
        PROVE  (owed' = 0 \/ v < owed') /\ \A u \in Group' : ~(u < v)
    <3>1. closed = "no" /\ prompt[v] = "sent" /\ watch[v].pending /\ ~watch[v].live
      BY <1>2, <1>3, <1>9, <2>3
    <3> QED BY <1>0, <1>2, <1>10, <3>1 DEF OwedInv
  <2> QED BY <1>0, <1>2, <2>2, <2>3 DEF OwedInv, IntentKept
<1>19. ToldInv' /\ NoticeInv'
  <2>1. UNCHANGED <<admitted, handed, refused>>
    BY <1>2 DEF messageVars
  <2> QED BY <1>0, <1>2, <1>9, <1>11, <2>1, ToldKeeps, NoticeKeeps
<1>20. MessagesInv'
  BY <1>0, <1>2, OthersKeep
<1> QED BY <1>12, <1>13, <1>14, <1>15, <1>16, <1>17, <1>18, <1>19, <1>20 DEF FinishInv, RegistryInv

\* A registration is newer than all before it: nothing was told of it and nothing removes it.
LEMMA RegisterWritten ==
  ASSUME FinishInv, mutations # <<>>, mutations[1].op = "put", NEW w, w = mutations[1].w,
         mutations' = Tail(mutations),
         store' = store \cup {w},
         watch' = [watch EXCEPT ![w] =
           [NoWatch EXCEPT !.pc = "wait", !.live = TRUE, !.pending = TRUE,
                           !.before = Group, !.records = {w}]],
         prompt' = [prompt EXCEPT ![w] = "sent"],
         UNCHANGED <<messageVars, asked, closed, owed>>
  PROVE  FinishInv'
<1>0. /\ MessagesInv /\ Shape /\ WatchInv /\ RegisterInv /\ MutationInv /\ BeforeInv /\ RecordsInv
      /\ DropInv /\ OwedInv /\ ToldInv /\ NoticeInv
  BY DEF FinishInv, RegistryInv
<1>1. /\ mutations' \in Seq(Mutations) /\ 1 \in DOMAIN mutations
      /\ \A i \in DOMAIN mutations' : /\ i + 1 \in DOMAIN mutations /\ 1 < i + 1
                                      /\ mutations'[i] = mutations[i + 1]
      /\ \A i, j \in DOMAIN mutations' : i < j => i + 1 < j + 1
  BY <1>0, MutationDone
<1>2. w \in Regs /\ w <= asked /\ w \in Nat /\ asked \in Nat /\ w \in 1..asked
  <2>1. w \in Regs /\ w <= asked
    BY <1>0, <1>1, MutationTyped DEF MutationInv
  <2> QED BY <1>0, <2>1, FinishAssumption DEF Shape, Regs
<1>3. /\ \A v \in Regs : Known(v) => v < w
      /\ \A i \in DOMAIN mutations' : mutations'[i].op = "put" => w < mutations'[i].w
  BY <1>0, <1>1 DEF MutationInv
<1>4. ~Known(w)
  BY <1>2, <1>3
<1> DEFINE e == [NoWatch EXCEPT !.pc = "wait", !.live = TRUE, !.pending = TRUE,
                                !.before = Group, !.records = {w}]
<1>5. /\ e \in Watches /\ e.pc = "wait" /\ e.live /\ e.pending /\ e.before = Group /\ e.records = {w}
      /\ ~e.acked /\ e.out = "none" /\ e.fails = 0
  <2>1. Group \in SUBSET Regs /\ {w} \in SUBSET Regs
    BY <1>2 DEF Group
  <2>2. /\ e \in Watches /\ e.pc = "wait" /\ e.live /\ e.pending /\ e.before = Group /\ e.records = {w}
        /\ e.acked = NoWatch.acked /\ e.out = NoWatch.out /\ e.fails = NoWatch.fails
    BY <2>1, NoWatchTyped DEF Watches
  <2> HIDE DEF e
  <2> QED BY <2>2 DEF NoWatch
<1> HIDE DEF e
<1>6. /\ watch \in [Regs -> Watches] /\ watch' \in [Regs -> Watches] /\ watch'[w] = e
      /\ \A v \in Regs : v # w => watch'[v] = watch[v]
  <2>1. watch \in [Regs -> Watches] /\ watch' = [watch EXCEPT ![w] = e]
    BY <1>0 DEF Shape, e
  <2> QED BY <1>2, <1>5, <2>1
<1>7. /\ prompt'[w] = "sent" /\ \A v \in Regs : v # w => prompt'[v] = prompt[v]
      /\ prompt' \in [Regs -> {"none", "sent", "accepted", "rejected", "lost"}]
  BY <1>0, <1>2 DEF Shape
<1>8. /\ \A v \in Regs : v # w => (Known(v)' <=> Known(v)) /\ (Fresh(v)' <=> Fresh(v))
      /\ Known(w)' /\ Fresh(w)'
  BY <1>7 DEF Known, Fresh
<1>9. /\ watch[w] = NoWatch
      /\ \A v \in Regs : Known(v) => v # w
      /\ \A v \in Group : v \in Regs /\ Known(v) /\ v < w /\ v # w
  <2>1. \A v \in Regs : Known(v) => v # w
    BY <1>4
  <2>2. \A v \in Group : v \in Regs /\ Known(v)
    BY <1>0 DEF Group, RegisterInv, NoWatch
  <2> QED BY <1>0, <1>2, <1>3, <1>4, <2>1, <2>2 DEF RegisterInv
<1>10. Group' = Group \cup {w}
  BY <1>2, <1>5, <1>6 DEF Group
<1>11. Shape'
  BY <1>0, <1>1, <1>2, <1>6, <1>7 DEF Shape
<1>12. WatchInv'
  <2>1. WatchOK(w)'
    BY <1>5, <1>6, <1>8, FinishAssumption DEF WatchOK
  <2>2. \A v \in Regs : v # w => WatchOK(v)'
    BY <1>0, <1>6, <1>8 DEF WatchInv, WatchOK
  <2> QED BY <2>1, <2>2 DEF WatchInv
<1>13. RegisterInv'
  <2>1. \A v \in Regs : Known(v)' => v <= asked'
    BY <1>0, <1>2, <1>8 DEF RegisterInv
  <2>2. \A v \in Regs : ~Known(v)' => watch'[v] = NoWatch
    BY <1>0, <1>6, <1>8 DEF RegisterInv
  <2>3. \A r \in store' : Known(r)'
    <3>1. store \subseteq Regs
      BY <1>0, FinishAssumption DEF Shape, Regs
    <3> QED BY <1>0, <1>8, <3>1 DEF RegisterInv
  <2>4. \A r, v \in Regs : prompt'[r] = "lost" /\ Fresh(v)' => r < v
    <3>1. TAKE r, v \in Regs
    <3>2. prompt'[r] = "lost" => r # w /\ prompt[r] = "lost" /\ Known(r) /\ r < w
      BY <1>3, <1>7 DEF Known
    <3> QED BY <1>0, <1>8, <3>2 DEF RegisterInv
  <2> QED BY <2>1, <2>2, <2>3, <2>4 DEF RegisterInv
<1>14. MutationInv'
  <2>1. ASSUME NEW i \in DOMAIN mutations', mutations'[i].op = "put"
        PROVE  mutations'[i].w <= asked' /\ \A v \in Regs : Known(v)' => v < mutations'[i].w
    BY <1>0, <1>1, <1>3, <1>8, <2>1 DEF MutationInv
  <2>2. \A i, j \in DOMAIN mutations' :
          mutations'[i].op = "put" /\ mutations'[j].op = "put" /\ i < j
          => mutations'[i].w < mutations'[j].w
    BY <1>0, <1>1 DEF MutationInv
  <2>3. ASSUME NEW i \in DOMAIN mutations', mutations'[i].op = "reject"
        PROVE  prompt'[mutations'[i].w] = "rejected"
    <3>1. mutations'[i].w \in Regs /\ prompt[mutations'[i].w] = "rejected"
      BY <1>0, <1>1, <2>3, MutationTyped DEF MutationInv
    <3>2. mutations'[i].w # w
      BY <1>4, <3>1 DEF Known
    <3> QED BY <1>7, <3>1, <3>2
  <2> QED BY <2>1, <2>2, <2>3 DEF MutationInv
<1>15. BeforeInv'
  <2>1. ASSUME NEW v \in Regs, v # w
        PROVE  /\ \A u \in watch'[v].before : u < v /\ Known(u)'
               /\ watch'[v].pending => \A u \in Group' : u < v => u \in watch'[v].before
               /\ watch'[v].live /\ ~watch'[v].pending => \A u \in Group' : ~(u < v)
    <3>1. watch'[v] = watch[v] /\ watch[v].before \subseteq Regs
      BY <1>6, <2>1 DEF Watches
    <3>2. \A u \in watch'[v].before : u < v /\ Known(u)'
      BY <1>0, <1>8, <3>1 DEF BeforeInv
    <3>3. watch[v].pending \/ watch[v].live => ~(w < v)
      <4>1. watch[v].pending \/ watch[v].live => Known(v)
        BY <1>0 DEF RegisterInv, NoWatch
      <4> QED BY <1>2, <1>3, <4>1, RegNat
    <3> QED BY <1>0, <1>10, <3>1, <3>2, <3>3 DEF BeforeInv
  <2>2. /\ \A u \in watch'[w].before : u < w /\ Known(u)'
        /\ watch'[w].pending /\ watch'[w].live
        /\ \A u \in Group' : u < w => u \in watch'[w].before
    BY <1>2, <1>5, <1>6, <1>8, <1>9, <1>10
  <2> QED BY <2>1, <2>2 DEF BeforeInv
<1>16. RecordsInv'
  <2>1. ASSUME NEW v \in Regs, v # w
        PROVE  /\ \A r \in watch'[v].records : r = v \/ prompt'[r] = "lost"
               /\ Fresh(v)' => watch'[v].records \subseteq {v}
               /\ watch'[v].live /\ watch'[v].pending => v \in store'
    <3>1. watch'[v] = watch[v] /\ watch[v].records \subseteq Regs
      BY <1>6, <2>1 DEF Watches
    <3>2. \A r \in Regs : prompt[r] = "lost" => prompt'[r] = "lost"
      BY <1>4, <1>7 DEF Known
    <3> QED BY <1>0, <1>8, <2>1, <3>1, <3>2 DEF RecordsInv
  <2>2. watch'[w].records = {w} /\ w \in store'
    BY <1>5, <1>6
  <2> QED BY <2>1, <2>2 DEF RecordsInv
<1>17. DropInv'
  <2>1. ASSUME NEW i \in DOMAIN mutations', NEW r \in mutations'[i].drop
        PROVE  prompt'[r] = "lost" \/ (Known(r)' /\ ~watch'[r].live)
    <3>1. r \in Regs /\ (prompt[r] = "lost" \/ (Known(r) /\ ~watch[r].live))
      BY <1>0, <1>1, <2>1, MutationTyped DEF DropInv
    <3>2. r # w
      BY <1>4, <3>1 DEF Known
    <3> QED BY <1>6, <1>7, <1>8, <3>1, <3>2
  <2> QED BY <2>1 DEF DropInv
<1>18. OwedInv'
  <2>1. owed # 0 => owed \in Regs /\ owed # w /\ prompt'[owed] = prompt[owed]
    BY <1>0, <1>4, <1>7 DEF OwedInv, Known, Shape
  <2>2. ASSUME closed' = "no", NEW v \in Regs,
               prompt'[v] = "sent", watch'[v].pending, ~watch'[v].live
        PROVE  (owed' = 0 \/ v < owed') /\ \A u \in Group' : ~(u < v)
    <3>1. v # w
      BY <1>5, <1>6, <2>2
    <3>2. closed = "no" /\ prompt[v] = "sent" /\ watch[v].pending /\ ~watch[v].live
      BY <1>6, <1>7, <2>2, <3>1
    <3>3. v < w /\ ~(w < v)
      BY <1>2, <1>3, <3>2, RegNat DEF Known
    <3> QED BY <1>0, <1>10, <3>2, <3>3 DEF OwedInv
  <2> QED BY <1>0, <1>1, <2>1, <2>2 DEF OwedInv, IntentKept
<1>19. UNCHANGED <<admitted, handed, refused>>
  BY DEF messageVars
<1>20. /\ \A i \in DOMAIN admitted : admitted[i].from # w
       /\ Range(handed) \subseteq DOMAIN admitted
  BY <1>0, <1>2, <1>4, Positions DEF NoticeInv, MessagesInv
<1>21. Untold(w)
  BY <1>20 DEF Untold, Notice
<1>22. ToldInv'
  <2>1. \A i, v : Notice(i, v)' <=> Notice(i, v)
    BY <1>19 DEF Notice
  <2>2. \A i \in Range(handed) : ~Notice(i, w)
    BY <1>20 DEF Notice
  <2>3. watch'[w].pc # "remove" /\ ~watch'[w].acked
    BY <1>5, <1>6
  <2>4. Range(handed)' = Range(handed)
    BY <1>19
  <2>5. \A v \in Regs : v # w =>
          /\ watch'[v].pc = "remove" \/ watch'[v].acked => owed' \notin watch'[v].records
          /\ \A i \in Range(handed)' : Notice(i, v)' => owed' \notin watch'[v].records
    BY <1>0, <1>6, <2>1, <2>4 DEF ToldInv
  <2> QED BY <2>1, <2>2, <2>3, <2>4, <2>5 DEF ToldInv
<1>23. NoticeInv'
  <2>1. \A v \in Regs : Known(v) => Known(v)'
    BY <1>8
  <2>2. \A v \in Regs : watch'[v].pending => watch[v].pending \/ ~Known(v)
    BY <1>4, <1>6
  <2>3. \A v \in Regs :
           \/ /\ watch'[v].pc = watch[v].pc /\ watch'[v].acked = watch[v].acked
              /\ watch'[v].msg = watch[v].msg /\ watch'[v].out = watch[v].out
           \/ watch'[v].pc # "ack" /\ Untold(v)
    BY <1>5, <1>6, <1>21
  <2> QED BY <1>0, <1>19, <2>1, <2>2, <2>3, NoticeKeeps
<1>24. MessagesInv'
  BY <1>0, OthersKeep
<1> QED BY <1>11, <1>12, <1>13, <1>14, <1>15, <1>16, <1>17, <1>18, <1>22, <1>23, <1>24
        DEF FinishInv, RegistryInv

LEMMA RegisterKeeps ==
  ASSUME FinishInv, Register
  PROVE  FinishInv'
<1>1. PICK w : w = mutations[1].w
  OBVIOUS
<1>2. /\ mutations # <<>> /\ mutations[1].op = "put" /\ mutations' = Tail(mutations)
      /\ UNCHANGED <<messageVars, asked, closed, owed>>
      /\ \/ /\ store' = store \cup {w}
            /\ watch' = [watch EXCEPT ![w] =
                 [NoWatch EXCEPT !.pc = "wait", !.live = TRUE, !.pending = TRUE,
                                 !.before = Group, !.records = {w}]]
            /\ prompt' = [prompt EXCEPT ![w] = "sent"]
         \/ UNCHANGED <<store, watch, prompt>>
  BY <1>1, Zenon DEF Register, Turn
<1>3. CASE /\ store' = store \cup {w}
           /\ watch' = [watch EXCEPT ![w] =
                [NoWatch EXCEPT !.pc = "wait", !.live = TRUE, !.pending = TRUE,
                                !.before = Group, !.records = {w}]]
           /\ prompt' = [prompt EXCEPT ![w] = "sent"]
  BY <1>1, <1>2, <1>3, RegisterWritten, Zenon
<1>4. CASE UNCHANGED <<store, watch, prompt>>
  BY <1>2, <1>4, DoneKeeps
<1> QED BY <1>2, <1>3, <1>4, Zenon

-----------------------------------------------------------------------------
(* Answers to prompts *)

\* An answer makes nothing known, fresh or lost.
LEMMA AnswerKnown ==
  ASSUME Shape, NEW w \in Regs, prompt[w] \in {"sent", "accepted"},
         NEW a \in {"accepted", "rejected"}, prompt' = [prompt EXCEPT ![w] = a]
  PROVE  /\ prompt' \in [Regs -> {"none", "sent", "accepted", "rejected", "lost"}]
         /\ prompt'[w] = a /\ \A v \in Regs : v # w => prompt'[v] = prompt[v]
         /\ \A v \in Regs : /\ Known(v)' <=> Known(v)
                            /\ Fresh(v)' <=> Fresh(v)
                            /\ prompt'[v] = "lost" <=> prompt[v] = "lost"
                            /\ prompt'[v] = "sent" => prompt[v] = "sent" /\ v # w
<1>1. prompt \in [Regs -> {"none", "sent", "accepted", "rejected", "lost"}]
  BY DEF Shape
<1>2. prompt'[w] = a /\ \A v \in Regs : v # w => prompt'[v] = prompt[v]
  BY <1>1
<1> QED BY <1>1, <1>2 DEF Known, Fresh

LEMMA AnswerKeeps ==
  ASSUME FinishInv, NEW w \in Regs, prompt[w] \in {"sent", "accepted"},
         NEW a \in {"accepted", "rejected"}, prompt' = [prompt EXCEPT ![w] = a],
         UNCHANGED <<messageVars, store, asked, watch, closed>>
  PROVE  /\ MessagesInv' /\ WatchInv' /\ RegisterInv' /\ BeforeInv' /\ RecordsInv' /\ NoticeInv'
         /\ owed' \in {owed, 0} => ToldInv'
<1>0. /\ MessagesInv /\ Shape /\ WatchInv /\ RegisterInv /\ BeforeInv /\ RecordsInv
      /\ ToldInv /\ NoticeInv
  BY DEF FinishInv, RegistryInv
<1>1. \A v \in Regs : /\ Known(v)' <=> Known(v)
                      /\ Fresh(v)' <=> Fresh(v)
                      /\ prompt'[v] = "lost" <=> prompt[v] = "lost"
  BY <1>0, AnswerKnown
<1>2. UNCHANGED <<admitted, handed, refused>>
  BY DEF messageVars
<1>3. WatchInv'
  BY <1>0, <1>1 DEF WatchInv, WatchOK
<1>4. RegisterInv'
  <2>1. store \subseteq Regs
    BY <1>0, FinishAssumption DEF Shape, Regs
  <2> QED BY <1>0, <1>1, <2>1 DEF RegisterInv
<1>5. BeforeInv'
  <2>1. \A v \in Regs : watch[v].before \subseteq Regs
    BY <1>0 DEF Shape, Watches
  <2>2. \A v \in Regs : \A u \in watch[v].before : u < v /\ Known(u)'
    BY <1>0, <1>1, <2>1 DEF BeforeInv
  <2>3. Group' = Group
    BY DEF Group
  <2> QED BY <1>0, <2>2, <2>3 DEF BeforeInv
<1>6. RecordsInv'
  <2>1. \A v \in Regs : watch[v].records \subseteq Regs
    BY <1>0 DEF Shape, Watches
  <2> QED BY <1>0, <1>1, <2>1 DEF RecordsInv
<1>7. NoticeInv'
  BY <1>0, <1>1, <1>2, NoticeKeeps
<1>8. owed' \in {owed, 0} => ToldInv'
  BY <1>0, <1>2, ToldKeeps
<1> QED BY <1>0, <1>3, <1>4, <1>5, <1>6, <1>7, <1>8, OthersKeep

\* An answer that comes when the candidate was decided, or the daemon shuts down, changes no watch.
LEMMA LateAcceptKeeps ==
  ASSUME FinishInv, NEW w \in Regs, prompt[w] = "sent", prompt' = [prompt EXCEPT ![w] = "accepted"],
         UNCHANGED <<messageVars, store, mutations, asked, watch, closed, owed>>
  PROVE  FinishInv'
<1>0. Shape /\ MutationInv /\ DropInv /\ OwedInv
  BY DEF FinishInv, RegistryInv
<1>1. /\ prompt' \in [Regs -> {"none", "sent", "accepted", "rejected", "lost"}]
      /\ \A v \in Regs : v # w => prompt'[v] = prompt[v]
      /\ \A v \in Regs : /\ Known(v)' <=> Known(v)
                         /\ prompt'[v] = "lost" <=> prompt[v] = "lost"
                         /\ prompt'[v] = "sent" => prompt[v] = "sent"
  BY <1>0, AnswerKnown
<1>2. \A i \in DOMAIN mutations : mutations[i].w \in Regs /\ mutations[i].drop \subseteq Regs
  BY <1>0, MutationTyped
<1>3. MutationInv'
  BY <1>0, <1>1, <1>2 DEF MutationInv
<1>4. DropInv'
  BY <1>0, <1>1, <1>2 DEF DropInv
<1>5. OwedInv'
  <2>1. owed # 0 => owed \in Regs /\ owed # w
    BY <1>0 DEF OwedInv, Shape
  <2> QED BY <1>0, <1>1, <2>1 DEF OwedInv, IntentKept, Group
<1>6. Shape'
  BY <1>0, <1>1 DEF Shape
<1> QED BY <1>3, <1>4, <1>5, <1>6, AnswerKeeps DEF FinishInv, RegistryInv

LEMMA RejectKeeps ==
  ASSUME FinishInv, NEW w \in Regs, Reject(w)
  PROVE  FinishInv'
<1>0. Shape /\ MutationInv /\ DropInv /\ OwedInv
  BY DEF FinishInv, RegistryInv
<1> DEFINE m == [op |-> "reject", w |-> w, drop |-> {}]
<1>1. /\ prompt[w] \in {"sent", "accepted"} /\ prompt' = [prompt EXCEPT ![w] = "rejected"]
      /\ mutations' = Append(mutations, m)
      /\ owed' = IF owed = w THEN 0 ELSE owed
      /\ UNCHANGED <<messageVars, store, asked, watch, closed>>
  BY DEF Reject
<1>2. /\ prompt' \in [Regs -> {"none", "sent", "accepted", "rejected", "lost"}]
      /\ prompt'[w] = "rejected" /\ \A v \in Regs : v # w => prompt'[v] = prompt[v]
      /\ \A v \in Regs : /\ Known(v)' <=> Known(v)
                         /\ prompt'[v] = "lost" <=> prompt[v] = "lost"
                         /\ prompt'[v] = "sent" => prompt[v] = "sent"
  BY <1>0, <1>1, AnswerKnown
<1>3. m \in Mutations /\ m.op = "reject" /\ m.w = w /\ m.drop = {}
  BY DEF Mutations
<1> HIDE DEF m
<1>4. /\ mutations' \in Seq(Mutations)
      /\ \A i \in DOMAIN mutations' :
           \/ i \in DOMAIN mutations /\ mutations'[i] = mutations[i]
           \/ mutations'[i] = m /\ \A j \in DOMAIN mutations' : ~(i < j)
  BY <1>0, <1>1, <1>3, MutationAppended
<1>5. \A i \in DOMAIN mutations : mutations[i].w \in Regs /\ mutations[i].drop \subseteq Regs
  BY <1>0, MutationTyped
<1>6. MutationInv'
  <2>1. \A i \in DOMAIN mutations' : mutations'[i].op = "put" =>
          i \in DOMAIN mutations /\ mutations'[i] = mutations[i]
    BY <1>3, <1>4
  <2>2. \A i \in DOMAIN mutations' : mutations'[i].op = "reject" => prompt'[mutations'[i].w] = "rejected"
    BY <1>0, <1>2, <1>3, <1>4, <1>5 DEF MutationInv
  <2> QED BY <1>0, <1>1, <1>2, <2>1, <2>2 DEF MutationInv
<1>7. DropInv'
  BY <1>0, <1>1, <1>2, <1>3, <1>4, <1>5 DEF DropInv
<1>8. owed' \in {owed, 0} /\ (owed' # 0 => owed' = owed /\ owed \in Regs /\ owed # w)
  BY <1>0, <1>1 DEF Shape
<1>9. OwedInv'
  <2>1. IntentKept'
    BY <1>0, <1>1, <1>8 DEF OwedInv, IntentKept
  <2>2. owed' # 0 => prompt'[owed'] \in {"accepted", "lost"}
    BY <1>0, <1>2, <1>8 DEF OwedInv
  <2>3. \A i \in DOMAIN mutations' : owed' \notin mutations'[i].drop
    <3>1. \A i \in DOMAIN mutations : owed' \notin mutations[i].drop
      BY <1>0, <1>8, MutationTyped DEF OwedInv
    <3> QED BY <1>3, <1>4, <3>1
  <2> QED BY <1>0, <1>1, <1>2, <1>8, <2>1, <2>2, <2>3 DEF OwedInv, Group
<1>10. Shape'
  BY <1>0, <1>1, <1>2, <1>4, <1>8 DEF Shape
<1> QED BY <1>1, <1>6, <1>7, <1>8, <1>9, <1>10, AnswerKeeps DEF FinishInv, RegistryInv

\* The candidate takes the place of the watches before it: those stop, and what is removed for it is
\* not what is owed from then on.
LEMMA ReplaceKeeps ==
  ASSUME FinishInv, NEW w \in Regs, prompt[w] = "sent", prompt' = [prompt EXCEPT ![w] = "accepted"],
         closed = "no", watch[w].pending,
         watch' = [v \in Regs |->
           IF v = w THEN [watch[w] EXCEPT !.pending = FALSE, !.before = {},
                                          !.pc = IF watch[w].live THEN "check" ELSE @]
           ELSE IF v \in watch[w].before THEN [watch[v] EXCEPT !.live = FALSE]
           ELSE watch[v]],
         mutations' = Append(mutations,
           [op |-> "drop", w |-> w, drop |-> UNION {watch[v].records : v \in watch[w].before}]),
         owed' = IF watch[w].live THEN w ELSE owed,
         UNCHANGED <<messageVars, store, asked, closed>>
  PROVE  FinishInv'
<1>0. /\ MessagesInv /\ Shape /\ WatchInv /\ RegisterInv /\ MutationInv /\ BeforeInv /\ RecordsInv
      /\ DropInv /\ OwedInv /\ ToldInv /\ NoticeInv
  BY DEF FinishInv, RegistryInv
<1>1. /\ prompt' \in [Regs -> {"none", "sent", "accepted", "rejected", "lost"}]
      /\ prompt'[w] = "accepted" /\ \A v \in Regs : v # w => prompt'[v] = prompt[v]
      /\ \A v \in Regs : /\ Known(v)' <=> Known(v)
                         /\ Fresh(v)' <=> Fresh(v)
                         /\ prompt'[v] = "lost" <=> prompt[v] = "lost"
                         /\ prompt'[v] = "sent" => prompt[v] = "sent" /\ v # w
  BY <1>0, AnswerKnown
<1>2. /\ watch[w].pc \in {"wait", "end"} /\ ~watch[w].acked /\ Fresh(w) /\ Known(w)
      /\ watch[w].live => watch[w].pc = "wait"
  BY <1>0 DEF WatchInv, WatchOK, Fresh, Known
<1>3. /\ watch \in [Regs -> Watches] /\ \A v \in Regs : watch[v] \in Watches
      /\ watch[w].before \in SUBSET Regs
      /\ \A v \in watch[w].before : v < w /\ Known(v) /\ v # w
  <2>1. watch \in [Regs -> Watches]
    BY <1>0 DEF Shape
  <2>2. \A v \in Regs : watch[v] \in Watches /\ watch[v].before \in SUBSET Regs
    BY <2>1 DEF Watches
  <2>3. \A v \in watch[w].before : v < w /\ Known(v)
    BY <1>0 DEF BeforeInv
  <2> QED BY <2>1, <2>2, <2>3, RegNat
<1> DEFINE a == [watch[w] EXCEPT !.pending = FALSE, !.before = {},
                                 !.pc = IF watch[w].live THEN "check" ELSE @]
           Halt(v) == [watch[v] EXCEPT !.live = FALSE]
<1>4. /\ a \in Watches /\ ~a.pending /\ a.before = {} /\ a.live = watch[w].live
      /\ a.records = watch[w].records /\ a.acked = watch[w].acked /\ a.msg = watch[w].msg
      /\ a.out = watch[w].out /\ a.fails = watch[w].fails
      /\ a.pc = IF watch[w].live THEN "check" ELSE watch[w].pc
  <2>1. watch[w] \in Watches
    BY <1>3
  <2>2. PICK pc : pc = IF watch[w].live THEN "check" ELSE watch[w].pc
    OBVIOUS
  <2>3. pc \in {"wait", "end", "check"}
    BY <1>2, <2>2
  <2>4. a = [watch[w] EXCEPT !.pending = FALSE, !.before = {}, !.pc = pc]
    BY <2>2
  <2> HIDE DEF a
  <2>5. a \in Watches
    BY <2>1, <2>3, <2>4 DEF Watches
  <2>6. /\ a.pending = FALSE /\ a.before = {} /\ a.live = watch[w].live
        /\ a.records = watch[w].records /\ a.acked = watch[w].acked /\ a.msg = watch[w].msg
        /\ a.out = watch[w].out /\ a.fails = watch[w].fails /\ a.pc = pc
    BY <2>1, <2>4 DEF Watches
  <2> QED BY <2>2, <2>5, <2>6
<1>5. \A v \in Regs :
        /\ Halt(v) \in Watches /\ ~Halt(v).live /\ Halt(v).pending = watch[v].pending
        /\ Halt(v).before = watch[v].before /\ Halt(v).records = watch[v].records
        /\ Halt(v).pc = watch[v].pc /\ Halt(v).acked = watch[v].acked /\ Halt(v).msg = watch[v].msg
        /\ Halt(v).out = watch[v].out /\ Halt(v).fails = watch[v].fails
  BY <1>3 DEF Watches
<1>6. /\ watch' = [v \in Regs |-> IF v = w THEN a ELSE IF v \in watch[w].before THEN Halt(v) ELSE watch[v]]
  OBVIOUS
<1> HIDE DEF a, Halt
<1>7. /\ watch' \in [Regs -> Watches] /\ watch'[w] = a
      /\ \A v \in watch[w].before : watch'[v] = Halt(v)
      /\ \A v \in Regs : v # w /\ v \notin watch[w].before => watch'[v] = watch[v]
  <2>1. \A v \in watch[w].before : v \in Regs /\ v # w
    BY <1>3
  <2>2. \A v \in Regs : (IF v = w THEN a ELSE IF v \in watch[w].before THEN Halt(v) ELSE watch[v]) \in Watches
    BY <1>3, <1>4, <1>5
  <2>3. watch' \in [Regs -> Watches]
    BY <1>6, <2>2
  <2>4. \A v \in Regs : watch'[v] = IF v = w THEN a ELSE IF v \in watch[w].before THEN Halt(v) ELSE watch[v]
    BY <1>6
  <2> QED BY <2>1, <2>3, <2>4
<1>8. \A v \in Regs :
        /\ watch'[v].records = watch[v].records /\ watch'[v].acked = watch[v].acked
        /\ watch'[v].msg = watch[v].msg /\ watch'[v].out = watch[v].out
        /\ watch'[v].fails = watch[v].fails
        /\ watch'[v].live => watch[v].live /\ v \notin watch[w].before
        /\ watch'[v].pending => watch[v].pending /\ v # w
        /\ v # w => watch'[v].pending = watch[v].pending /\ watch'[v].before = watch[v].before
                    /\ watch'[v].pc = watch[v].pc
        /\ watch'[v].before \subseteq watch[v].before
  <2>1. TAKE v \in Regs
  <2>2. CASE v = w
    BY <1>3, <1>4, <1>7, <2>2
  <2>3. CASE v \in watch[w].before
    <3>1. v # w /\ watch'[v] = Halt(v)
      BY <1>3, <1>7, <2>3
    <3>2. /\ ~watch'[v].live /\ watch'[v].pending = watch[v].pending
          /\ watch'[v].before = watch[v].before /\ watch'[v].records = watch[v].records
          /\ watch'[v].pc = watch[v].pc /\ watch'[v].acked = watch[v].acked
          /\ watch'[v].msg = watch[v].msg /\ watch'[v].out = watch[v].out
          /\ watch'[v].fails = watch[v].fails
      BY <1>5, <3>1
    <3> QED BY <3>1, <3>2
  <2>4. CASE v # w /\ v \notin watch[w].before
    BY <1>7, <2>4
  <2> QED BY <2>2, <2>3, <2>4
<1>9. \A v \in Regs : v # w /\ v \notin watch[w].before => watch'[v].live = watch[v].live
  BY <1>7
<1>10. Group' \subseteq Group /\ \A v \in Group' : v \in Regs /\ ~(v < w)
  <2>1. Group' \subseteq Group /\ \A v \in Group' : v \in Regs /\ v \notin watch[w].before
    BY <1>8 DEF Group
  <2> QED BY <1>0, <2>1 DEF BeforeInv
<1> DEFINE D == UNION {watch[v].records : v \in watch[w].before}
           m == [op |-> "drop", w |-> w, drop |-> D]
<1>11. \A r \in D : /\ r \in Regs
                    /\ prompt[r] = "lost" \/ r \in watch[w].before
  <2>1. TAKE r \in D
  <2>2. PICK v \in watch[w].before : r \in watch[v].records
    BY <2>1
  <2>3. v \in Regs /\ r \in Regs
    BY <1>3, <2>2 DEF Watches
  <2> QED BY <1>0, <2>2, <2>3 DEF RecordsInv
<1>12. \A r \in D : r < w
  <2>1. \A r \in Regs : prompt[r] = "lost" => r < w
    BY <1>0, <1>2 DEF RegisterInv
  <2> QED BY <1>3, <1>11, <2>1
<1>13. m \in Mutations /\ m.op = "drop" /\ m.drop = D
  BY <1>11 DEF Mutations
<1>14. mutations' = Append(mutations, m)
  OBVIOUS
<1> HIDE DEF D, m
<1>15. /\ mutations' \in Seq(Mutations)
       /\ \A i \in DOMAIN mutations' :
            \/ i \in DOMAIN mutations /\ mutations'[i] = mutations[i]
            \/ mutations'[i] = m /\ \A j \in DOMAIN mutations' : ~(i < j)
  BY <1>0, <1>13, <1>14, MutationAppended
<1>16. Shape'
  BY <1>0, <1>1, <1>7, <1>15 DEF Shape
<1>17. WatchInv'
  <2>1. WatchOK(w)'
    BY <1>0, <1>2, <1>4, <1>7 DEF WatchInv, WatchOK
  <2>2. \A v \in Regs : v # w => WatchOK(v)'
    BY <1>0, <1>1, <1>8 DEF WatchInv, WatchOK
  <2> QED BY <2>1, <2>2 DEF WatchInv
<1>18. RegisterInv'
  <2>1. \A v \in Regs : ~Known(v) => watch'[v] = NoWatch
    BY <1>0, <1>2, <1>3, <1>7 DEF RegisterInv
  <2>2. store \subseteq Regs
    BY <1>0, FinishAssumption DEF Shape, Regs
  <2> QED BY <1>0, <1>1, <2>1, <2>2 DEF RegisterInv
<1>19. MutationInv'
  <2>1. \A i \in DOMAIN mutations' : mutations'[i].op \in {"put", "reject"} =>
          i \in DOMAIN mutations /\ mutations'[i] = mutations[i] /\ mutations[i].w \in Regs
    BY <1>0, <1>13, <1>15, MutationTyped
  <2>2. \A i \in DOMAIN mutations' : mutations'[i].op = "put" =>
          mutations'[i].w <= asked' /\ \A v \in Regs : Known(v)' => v < mutations'[i].w
    BY <1>0, <1>1, <2>1 DEF MutationInv
  <2>3. \A i \in DOMAIN mutations' : mutations'[i].op = "reject" => prompt'[mutations'[i].w] = "rejected"
    BY <1>0, <1>1, <2>1 DEF MutationInv
  <2>4. \A i, j \in DOMAIN mutations' :
          mutations'[i].op = "put" /\ mutations'[j].op = "put" /\ i < j
          => mutations'[i].w < mutations'[j].w
    BY <1>0, <2>1 DEF MutationInv
  <2> QED BY <2>2, <2>3, <2>4 DEF MutationInv
<1>20. BeforeInv'
  <2>1. ASSUME NEW v \in Regs
        PROVE  /\ \A u \in watch'[v].before : u < v /\ Known(u)'
               /\ watch'[v].pending => \A u \in Group' : u < v => u \in watch'[v].before
               /\ watch'[v].live /\ ~watch'[v].pending => \A u \in Group' : ~(u < v)
    <3>1. \A u \in watch[v].before : u \in Regs /\ u < v /\ Known(u)
      BY <1>0, <1>3 DEF BeforeInv, Watches
    <3>2. \A u \in watch'[v].before : u < v /\ Known(u)'
      BY <1>1, <1>8, <3>1
    <3>3. CASE v = w
      BY <1>4, <1>7, <1>10, <3>2, <3>3
    <3>4. CASE v # w
      BY <1>0, <1>8, <1>10, <3>2, <3>4 DEF BeforeInv
    <3> QED BY <3>3, <3>4
  <2> QED BY <2>1 DEF BeforeInv
<1>21. RecordsInv'
  <2>1. \A v \in Regs : watch[v].records \subseteq Regs
    BY <1>3 DEF Watches
  <2> QED BY <1>0, <1>1, <1>8, <2>1 DEF RecordsInv
<1>22. DropInv'
  <2>1. ASSUME NEW i \in DOMAIN mutations', NEW r \in mutations'[i].drop
        PROVE  prompt'[r] = "lost" \/ (Known(r)' /\ ~watch'[r].live)
    <3>1. CASE i \in DOMAIN mutations /\ mutations'[i] = mutations[i]
      <4>1. r \in Regs
        BY <1>0, <2>1, <3>1, MutationTyped
      <4> QED BY <1>0, <1>1, <1>8, <2>1, <3>1, <4>1 DEF DropInv
    <3>2. CASE mutations'[i] = m
      <4>1. r \in D
        BY <1>13, <2>1, <3>2
      <4> QED BY <1>1, <1>3, <1>5, <1>7, <1>11, <4>1
    <3> QED BY <1>15, <3>1, <3>2
  <2> QED BY <2>1 DEF DropInv
<1>23. \A v \in Regs :
         prompt'[v] = "sent" /\ watch'[v].pending /\ ~watch'[v].live =>
           /\ prompt[v] = "sent" /\ watch[v].pending /\ v # w
           /\ ~watch[v].live \/ v \in watch[w].before
  BY <1>1, <1>8, <1>9
<1>24. \A v \in Regs : v < w => \A u \in Group' : ~(u < v)
  BY <1>10, RegNat
<1>25. \A v \in Regs :
         prompt'[v] = "sent" /\ watch'[v].pending /\ ~watch'[v].live => \A u \in Group' : ~(u < v)
  <2>1. TAKE v \in Regs
  <2>2. v \in watch[w].before => v < w
    BY <1>3
  <2> QED BY <1>0, <1>10, <1>23, <1>24, <2>2 DEF OwedInv
<1>26. UNCHANGED <<admitted, handed, refused>>
  BY DEF messageVars
<1>27. \A i \in DOMAIN admitted : admitted[i].from # w
  BY <1>0 DEF NoticeInv
<1>28. Untold(w)
  BY <1>27 DEF Untold, Notice
<1>29. OwedInv' /\ ToldInv'
  <2>1. CASE watch[w].live
    <3>1. owed' = w /\ w # 0 /\ w \in store
      BY <1>0, <2>1, RegNat DEF RecordsInv
    <3>2. \A i \in DOMAIN mutations' : w \notin mutations'[i].drop
      <4>1. \A i \in DOMAIN mutations : w \notin mutations[i].drop
        BY <1>0, <1>2, <2>1 DEF DropInv, Fresh
      <4>2. w \notin D
        BY <1>12, RegNat
      <4> QED BY <1>13, <1>15, <4>1, <4>2
    <3>3. ASSUME NEW v \in Regs, prompt'[v] = "sent", watch'[v].pending, ~watch'[v].live
          PROVE  v < w
      <4>1. CASE v \in watch[w].before
        BY <1>3, <4>1
      <4>2. CASE ~watch[v].live
        <5>1. \A u \in Group : ~(u < v)
          BY <1>0, <1>23, <3>3, <4>2 DEF OwedInv
        <5>2. w \in Group
          BY <2>1 DEF Group
        <5> QED BY <1>23, <3>3, <5>1, <5>2, RegNat
      <4> QED BY <1>23, <3>3, <4>1, <4>2
    <3>4. OwedInv'
      BY <1>1, <1>25, <3>1, <3>2, <3>3 DEF OwedInv, IntentKept
    <3>5. ToldInv'
      <4>1. \A v \in Regs : w \in watch[v].records => v = w
        BY <1>0, <1>2 DEF RecordsInv, Fresh
      <4>2. watch'[w].pc # "remove" /\ ~watch'[w].acked
        BY <1>2, <1>4, <1>7
      <4>3. \A i \in Range(handed) : ~Notice(i, w)'
        <5>1. Range(handed) \subseteq DOMAIN admitted
          BY <1>0, Positions DEF MessagesInv
        <5> QED BY <1>26, <1>27, <5>1 DEF Notice
      <4>4. \A i, v : Notice(i, v)' <=> Notice(i, v)
        BY <1>26 DEF Notice
      <4>5. Range(handed)' = Range(handed)
        BY <1>26
      <4>6. ASSUME NEW v \in Regs
            PROVE  /\ watch'[v].pc = "remove" \/ watch'[v].acked => owed' \notin watch'[v].records
                   /\ \A i \in Range(handed)' : Notice(i, v)' => owed' \notin watch'[v].records
        <5>1. CASE v = w
          BY <4>2, <4>3, <4>5, <5>1
        <5>2. CASE v # w
          BY <1>8, <3>1, <4>1, <5>2
        <5> QED BY <5>1, <5>2
      <4> QED BY <4>6 DEF ToldInv
    <3> QED BY <3>4, <3>5
  <2>2. CASE ~watch[w].live
    <3>1. owed' = owed
      BY <2>2
    <3>2. owed = 0 \/ w < owed
      BY <1>0, <2>2 DEF OwedInv
    <3>3. \A i \in DOMAIN mutations' : owed' \notin mutations'[i].drop
      <4>1. owed \notin D
        <5>1. owed \in Regs => ~(owed < w)
          BY <3>2, RegNat
        <5> QED BY <1>11, <1>12, <5>1
      <4> QED BY <1>0, <1>13, <1>15, <3>1, <4>1 DEF OwedInv
    <3>4. ASSUME NEW v \in Regs, prompt'[v] = "sent", watch'[v].pending, ~watch'[v].live
          PROVE  owed = 0 \/ v < owed
      <4>1. CASE v \in watch[w].before
        <5>1. v < w /\ owed \in Nat
          BY <1>0, <1>3, <4>1, RegNat DEF Shape
        <5> QED BY <3>2, <5>1, RegNat
      <4>2. CASE ~watch[v].live
        BY <1>0, <1>23, <3>4, <4>2 DEF OwedInv
      <4> QED BY <1>23, <3>4, <4>1, <4>2
    <3>5. owed # 0 => prompt'[owed] \in {"accepted", "lost"}
      <4>1. owed # 0 => owed \in Regs /\ owed # w
        BY <1>0 DEF OwedInv, Shape
      <4> QED BY <1>0, <1>1, <4>1 DEF OwedInv
    <3>6. OwedInv'
      BY <1>0, <1>25, <3>1, <3>3, <3>4, <3>5 DEF OwedInv, IntentKept
    <3>7. ToldInv'
      <4>1. \A v \in Regs : watch'[v].pc = watch[v].pc
        BY <1>4, <1>7, <1>8, <2>2
      <4> QED BY <1>0, <1>8, <1>26, <3>1, <4>1, ToldKeeps
    <3> QED BY <3>6, <3>7
  <2> QED BY <2>1, <2>2
<1>30. NoticeInv'
  <2>1. watch'[w].pc # "ack"
    BY <1>2, <1>4, <1>7
  <2> QED BY <1>0, <1>1, <1>8, <1>26, <1>28, <2>1, NoticeKeeps
<1>31. MessagesInv'
  BY <1>0, OthersKeep
<1> QED BY <1>16, <1>17, <1>18, <1>19, <1>20, <1>21, <1>22, <1>29, <1>30, <1>31
        DEF FinishInv, RegistryInv

LEMMA AcceptKeeps ==
  ASSUME FinishInv, NEW w \in Regs, Accept(w)
  PROVE  FinishInv'
<1>1. /\ prompt[w] = "sent" /\ prompt' = [prompt EXCEPT ![w] = "accepted"]
      /\ UNCHANGED <<messageVars, store, asked, closed>>
  BY DEF Accept
<1>2. CASE closed # "no" \/ ~watch[w].pending
  BY <1>1, <1>2, LateAcceptKeeps DEF Accept
<1>3. CASE ~(closed # "no" \/ ~watch[w].pending)
  BY <1>1, <1>3, ReplaceKeeps, Zenon DEF Accept
<1> QED BY <1>2, <1>3

-----------------------------------------------------------------------------
(* The caller, its messages, and the daemon *)

\* What happens to the messages or the world leaves the registry alone.
LEMMA SameRegistry ==
  ASSUME FinishInv, UNCHANGED <<store, mutations, asked, prompt, watch>>,
         closed' \in {closed, "closing"}, owed' \in {owed, 0}
  PROVE  Shape' /\ WatchInv' /\ RegistryInv'
<1>0. /\ Shape /\ WatchInv /\ RegisterInv /\ MutationInv /\ BeforeInv /\ RecordsInv /\ DropInv /\ OwedInv
  BY DEF FinishInv, RegistryInv
<1>1. Shape'
  BY <1>0 DEF Shape
<1>2. \A w \in Regs : (Known(w)' <=> Known(w)) /\ (Fresh(w)' <=> Fresh(w))
  BY DEF Known, Fresh
<1>3. WatchInv'
  BY <1>0, <1>2 DEF WatchInv, WatchOK
<1>4. RegisterInv'
  BY <1>0 DEF RegisterInv, Known, Fresh
<1>5. MutationInv' /\ DropInv'
  BY <1>0 DEF MutationInv, DropInv, Known
<1>6. BeforeInv'
  BY <1>0 DEF BeforeInv, Known, Group
<1>7. RecordsInv'
  BY <1>0, <1>2 DEF RecordsInv
<1>8. OwedInv'
  <2>1. \A i \in DOMAIN mutations : owed' \notin mutations[i].drop
    BY <1>0, MutationTyped DEF OwedInv
  <2>2. IntentKept' /\ (owed' # 0 => prompt[owed'] \in {"accepted", "lost"})
    BY <1>0 DEF OwedInv, IntentKept
  <2>3. Group' = Group
    BY DEF Group
  <2>4. ASSUME closed' = "no", NEW w \in Regs,
               prompt[w] = "sent", watch[w].pending, ~watch[w].live
        PROVE  (owed' = 0 \/ w < owed') /\ \A v \in Group : ~(v < w)
    <3>1. closed = "no"
      BY <2>4
    <3> QED BY <1>0, <2>4, <3>1 DEF OwedInv
  <2> QED BY <2>1, <2>2, <2>3, <2>4 DEF OwedInv
<1> QED BY <1>1, <1>3, <1>4, <1>5, <1>6, <1>7, <1>8 DEF RegistryInv

\* A refusal takes nothing from what the invariant says of notices.
LEMMA SameNotices ==
  ASSUME NoticeInv, UNCHANGED <<admitted, prompt, watch>>, refused \subseteq refused'
  PROVE  NoticeInv'
<1>1. \A i, w : Notice(i, w)' <=> Notice(i, w)
  BY DEF Notice
<1>2. \A w \in Regs : Known(w)' <=> Known(w)
  BY DEF Known
<1>3. \A i \in DOMAIN admitted' \ refused' : i \in DOMAIN admitted \ refused
  OBVIOUS
<1> QED BY <1>1, <1>2, <1>3 DEF NoticeInv

LEMMA WorldKeeps ==
  ASSUME FinishInv, UNCHANGED <<store, mutations, asked, prompt, watch, owed>>,
         closed' \in {closed, "closing"}, MessagesInv', UNCHANGED <<admitted, handed>>,
         refused \subseteq refused'
  PROVE  FinishInv'
<1>0. Shape /\ ToldInv /\ NoticeInv
  BY DEF FinishInv
<1>1. ToldInv'
  BY <1>0, ToldKeeps
<1> QED BY <1>0, <1>1, SameRegistry, SameNotices DEF FinishInv

LEMMA DeliverKeeps ==
  ASSUME FinishInv, Deliver
  PROVE  FinishInv'
<1>0. MessagesInv
  BY DEF FinishInv
<1>1. /\ UNCHANGED <<store, mutations, asked, prompt, watch, owed, closed>>
      /\ UNCHANGED <<admitted, handed, refused>>
  BY DEF Deliver, watches, QuietPeriodEnds, Dispatch, MessagesClosed
<1>2. MessagesInv'
  <2>1. CASE QuietPeriodEnds
    <3>1. service' \in {"open", "closing", "closed"}
      BY <2>1 DEF QuietPeriodEnds
    <3> QED BY <1>0, <2>1, <3>1, FlushKeeps DEF QuietPeriodEnds
  <2>2. CASE Dispatch \/ MessagesClosed
    BY <1>0, <2>2, OthersKeep
  <2> QED BY <2>1, <2>2 DEF Deliver
<1> QED BY <1>1, <1>2, WorldKeeps

LEMMA RefuseKeeps ==
  ASSUME FinishInv, Refuse
  PROVE  FinishInv'
<1>1. /\ UNCHANGED <<store, mutations, asked, prompt, watch, owed, closed>> /\ DispatchFails
  BY DEF Refuse, watches
<1> QED BY <1>1, FailsKeeps, WorldKeeps DEF FinishInv

\* With the notice that it told of, what was owed is owed no more.
LEMMA AcknowledgeKeeps ==
  ASSUME FinishInv, Acknowledge
  PROVE  FinishInv'
<1>0. MessagesInv /\ Shape /\ ToldInv /\ NoticeInv
  BY DEF FinishInv
<1>1. /\ UNCHANGED <<store, mutations, asked, prompt, watch, closed>>
      /\ UNCHANGED <<admitted, refused>> /\ DispatchAcknowledged /\ Hears
  BY DEF Acknowledge, watches, DispatchAcknowledged
<1>2. MessagesInv'
  BY <1>0, <1>1, AcknowledgedKeeps
<1>3. owed' \in {owed, 0}
  BY <1>1 DEF Hears
<1>4. \A w \in Regs : 0 \notin watch[w].records
  BY OfOne
<1>5. \A i, w : Notice(i, w)' <=> Notice(i, w)
  BY <1>1 DEF Notice
<1>6. ASSUME NEW w \in Regs, NEW i \in Range(handed'), Notice(i, w)
      PROVE  owed' \notin watch[w].records
  <2>1. CASE i \in Range(handed)
    BY <1>0, <1>3, <1>4, <1>6, <2>1 DEF ToldInv
  <2>2. CASE i \notin Range(handed)
    <3>1. admitted[i].what \in {"finish", "lost"} /\ admitted[i].from = w /\ w # Other
      BY <1>6, RegNat DEF Notice, Other
    <3>2. owed \in watch[w].records => owed' = 0
      BY <1>1, <1>6, <2>2, <3>1 DEF Hears
    <3> QED BY <1>3, <1>4, <3>2
  <2> QED BY <2>1, <2>2
<1>7. ToldInv'
  <2>1. \A w \in Regs : watch[w].pc = "remove" \/ watch[w].acked => owed' \notin watch[w].records
    BY <1>0, <1>3, <1>4 DEF ToldInv
  <2>2. Range(handed)' = Range(handed')
    OBVIOUS
  <2> QED BY <1>1, <1>5, <1>6, <2>1, <2>2 DEF ToldInv
<1>8. NoticeInv'
  BY <1>0, <1>1, SameNotices
<1> QED BY <1>1, <1>2, <1>3, <1>7, <1>8, SameRegistry DEF FinishInv

LEMMA CloseDeliveryKeeps ==
  ASSUME FinishInv, CloseDelivery
  PROVE  FinishInv'
<1>1. /\ UNCHANGED <<store, mutations, asked, prompt, watch, owed, closed>>
      /\ CloseMessages /\ UNCHANGED <<admitted, handed, refused>>
  BY DEF CloseDelivery, watches, CloseMessages
<1> QED BY <1>1, CloseKeeps, WorldKeeps DEF FinishInv

\* Archiving, detaching, the beginning of a shutdown.
LEMMA OutsideKeeps ==
  ASSUME FinishInv, ArchiveCaller \/ DetachChild \/ Close \/ UNCHANGED finishVars
  PROVE  FinishInv'
<1>1. /\ UNCHANGED messageVars /\ UNCHANGED <<store, mutations, asked, prompt, watch, owed>>
      /\ closed' \in {closed, "closing"}
  BY DEF ArchiveCaller, DetachChild, Close, finishVars, watches
<1>2. MessagesInv' /\ UNCHANGED <<admitted, handed, refused>>
  BY <1>1, OthersKeep DEF FinishInv, messageVars
<1> QED BY <1>1, <1>2, WorldKeeps

LEMMA CloseWatchesKeeps ==
  ASSUME FinishInv, CloseWatches
  PROVE  FinishInv'
<1>0. /\ MessagesInv /\ Shape /\ WatchInv /\ RegisterInv /\ BeforeInv /\ RecordsInv
      /\ OwedInv /\ ToldInv /\ NoticeInv
  BY DEF FinishInv, RegistryInv
<1>1. /\ mutations = <<>> /\ closed' = "stopped"
      /\ watch' = [w \in Regs |-> [watch[w] EXCEPT !.live = FALSE]]
      /\ UNCHANGED <<messageVars, store, mutations, asked, prompt, owed>>
  BY DEF CloseWatches
<1>2. \A w \in Regs : watch[w] \in Watches
  BY <1>0 DEF Shape
<1>3. \A w \in Regs :
        /\ watch'[w] = [watch[w] EXCEPT !.live = FALSE] /\ watch'[w] \in Watches
        /\ ~watch'[w].live /\ watch'[w].pc = watch[w].pc /\ watch'[w].pending = watch[w].pending
        /\ watch'[w].before = watch[w].before /\ watch'[w].records = watch[w].records
        /\ watch'[w].out = watch[w].out /\ watch'[w].acked = watch[w].acked
        /\ watch'[w].msg = watch[w].msg /\ watch'[w].fails = watch[w].fails
  BY <1>1, <1>2 DEF Watches
<1>4. watch' \in [Regs -> Watches]
  BY <1>1, <1>3
<1>5. \A w \in Regs : (Known(w)' <=> Known(w)) /\ (Fresh(w)' <=> Fresh(w))
  BY <1>1 DEF Known, Fresh
<1>6. Shape'
  BY <1>0, <1>1, <1>4 DEF Shape
<1>7. WatchInv'
  <2>1. ASSUME NEW w \in Regs
        PROVE  WatchOK(w)'
    <3>1. WatchOK(w)
      BY <1>0 DEF WatchInv
    <3> QED BY <1>3, <1>5, <3>1 DEF WatchOK
  <2> QED BY <2>1 DEF WatchInv
<1>8. RegisterInv'
  <2>1. [NoWatch EXCEPT !.live = FALSE] = NoWatch
    <3>1. \A r \in Watches : r.live = FALSE => [r EXCEPT !.live = FALSE] = r
      BY DEF Watches
    <3>2. NoWatch.live = FALSE
      BY DEF NoWatch
    <3> QED BY <3>1, <3>2, NoWatchTyped
  <2>2. \A w \in Regs : ~Known(w) => watch'[w] = NoWatch
    BY <1>0, <1>3, <2>1 DEF RegisterInv
  <2> QED BY <1>0, <1>1, <2>2 DEF RegisterInv, Known, Fresh
<1>9. MutationInv' /\ DropInv'
  BY <1>1 DEF MutationInv, DropInv
<1>10. BeforeInv'
  <2>1. Group' = {}
    BY <1>3 DEF Group
  <2>2. \A w \in Regs : \A v \in watch[w].before : v < w /\ Known(v)
    BY <1>0 DEF BeforeInv
  <2>3. \A w \in Regs : \A v \in watch'[w].before : v < w /\ Known(v)'
    BY <1>1, <1>3, <2>2 DEF Known
  <2> QED BY <2>1, <2>3 DEF BeforeInv
<1>11. RecordsInv'
  BY <1>0, <1>1, <1>3, <1>5 DEF RecordsInv
<1>12. OwedInv'
  BY <1>0, <1>1 DEF OwedInv, IntentKept
<1>13. UNCHANGED <<admitted, handed, refused>>
  BY <1>1 DEF messageVars
<1>14. ToldInv'
  BY <1>0, <1>1, <1>3, <1>13, ToldKeeps
<1>15. NoticeInv'
  BY <1>0, <1>3, <1>5, <1>13, NoticeKeeps
<1>16. MessagesInv'
  BY <1>0, <1>1, OthersKeep
<1> QED BY <1>6, <1>7, <1>8, <1>9, <1>10, <1>11, <1>12, <1>14, <1>15, <1>16
        DEF FinishInv, RegistryInv

LEMMA MessagesBoot == MessagesInit' => MessagesInv'
BY MessagesStart, PTL

\* Of the registrations on disk the first speaks for all; what was under way before is over.
LEMMA BootKeeps ==
  ASSUME FinishInv, Boot, UNCHANGED owed
  PROVE  FinishInv'
<1>0. Shape /\ RegisterInv /\ OwedInv
  BY DEF FinishInv, RegistryInv
<1> DEFINE first == [NoWatch EXCEPT !.pc = "check", !.live = TRUE, !.records = store]
           First(w) == w \in store /\ \A v \in store : w <= v
<1>1. /\ admitted' = <<>> /\ handed' = <<>> /\ refused' = {} /\ mutations' = <<>> /\ closed' = "no"
      /\ prompt' = [w \in Regs |-> IF prompt[w] = "none" THEN "none" ELSE "lost"]
      /\ watch' = [w \in Regs |-> IF First(w) THEN first ELSE NoWatch]
      /\ UNCHANGED <<store, asked, owed>>
  BY DEF Boot
<1>2. MessagesInv'
  <2>1. MessagesInit'
    BY DEF Boot, MessagesInit
  <2> QED BY <2>1, MessagesBoot
<1>3. store \subseteq Regs /\ store \subseteq Nat
  BY <1>0, FinishAssumption, RegNat DEF Shape, Regs
<1>4. /\ first \in Watches
      /\ first.pc = "check" /\ first.live = TRUE /\ first.pending = FALSE /\ first.before = {}
      /\ first.records = store /\ first.out = "none" /\ first.acked = FALSE /\ first.fails = 0
  <2>1. /\ first \in Watches /\ first.pc = "check" /\ first.live = TRUE /\ first.records = store
        /\ first.pending = NoWatch.pending /\ first.before = NoWatch.before
        /\ first.out = NoWatch.out /\ first.acked = NoWatch.acked /\ first.fails = NoWatch.fails
    BY <1>3, NoWatchTyped DEF Watches
  <2>2. /\ NoWatch.pending = FALSE /\ NoWatch.before = {} /\ NoWatch.out = "none"
        /\ NoWatch.acked = FALSE /\ NoWatch.fails = 0
    BY DEF NoWatch
  <2> HIDE DEF first
  <2> QED BY <2>1, <2>2
<1>5. /\ NoWatch.pc = "none" /\ NoWatch.live = FALSE /\ NoWatch.pending = FALSE
      /\ NoWatch.before = {} /\ NoWatch.records = {} /\ NoWatch.acked = FALSE
      /\ NoWatch.fails = 0
  BY DEF NoWatch
<1> HIDE DEF first
<1>6. \A w \in Regs : watch'[w] = IF First(w) THEN first ELSE NoWatch
  BY <1>1
<1>7. watch' \in [Regs -> Watches]
  BY <1>1, <1>4, NoWatchTyped
<1>8. \A w \in Regs : /\ prompt'[w] = IF prompt[w] = "none" THEN "none" ELSE "lost"
                      /\ Known(w)' <=> Known(w)
                      /\ ~Fresh(w)' /\ prompt'[w] # "sent"
                      /\ Known(w) => prompt'[w] = "lost"
  BY <1>1 DEF Known, Fresh
<1>9. \A w \in Regs :
        /\ watch'[w].pc \in {"none", "check"} /\ (watch'[w].pc = "none" => ~watch'[w].live)
        /\ watch'[w].live => First(w)
        /\ ~watch'[w].pending /\ watch'[w].before = {} /\ ~watch'[w].acked /\ watch'[w].fails = 0
        /\ watch'[w].records \subseteq store
  BY <1>4, <1>5, <1>6
<1>10. Shape'
  <2>1. prompt' \in [Regs -> {"none", "sent", "accepted", "rejected", "lost"}]
    BY <1>1
  <2> QED BY <1>0, <1>1, <1>7, <2>1 DEF Shape
<1>11. WatchInv'
  BY <1>9, FinishAssumption DEF WatchInv, WatchOK
<1>12. RegisterInv'
  <2>1. \A w \in Regs : ~Known(w) => watch'[w] = NoWatch
    BY <1>0, <1>6 DEF RegisterInv
  <2> QED BY <1>0, <1>1, <1>3, <1>8, <2>1 DEF RegisterInv
<1>13. MutationInv' /\ DropInv'
  BY <1>1 DEF MutationInv, DropInv
<1>14. BeforeInv'
  <2>1. \A v, w \in Regs : First(v) /\ First(w) => ~(v < w)
    BY <1>3
  <2>2. \A w \in Group' : w \in Regs /\ First(w)
    BY <1>9 DEF Group
  <2> HIDE DEF First
  <2> QED BY <1>9, <2>1, <2>2 DEF BeforeInv
<1>15. RecordsInv'
  <2>1. \A r \in store : Known(r)
    BY <1>0 DEF RegisterInv
  <2>2. \A r \in store : prompt'[r] = "lost"
    BY <1>3, <1>8, <2>1
  <2> QED BY <1>8, <1>9, <2>2 DEF RecordsInv
<1>16. OwedInv'
  <2>1. IntentKept' /\ IntentKept
    BY <1>0, <1>1 DEF OwedInv, IntentKept
  <2>2. owed # 0 => Known(owed) /\ owed \in Regs
    BY <1>0, <1>3, <2>1 DEF RegisterInv, IntentKept
  <2> QED BY <1>1, <1>8, <2>1, <2>2 DEF OwedInv
<1>17. ToldInv'
  <2>1. Range(handed') = {}
    BY <1>1 DEF Range
  <2> QED BY <1>9, <2>1 DEF ToldInv
<1>18. NoticeInv'
  <2>1. DOMAIN admitted' = {}
    BY <1>1
  <2> QED BY <1>9, <2>1 DEF NoticeInv
<1> QED BY <1>2, <1>10, <1>11, <1>12, <1>13, <1>14, <1>15, <1>16, <1>17, <1>18
        DEF FinishInv, RegistryInv

LEMMA FinishStep == FinishInv /\ [FinishNext]_finishVars => FinishInv'
<1> SUFFICES ASSUME FinishInv, [FinishNext]_finishVars PROVE FinishInv'
  OBVIOUS
<1>1. CASE AskRegister \/ Register \/ RejectedStops \/ Drop
  BY <1>1, AskRegisterKeeps, RegisterKeeps, RejectedStopsKeeps, DropKeeps
<1>2. ASSUME NEW w \in Regs, Accept(w) \/ Reject(w) PROVE FinishInv'
  BY <1>2, AcceptKeeps, RejectKeeps
<1>3. ASSUME NEW w \in Regs, WatchSteps(w) PROVE FinishInv'
  <2>1. CASE Check(w) \/ Held(w) \/ Recheck(w) \/ Send(w)
    BY <2>1, CheckKeeps, HeldKeeps, RecheckKeeps, SendKeeps
  <2>2. CASE Acknowledged(w) \/ Refused(w) \/ RemoveOwn(w) \/ Stopped(w)
    BY <2>2, AcknowledgedWatchKeeps, RefusedKeeps, RemoveOwnKeeps, StoppedKeeps
  <2> QED BY <1>3, <2>1, <2>2 DEF WatchSteps
<1>4. ASSUME NEW w \in Regs, Observe(w) \/ ObserveFails(w) \/ StepFails(w) PROVE FinishInv'
  BY <1>4, ObserveKeeps, ObserveFailsKeeps, StepFailsKeeps
<1>5. CASE Deliver \/ Acknowledge \/ Refuse \/ CloseDelivery
  BY <1>5, DeliverKeeps, AcknowledgeKeeps, RefuseKeeps, CloseDeliveryKeeps
<1>6. CASE ArchiveCaller \/ DetachChild \/ Close \/ UNCHANGED finishVars
  BY <1>6, OutsideKeeps
<1>7. CASE CloseWatches
  BY <1>7, CloseWatchesKeeps
<1>8. CASE DaemonRestarts \/ DaemonCrashes
  BY <1>8, BootKeeps DEF DaemonRestarts, DaemonCrashes
<1> QED BY <1>1, <1>2, <1>3, <1>4, <1>5, <1>6, <1>7, <1>8 DEF FinishNext

-----------------------------------------------------------------------------
(* Theorems about the subscriptions *)

\* Registrations, mutations, watches and notices go together as the invariant says, for every number
\* of registrations, failures, crashes and shutdowns.
THEOREM FinishInvariance == FinishSpec => []FinishInv
<1>1. FinishInit => FinishInv
  BY FinishStart
<1>2. FinishInv /\ [FinishNext]_finishVars => FinishInv'
  BY FinishStep
<1> QED BY <1>1, <1>2, PTL DEF FinishSpec

\* The records keep their shape, and a finish is observed for one registration at a time: of the
\* watches that run no two are past their decision.
THEOREM FinishTypeCorrect == FinishSpec => []FinishTypeOK
<1>1. FinishInv => FinishTypeOK
  <2> SUFFICES ASSUME FinishInv PROVE FinishTypeOK
    OBVIOUS
  <2>1. MessagesTypeOK /\ Shape /\ BeforeInv
    BY DEF FinishInv, MessagesInv, RegistryInv
  <2> DEFINE Decided == {w \in Group : ~watch[w].pending}
  <2>2. \A v, w \in Decided : v = w
    <3>1. \A v, w \in Decided : ~(v < w) /\ v \in Nat
      BY <2>1, RegNat DEF BeforeInv, Group
    <3> QED BY <3>1
  <2>3. Cardinality(Decided) <= 1
    <3>1. CASE Decided = {}
      BY <3>1, FS_EmptySet
    <3>2. CASE Decided # {}
      <4>1. PICK w : Decided = {w}
        BY <2>2, <3>2
      <4>2. Cardinality({w}) = 1
        BY FS_Singleton
      <4> HIDE DEF Decided
      <4>3. Cardinality(Decided) = 1
        BY <4>1, <4>2
      <4> QED BY <4>3
    <3> QED BY <3>1, <3>2
  <2> HIDE DEF Decided
  <2>4. Cardinality({w \in Group : ~watch[w].pending}) <= 1
    BY <2>3 DEF Decided
  <2> QED BY <2>1, <2>4 DEF FinishTypeOK, Shape, Mutations, Watches
<1> QED BY <1>1, FinishInvariance, PTL

\* Until the caller's dispatch acknowledged the notice, the registration that promises it is on disk,
\* whatever replaces, rejects, fails or restarts meanwhile.
THEOREM IntentAlwaysKept == FinishSpec => []IntentKept
<1>1. FinishInv => IntentKept
  BY DEF FinishInv, RegistryInv, OwedInv
<1> QED BY <1>1, FinishInvariance, PTL

\* Between two restarts a watch reports a finish once: of its notices only one was not refused, and
\* no message is handed over twice.
THEOREM ReportsOnce == FinishSpec => []ReportedOnce
<1>1. FinishInv => ReportedOnce
  <2> SUFFICES ASSUME FinishInv,
                      NEW i \in DOMAIN handed, NEW j \in DOMAIN handed,
                      admitted[handed[i]].from # Other,
                      admitted[handed[i]].from = admitted[handed[j]].from,
                      {admitted[handed[i]].what, admitted[handed[j]].what} \subseteq {"finish", "lost"}
               PROVE  i = j
    BY DEF ReportedOnce
  <2>1. MessagesTypeOK /\ AdmissionInv /\ PlaceInv /\ NoticeInv
    BY DEF FinishInv, MessagesInv
  <2>2. \A k \in DOMAIN handed : handed[k] \in Range(handed)
    BY DEF Range
  <2>3. \A x \in Range(handed) : x \in DOMAIN admitted \ refused
    BY <2>1, Positions DEF PlaceInv
  <2>4. PICK w \in Regs : Notice(handed[i], w) /\ Notice(handed[j], w)
    BY <2>1, <2>2, <2>3 DEF NoticeInv, Notice
  <2>5. handed[i] = handed[j]
    BY <2>1, <2>2, <2>3, <2>4 DEF NoticeInv
  <2>6. handed \in Seq(DOMAIN admitted) /\ DOMAIN admitted \subseteq Nat
    BY <2>1, Positions DEF MessagesTypeOK
  <2>7. i \in Nat /\ j \in Nat /\ handed[i] \in Nat
    BY <2>6
  <2>8. ~(i < j) /\ ~(j < i)
    BY <2>1, <2>5, <2>7 DEF AdmissionInv, Rising
  <2> QED BY <2>7, <2>8
<1> QED BY <1>1, FinishInvariance, PTL

\* The notices, too, reach the caller in the order of their admission, each once, across refusals and
\* a shutdown that flushes them.
THEOREM NoticesInOrder == FinishSpec => []HandedInOrder
<1>1. FinishInv => HandedInOrder
  BY DEF FinishInv, MessagesInv, AdmissionInv, Rising, HandedInOrder
<1> QED BY <1>1, FinishInvariance, PTL

=============================================================================
