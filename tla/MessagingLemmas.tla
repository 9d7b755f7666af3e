-------------------------- MODULE MessagingLemmas ---------------------------
(***************************************************************************)
(* What the proofs about Messaging rest on, for any flows, workers,        *)
(* programs, policies and bounds.  The inductive invariant IInv has four   *)
(* layers: Types, which says at which position of a thread its locals name *)
(* flows; OnePlace, which is FlowInOnePlace; Indexed, the index of parked  *)
(* senders; and Asks, the index of Asks.  The lemmas say what a Mailbox    *)
(* method does to an inbox, how a step that moves a box from one place to  *)
(* another keeps OnePlace, and which writes keep the two indexes.  What a  *)
(* hop or a filter is made of is not restricted, so a sequence is a        *)
(* sequence of whatever it contains.                                       *)
(***************************************************************************)
EXTENDS Messaging, TLAPS

\* a leaf is left to Zenon unless it names SMT
USE ZenonT(40)

-----------------------------------------------------------------------------
(* Sequences *)

IsSeq(s) == s \in Seq(Range(s))

\* A sequence has a length, and its positions are numbered from one.
LEMMA Shape ==
  ASSUME NEW s, IsSeq(s)
  PROVE  Len(s) \in Nat /\ DOMAIN s = 1..Len(s)
BY SMTT(30) DEF IsSeq

\* A sequence of elements of some set is a sequence.
LEMMA IsSeqOf ==
  ASSUME NEW S, NEW s, s \in Seq(S)
  PROVE  IsSeq(s)
<1>1. Len(s) \in Nat /\ s \in [1..Len(s) -> S]
  BY SMTT(30)
<1>2. \A i \in 1..Len(s) : s[i] \in Range(s)
  BY <1>1 DEF Range
<1>3. s \in [1..Len(s) -> Range(s)]
  BY <1>1, <1>2
<1> QED
  BY <1>1, <1>3, SMTT(30) DEF IsSeq

\* Append adds one element behind the others.
LEMMA AppendSeq ==
  ASSUME NEW s, IsSeq(s), NEW x
  PROVE  /\ IsSeq(Append(s, x)) /\ Len(Append(s, x)) = Len(s) + 1
         /\ \A i \in 1..Len(s) : Append(s, x)[i] = s[i]
         /\ Append(s, x)[Len(s) + 1] = x
<1> DEFINE S == Range(s) \cup {x}
<1>1. s \in Seq(S) /\ x \in S
  <2>1. Len(s) \in Nat /\ DOMAIN s = 1..Len(s) /\ s = [i \in 1..Len(s) |-> s[i]]
    BY SMTT(30) DEF IsSeq
  <2>2. \A i \in 1..Len(s) : s[i] \in S
    BY <2>1 DEF Range
  <2> HIDE DEF S
  <2> [i \in 1..Len(s) |-> s[i]] \in Seq(S)
    BY <2>1, <2>2, SMTT(30)
  <2> QED
    BY <2>1 DEF S
<1> HIDE DEF S
<1>2. Append(s, x) \in Seq(S)
  BY <1>1, SMTT(30)
<1>3. IsSeq(Append(s, x))
  BY <1>2, IsSeqOf
<1> QED
  BY <1>1, <1>2, <1>3, SMTT(30)

\* Tail takes the first element off.
LEMMA TailSeq ==
  ASSUME NEW s, IsSeq(s), s # << >>
  PROVE  /\ Len(s) >= 1 /\ Head(s) = s[1]
         /\ IsSeq(Tail(s)) /\ Len(Tail(s)) = Len(s) - 1
         /\ \A i \in 1..(Len(s) - 1) : Tail(s)[i] = s[i + 1]
<1> DEFINE S == Range(s)
<1>1. s \in Seq(S)
  BY DEF IsSeq
<1> HIDE DEF S
<1>2. Tail(s) \in Seq(S)
  BY <1>1, SMTT(30)
<1>3. IsSeq(Tail(s))
  BY <1>2, IsSeqOf
<1> QED
  BY <1>1, <1>2, <1>3, SMTT(30)

\* RemoveAt closes the gap.
LEMMA RemoveAtSeq ==
  ASSUME NEW s, IsSeq(s), NEW i \in 1..Len(s)
  PROVE  /\ IsSeq(RemoveAt(s, i)) /\ Len(RemoveAt(s, i)) = Len(s) - 1
         /\ \A j \in 1..(Len(s) - 1) : RemoveAt(s, i)[j] = IF j < i THEN s[j] ELSE s[j + 1]
<1> DEFINE S == Range(s)
           a == SubSeq(s, 1, i - 1)
           b == SubSeq(s, i + 1, Len(s))
<1>1. s \in Seq(S) /\ Len(s) \in Nat
  BY Shape DEF IsSeq
<1> HIDE DEF S
<1>2. a \in Seq(S) /\ Len(a) = i - 1 /\ \A j \in 1..(i - 1) : a[j] = s[j]
  BY <1>1, SMTT(30)
<1>3. b \in Seq(S) /\ Len(b) = Len(s) - i /\ \A j \in 1..(Len(s) - i) : b[j] = s[j + i]
  BY <1>1, SMTT(30)
<1>4. RemoveAt(s, i) = a \o b
  BY DEF RemoveAt
<1> HIDE DEF a, b
<1>5. /\ a \o b \in Seq(S) /\ Len(a \o b) = Len(s) - 1
      /\ \A j \in 1..(Len(s) - 1) : (a \o b)[j] = IF j < i THEN a[j] ELSE b[j - (i - 1)]
  <2>1. a \in Seq(S) /\ b \in Seq(S)
    BY <1>2, <1>3
  <2>2. a \o b \in Seq(S) /\ Len(a \o b) = Len(a) + Len(b)
    BY <2>1, SMTT(30)
  <2>3. \A j \in 1..(Len(a) + Len(b)) : (a \o b)[j] = IF j <= Len(a) THEN a[j] ELSE b[j - Len(a)]
    BY <2>1, SMTT(30)
  <2> QED
    BY <1>1, <1>2, <1>3, <2>2, <2>3, SMTT(30)
<1>6. \A j \in 1..(Len(s) - 1) : (a \o b)[j] = IF j < i THEN s[j] ELSE s[j + 1]
  <2> SUFFICES ASSUME NEW j \in 1..(Len(s) - 1)
               PROVE  (a \o b)[j] = IF j < i THEN s[j] ELSE s[j + 1]
    OBVIOUS
  <2>1. CASE j < i
    BY <1>1, <1>2, <1>5, <2>1, SMTT(30)
  <2>2. CASE ~(j < i)
    <3>1. j - (i - 1) \in 1..(Len(s) - i) /\ j - (i - 1) + i = j + 1
      BY <1>1, <2>2, SMTT(30)
    <3> QED
      BY <1>3, <1>5, <2>2, <3>1
  <2> QED
    BY <2>1, <2>2
<1>7. IsSeq(a \o b)
  BY <1>5, IsSeqOf
<1> QED
  BY <1>4, <1>5, <1>6, <1>7

-----------------------------------------------------------------------------
(* Waiting lists *)

\* the flows of a waiting list, and that none is in it twice
Flows(s) == {s[i].flow : i \in DOMAIN s}
Distinct(s) == \A i, j \in DOMAIN s : s[i].flow = s[j].flow => i = j

\* WaitingQueue push_back: one more sender.
LEMMA AppendFlows ==
  ASSUME NEW s, IsSeq(s), NEW x
  PROVE  /\ Flows(Append(s, x)) = Flows(s) \cup {x.flow}
         /\ Distinct(s) /\ x.flow \notin Flows(s) => Distinct(Append(s, x))
<1> DEFINE n == Len(s)
           t == Append(s, x)
<1>1. n \in Nat /\ DOMAIN s = 1..n
  BY Shape
<1>2. /\ IsSeq(t) /\ Len(t) = n + 1 /\ t[n + 1] = x
      /\ \A i \in 1..n : t[i] = s[i]
  BY AppendSeq, SMTT(30)
<1> HIDE DEF t, n
<1>3. DOMAIN t = 1..(n + 1)
  BY <1>2, Shape
<1>4. Flows(t) = Flows(s) \cup {x.flow}
  <2>1. ASSUME NEW g \in Flows(t) PROVE g \in Flows(s) \cup {x.flow}
    <3>1. PICK i \in 1..(n + 1) : g = t[i].flow
      BY <1>3, <2>1 DEF Flows
    <3>2. CASE i = n + 1
      BY <1>2, <3>1, <3>2
    <3>3. CASE i # n + 1
      <4>1. i \in 1..n
        BY <1>1, <3>3, SMTT(30)
      <4> QED
        BY <1>1, <1>2, <3>1, <4>1 DEF Flows
    <3> QED
      BY <3>2, <3>3
  <2>2. ASSUME NEW g \in Flows(s) PROVE g \in Flows(t)
    <3>1. PICK i \in 1..n : g = s[i].flow
      BY <1>1, <2>2 DEF Flows
    <3>2. i \in 1..(n + 1)
      BY <1>1, SMTT(30)
    <3> QED
      BY <1>2, <1>3, <3>1, <3>2 DEF Flows
  <2>3. x.flow \in Flows(t)
    <3>1. n + 1 \in 1..(n + 1)
      BY <1>1, SMTT(30)
    <3> QED
      BY <1>2, <1>3, <3>1 DEF Flows
  <2> QED
    BY <2>1, <2>2, <2>3
<1>5. ASSUME Distinct(s), x.flow \notin Flows(s) PROVE Distinct(t)
  <2> SUFFICES ASSUME NEW i \in 1..(n + 1), NEW j \in 1..(n + 1), t[i].flow = t[j].flow
               PROVE  i = j
    BY <1>3 DEF Distinct
  <2>1. \A k \in 1..n : t[k].flow = s[k].flow /\ s[k].flow # x.flow
    BY <1>1, <1>2, <1>5 DEF Flows
  <2>2. (i \in 1..n \/ i = n + 1) /\ (j \in 1..n \/ j = n + 1)
    BY <1>1, SMTT(30)
  <2> QED
    BY <1>1, <1>2, <1>5, <2>1, <2>2 DEF Distinct
<1> QED
  BY <1>4, <1>5 DEF t

\* Removing position k takes its sender out, and the others stay.
LEMMA RemoveFlows ==
  ASSUME NEW s, IsSeq(s), Distinct(s), NEW k \in 1..Len(s), NEW t, IsSeq(t),
         Len(t) = Len(s) - 1,
         \A j \in 1..(Len(s) - 1) : t[j] = IF j < k THEN s[j] ELSE s[j + 1]
  PROVE  Flows(t) = Flows(s) \ {s[k].flow} /\ Distinct(t)
<1> DEFINE n == Len(s)
           at(j) == IF j < k THEN j ELSE j + 1
<1>1. n \in Nat /\ DOMAIN s = 1..n /\ DOMAIN t = 1..(n - 1) /\ k \in 1..n
  BY Shape
<1>2. \A j \in 1..(n - 1) : at(j) \in 1..n /\ at(j) # k /\ t[j] = s[at(j)]
  BY <1>1, SMTT(30)
<1>3. \A i, j \in 1..(n - 1) : at(i) = at(j) => i = j
  BY <1>1, SMTT(30)
<1>4. \A i \in 1..n : i # k => \E j \in 1..(n - 1) : at(j) = i
  <2> SUFFICES ASSUME NEW i \in 1..n, i # k PROVE \E j \in 1..(n - 1) : at(j) = i
    OBVIOUS
  <2>1. CASE i < k
    <3>1. i \in 1..(n - 1) /\ at(i) = i
      BY <1>1, <2>1, SMTT(30)
    <3> QED
      BY <3>1
  <2>2. CASE i > k
    <3>1. i - 1 \in 1..(n - 1) /\ at(i - 1) = i
      BY <1>1, <2>2, SMTT(30)
    <3> QED
      BY <3>1
  <2> QED
    BY <1>1, <2>1, <2>2, SMTT(30)
<1> HIDE DEF at, n
<1>5. Distinct(t)
  <2> SUFFICES ASSUME NEW i \in 1..(n - 1), NEW j \in 1..(n - 1), t[i].flow = t[j].flow
               PROVE  i = j
    BY <1>1 DEF Distinct
  <2>1. at(i) \in DOMAIN s /\ at(j) \in DOMAIN s /\ s[at(i)].flow = s[at(j)].flow
    BY <1>1, <1>2
  <2>2. at(i) = at(j)
    BY <2>1 DEF Distinct
  <2> QED
    BY <1>3, <2>2
<1>6. ASSUME NEW g \in Flows(t) PROVE g \in Flows(s) \ {s[k].flow}
  <2>1. PICK j \in 1..(n - 1) : g = t[j].flow
    BY <1>1, <1>6 DEF Flows
  <2>2. at(j) \in 1..n /\ at(j) # k /\ t[j] = s[at(j)]
    BY <1>2
  <2>3. g \in Flows(s)
    BY <1>1, <2>1, <2>2 DEF Flows
  <2>4. g # s[k].flow
    BY <1>1, <2>1, <2>2 DEF Distinct
  <2> QED
    BY <2>3, <2>4
<1>7. ASSUME NEW g \in Flows(s), g # s[k].flow PROVE g \in Flows(t)
  <2>1. PICK i \in 1..n : g = s[i].flow
    BY <1>1, <1>7 DEF Flows
  <2>2. i # k
    BY <1>7, <2>1
  <2>3. PICK j \in 1..(n - 1) : at(j) = i
    BY <1>4, <2>2
  <2> QED
    BY <1>1, <1>2, <2>1, <2>3 DEF Flows
<1> QED
  BY <1>5, <1>6, <1>7

\* pop_front: the head waiter leaves.
LEMMA TailFlows ==
  ASSUME NEW s, IsSeq(s), s # << >>, Distinct(s)
  PROVE  /\ IsSeq(Tail(s)) /\ Distinct(Tail(s))
         /\ Head(s).flow \in Flows(s) /\ Flows(Tail(s)) = Flows(s) \ {Head(s).flow}
<1>1. /\ Len(s) >= 1 /\ Head(s) = s[1] /\ IsSeq(Tail(s)) /\ Len(Tail(s)) = Len(s) - 1
      /\ \A i \in 1..(Len(s) - 1) : Tail(s)[i] = s[i + 1]
  BY TailSeq
<1>2. Len(s) \in Nat /\ DOMAIN s = 1..Len(s) /\ 1 \in 1..Len(s)
  BY <1>1, Shape, SMTT(30)
<1>3. \A j \in 1..(Len(s) - 1) : Tail(s)[j] = IF j < 1 THEN s[j] ELSE s[j + 1]
  BY <1>1, <1>2, SMTT(30)
<1>4. Flows(Tail(s)) = Flows(s) \ {s[1].flow} /\ Distinct(Tail(s))
  BY <1>1, <1>2, <1>3, RemoveFlows
<1> QED
  BY <1>1, <1>2, <1>4 DEF Flows

\* take_waiting_sender: flow f leaves the list, wherever it was.
LEMMA DropFlows ==
  ASSUME NEW s, IsSeq(s), Distinct(s), NEW f, NEW i,
         i = First({j \in DOMAIN s : s[j].flow = f})
  PROVE  LET t == IF i = 0 THEN s ELSE RemoveAt(s, i)
         IN  /\ IsSeq(t) /\ Distinct(t) /\ Flows(t) = Flows(s) \ {f}
             /\ (i # 0) <=> (f \in Flows(s))
<1> DEFINE I == {j \in DOMAIN s : s[j].flow = f}
           t == IF i = 0 THEN s ELSE RemoveAt(s, i)
<1>1. i = IF I = {} THEN 0 ELSE CHOOSE x \in I : \A y \in I : x <= y
  BY DEF First
<1>2. Len(s) \in Nat /\ DOMAIN s = 1..Len(s)
  BY Shape
<1>3. CASE I = {}
  <2>1. f \notin Flows(s)
    BY <1>3 DEF Flows
  <2> QED
    BY <1>1, <1>3, <2>1
<1>4. CASE I # {}
  <2>1. PICK k \in 1..Len(s) : s[k].flow = f
    BY <1>2, <1>4
  <2>2. I = {k}
    BY <1>2, <2>1 DEF Distinct
  <2>3. i = k /\ k # 0
    <3>1. k <= k /\ k # 0
      BY <1>2, SMTT(30)
    <3> QED
      BY <1>1, <2>2, <3>1, SMTT(30)
  <2>4. t = RemoveAt(s, k) /\ f \in Flows(s)
    BY <1>2, <2>1, <2>3 DEF Flows
  <2> HIDE DEF t, I
  <2>5. /\ IsSeq(t) /\ Len(t) = Len(s) - 1
        /\ \A j \in 1..(Len(s) - 1) : t[j] = IF j < k THEN s[j] ELSE s[j + 1]
    BY <2>4, RemoveAtSeq
  <2>6. Flows(t) = Flows(s) \ {s[k].flow} /\ Distinct(t)
    BY <2>5, RemoveFlows
  <2> QED
    BY <2>1, <2>3, <2>4, <2>5, <2>6 DEF t
<1> QED
  BY <1>3, <1>4

-----------------------------------------------------------------------------
(* The work list of finalize_flow *)

\* Vec::pop on a list of different flows.
LEMMA PopFacts ==
  ASSUME NEW s \in Seq(Flow), s # << >>, IsInjective(s)
  PROVE  /\ Last(s) \in Flow /\ Front(s) \in Seq(Flow) /\ IsInjective(Front(s))
         /\ Last(s) \notin Range(Front(s)) /\ Range(s) = Range(Front(s)) \cup {Last(s)}
<1>1. Len(s) \in Nat /\ Len(s) # 0 /\ DOMAIN s = 1..Len(s)
  BY SMTT(30)
<1>2. PICK n \in Nat : Len(s) = n + 1
  <2>1. Len(s) - 1 \in Nat /\ Len(s) = (Len(s) - 1) + 1
    BY <1>1, SMTT(30)
  <2> QED
    BY <2>1
<1>3. Front(s) = SubSeq(s, 1, n) /\ Last(s) = s[n + 1]
  BY <1>2, SMTT(30) DEF Front, Last
<1>4. PICK f : f = Front(s)
  OBVIOUS
<1>5. f \in Seq(Flow) /\ DOMAIN f = 1..n /\ \A i \in 1..n : f[i] = s[i]
  BY <1>2, <1>3, <1>4, SMTT(30)
<1>6. s[n + 1] \in Flow
  BY <1>2, SMTT(30)
<1>7. IsInjective(f)
  BY <1>1, <1>2, <1>5, SMTT(30) DEF IsInjective
<1>8. s[n + 1] \notin Range(f)
  <2>1. \A i \in 1..n : f[i] # s[n + 1]
    BY <1>1, <1>2, <1>5, SMTT(30) DEF IsInjective
  <2> QED
    BY <1>5, <2>1 DEF Range
<1>9. Range(s) = Range(f) \cup {s[n + 1]}
  <2>1. \A i \in 1..(n + 1) : i \in 1..n \/ i = n + 1
    BY SMTT(30)
  <2>2. \A i \in 1..n : i \in 1..(n + 1)
    BY SMTT(30)
  <2>3. n + 1 \in 1..(n + 1) /\ DOMAIN s = 1..(n + 1)
    BY <1>1, <1>2, SMTT(30)
  <2>4. \A x \in Range(s) : x \in Range(f) \cup {s[n + 1]}
    BY <1>5, <2>1, <2>3 DEF Range
  <2>5. \A x \in Range(f) \cup {s[n + 1]} : x \in Range(s)
    BY <1>5, <2>2, <2>3 DEF Range
  <2> QED
    BY <2>4, <2>5
<1> QED
  BY <1>3, <1>4, <1>5, <1>6, <1>7, <1>8, <1>9

\* The flows of a waiting list, in its order.
LEMMA DrainFacts ==
  ASSUME NEW q, IsSeq(q), Distinct(q), Flows(q) \subseteq Flow, NEW d,
         d = [i \in DOMAIN q |-> q[i].flow]
  PROVE  d \in Seq(Flow) /\ IsInjective(d) /\ Range(d) = Flows(q)
<1>1. Len(q) \in Nat /\ DOMAIN q = 1..Len(q)
  BY Shape
<1>2. DOMAIN d = DOMAIN q /\ \A i \in DOMAIN q : d[i] = q[i].flow
  OBVIOUS
<1>3. \A i \in DOMAIN q : q[i].flow \in Flow
  BY DEF Flows
<1>4. PICK n \in Nat : n = Len(q)
  BY <1>1
<1>5. d = [i \in 1..n |-> d[i]] /\ \A i \in 1..n : d[i] \in Flow
  BY <1>1, <1>2, <1>3, <1>4
<1>6. [i \in 1..n |-> d[i]] \in Seq(Flow)
  BY <1>5, SMTT(30)
<1>7. d \in Seq(Flow)
  BY <1>5, <1>6
<1>8. IsInjective(d)
  BY <1>2 DEF IsInjective, Distinct
<1>9. Range(d) = Flows(q)
  BY <1>2 DEF Range, Flows
<1> QED
  BY <1>7, <1>8, <1>9

\* Vec::extend with flows that are not in the list.
LEMMA ExtendFacts ==
  ASSUME NEW a \in Seq(Flow), NEW b \in Seq(Flow), IsInjective(a), IsInjective(b),
         \A x \in Range(a) : x \notin Range(b), NEW c, c = a \o b
  PROVE  c \in Seq(Flow) /\ IsInjective(c) /\ Range(c) = Range(a) \cup Range(b)
<1>1. PICK m \in Nat, n \in Nat : m = Len(a) /\ n = Len(b)
  BY SMTT(30)
<1>2. DOMAIN a = 1..m /\ DOMAIN b = 1..n /\ DOMAIN c = 1..(m + n) /\ c \in Seq(Flow)
  BY <1>1, SMTT(30)
<1>3. /\ \A i \in 1..m : c[i] = a[i]
      /\ \A i \in 1..n : c[m + i] = b[i]
  BY <1>1, SMTT(30)
<1>4. \A i \in 1..(m + n) : i \in 1..m \/ \E j \in 1..n : i = m + j
  <2> SUFFICES ASSUME NEW i \in 1..(m + n), i \notin 1..m PROVE \E j \in 1..n : i = m + j
    OBVIOUS
  <2>1. i - m \in 1..n /\ i = m + (i - m)
    BY SMTT(30)
  <2> QED
    BY <2>1
<1>5. \A i \in 1..m : i \in 1..(m + n)
  BY SMTT(30)
<1>6. \A j \in 1..n : m + j \in 1..(m + n)
  BY SMTT(30)
<1>7. Range(c) = Range(a) \cup Range(b)
  <2>1. ASSUME NEW x \in Range(c) PROVE x \in Range(a) \cup Range(b)
    <3>1. PICK i \in 1..(m + n) : x = c[i]
      BY <1>2 DEF Range
    <3>2. CASE i \in 1..m
      BY <1>2, <1>3, <3>1, <3>2 DEF Range
    <3>3. CASE \E j \in 1..n : i = m + j
      BY <1>2, <1>3, <3>1, <3>3 DEF Range
    <3> QED
      BY <1>4, <3>2, <3>3
  <2>2. \A x \in Range(a) \cup Range(b) : x \in Range(c)
    <3>1. Range(a) \subseteq Range(c)
      BY <1>2, <1>3, <1>5 DEF Range
    <3>2. Range(b) \subseteq Range(c)
      <4> SUFFICES ASSUME NEW x \in Range(b) PROVE x \in Range(c)
        OBVIOUS
      <4>1. PICK j \in 1..n : x = b[j]
        BY <1>2 DEF Range
      <4>2. m + j \in 1..(m + n) /\ c[m + j] = x
        BY <1>3, <1>6, <4>1
      <4> QED
        BY <1>2, <4>2 DEF Range
    <3> QED
      BY <3>1, <3>2
  <2> QED
    BY <2>1, <2>2
<1>8. IsInjective(c)
  <2> SUFFICES ASSUME NEW i \in 1..(m + n), NEW k \in 1..(m + n), c[i] = c[k] PROVE i = k
    BY <1>2 DEF IsInjective
  <2>1. \A x \in 1..m, y \in 1..m : a[x] = a[y] => x = y
    BY <1>2 DEF IsInjective
  <2>2. \A x \in 1..n, y \in 1..n : b[x] = b[y] => x = y
    BY <1>2 DEF IsInjective
  <2>3. \A x \in 1..m, y \in 1..n : a[x] # b[y]
    BY <1>2 DEF Range
  <2>4. CASE i \in 1..m /\ k \in 1..m
    BY <1>3, <2>1, <2>4
  <2>5. CASE i \in 1..m /\ \E y \in 1..n : k = m + y
    <3>1. PICK y \in 1..n : k = m + y
      BY <2>5
    <3>2. c[i] = a[i] /\ c[k] = b[y] /\ a[i] # b[y]
      BY <1>3, <2>3, <2>5, <3>1
    <3> QED
      BY <3>2
  <2>6. CASE k \in 1..m /\ \E y \in 1..n : i = m + y
    <3>1. PICK y \in 1..n : i = m + y
      BY <2>6
    <3>2. c[k] = a[k] /\ c[i] = b[y] /\ a[k] # b[y]
      BY <1>3, <2>3, <2>6, <3>1
    <3> QED
      BY <3>2
  <2>7. CASE (\E x \in 1..n : i = m + x) /\ (\E y \in 1..n : k = m + y)
    <3>1. PICK x \in 1..n, y \in 1..n : i = m + x /\ k = m + y
      BY <2>7
    <3>2. c[i] = b[x] /\ c[k] = b[y]
      BY <1>3, <3>1
    <3>3. x = y
      BY <2>2, <3>2
    <3> QED
      BY <3>1, <3>3
  <2> QED
    BY <1>4, <2>4, <2>5, <2>6, <2>7
<1> QED
  BY <1>2, <1>7, <1>8

-----------------------------------------------------------------------------
(* The inductive invariant *)

\* an inbox record
BoxRec(policy, queue, bytes, parked, filter, epoch, waiting, closed) ==
  [policy |-> policy, queue |-> queue, bytes |-> bytes, parked |-> parked, filter |-> filter,
   epoch |-> epoch, waiting |-> waiting, closed |-> closed]

Box(m) ==
  /\ m = BoxRec(m.policy, m.queue, m.bytes, m.parked, m.filter, m.epoch, m.waiting, m.closed)
  /\ m.policy \in Policies /\ m.parked \in BOOLEAN /\ m.closed \in BOOLEAN
  /\ m.epoch \in 0..(EpochMod - 1)
  /\ IsSeq(m.waiting) /\ Flows(m.waiting) \subseteq Flow

\* the positions of finalize_flow after the inbox was closed
Closing == {"fin_asks", "fin_orphan", "fin_unregister"}

\* the positions at which cur, f and to are flows
Driving == {"run", "handoff", "index", "park_send", "admit", "ask_pop", "park"}
OnFlow == Helping \cup {"wkill_check", "wkill_take", "kill_check", "kill_take", "kill_restore",
                        "ask_check", "ask_live", "ask_gone", "x_parked", "x_index", "x_sender"}
OnTarget == {"handoff", "index", "park_send", "wkill_check", "wkill_take", "ask_pop",
             "ask_insert", "ask_park", "ask_check", "ask_live", "ask_gone", "x_sender"}

\* ... and those at which to is a flow when the wait is that of an Ask
Checking == {"park", "kill_check", "kill_take", "kill_restore"}

\* the positions of a thread that drives no flow
Alone == {"idle", "timeout", "wkill_check", "wkill_take", "x_parked", "x_index", "x_sender"}

MaybeFlow == Flow \cup {NoFlow}
Epoch == 0..(EpochMod - 1)

\* a thread's record
Rec(pc, cur, f, to, ask, hop, filter, timed, epoch, work, orphans) ==
  [pc |-> pc, cur |-> cur, f |-> f, to |-> to, ask |-> ask, hop |-> hop, filter |-> filter,
   timed |-> timed, epoch |-> epoch, work |-> work, orphans |-> orphans]

IsRec(l) == l = Rec(l.pc, l.cur, l.f, l.to, l.ask, l.hop, l.filter, l.timed, l.epoch, l.work,
                    l.orphans)

\* the fields have their types, and what the position says of them
Sound(l) ==
  /\ IsRec(l)
  /\ l.pc \in Pcs /\ l.cur \in MaybeFlow /\ l.f \in MaybeFlow /\ l.to \in MaybeFlow
  /\ l.epoch \in Epoch /\ l.work \in Seq(Flow) /\ l.orphans \subseteq Flow
  /\ l.pc \in Driving => l.cur \in Flow
  /\ l.pc \in OnFlow => l.f \in Flow
  /\ l.pc \in OnTarget => l.to \in Flow
  /\ l.pc \in Checking /\ l.ask => l.to \in Flow
  /\ l.pc \in Alone => l.cur = NoFlow
  /\ l.pc = "fin" => l.work # << >>
  /\ l.pc \notin Closing \cup {"fin"} => l.work = << >>
  /\ l.pc # "fin_orphan" => l.orphans = {}

\* the tables
Tables ==
  /\ runq \subseteq Flow /\ asleep \subseteq Flow /\ live \subseteq Flow
  /\ kill \subseteq Flow /\ toKill \subseteq Killable
  /\ waitAt \in [Flow -> MaybeFlow]
  /\ askWait \in [Flow -> MaybeFlow]
  /\ \A d \in timers : d \in [flow : Flow, epoch : Epoch]
  /\ issued \in [Flow -> 0..MaxOps]

Boxes == mb = [g \in Flow |-> mb[g]] /\ \A g \in Flow : Box(mb[g])
Threads == th = [t \in Thread |-> th[t]] /\ \A t \in Thread : Sound(th[t])

Types == Tables /\ Boxes /\ Threads

\* The layer Types is the type invariant and more.
LEMMA TypesTypeOK == Types => TypeOK
<1> SUFFICES ASSUME Types PROVE TypeOK
  OBVIOUS
<1>1. ASSUME NEW g \in Flow
      PROVE  /\ DOMAIN mb[g] = DOMAIN NewInbox("Reject")
             /\ mb[g].parked \in BOOLEAN /\ mb[g].closed \in BOOLEAN
             /\ mb[g].epoch \in 0..(EpochMod - 1)
             /\ \A i \in DOMAIN mb[g].waiting : mb[g].waiting[i].flow \in Flow
  <2>1. Box(mb[g])
    BY DEF Types, Boxes
  <2>2. DOMAIN mb[g] = DOMAIN NewInbox("Reject")
    <3> DEFINE m == mb[g]
    <3>1. m = [policy |-> m.policy, queue |-> m.queue, bytes |-> m.bytes, parked |-> m.parked,
          filter |-> m.filter, epoch |-> m.epoch, waiting |-> m.waiting, closed |-> m.closed]
      BY <2>1 DEF Box, BoxRec
    <3> HIDE DEF m
    <3>2. DOMAIN m = {"policy", "queue", "bytes", "parked", "filter", "epoch", "waiting", "closed"}
      BY <3>1
    <3>3. DOMAIN NewInbox("Reject") = {"policy", "queue", "bytes", "parked", "filter", "epoch", "waiting", "closed"}
      BY DEF NewInbox
    <3> QED
      BY <3>2, <3>3 DEF m
  <2> QED
    BY <2>1, <2>2 DEF Box, Flows
<1>2. \A t \in Thread :
       /\ th[t].pc \in Pcs
       /\ {th[t].cur, th[t].f, th[t].to} \subseteq Flow \cup {NoFlow}
       /\ th[t].work \in Seq(Flow) /\ th[t].orphans \subseteq Flow
  BY DEF Types, Threads, Sound, MaybeFlow
<1> QED
  BY <1>1, <1>2 DEF Types, Tables, TypeOK, MaybeFlow, Epoch

-----------------------------------------------------------------------------
(* Thread records *)

\* The fields of a record.
LEMMA RecFields ==
  ASSUME NEW pc, NEW cur, NEW f, NEW to, NEW ask, NEW hop, NEW filter, NEW timed, NEW epoch,
         NEW work, NEW orphans, NEW r,
         r = Rec(pc, cur, f, to, ask, hop, filter, timed, epoch, work, orphans)
  PROVE  /\ IsRec(r)
         /\ r.pc = pc /\ r.cur = cur /\ r.f = f /\ r.to = to /\ r.ask = ask /\ r.hop = hop
         /\ r.filter = filter /\ r.timed = timed /\ r.epoch = epoch /\ r.work = work
         /\ r.orphans = orphans
<1>1. /\ r.pc = pc /\ r.cur = cur /\ r.f = f /\ r.to = to /\ r.ask = ask /\ r.hop = hop
      /\ r.filter = filter /\ r.timed = timed /\ r.epoch = epoch /\ r.work = work
      /\ r.orphans = orphans
  BY DEF Rec
<1> QED
  BY <1>1 DEF IsRec

\* An epoch of zero.
LEMMA ZeroEpoch == 0 \in Epoch
BY MailboxAssumption, SMTT(30) DEF Epoch

\* the truth values as fields of a record
Yes == TRUE
No == FALSE

\* A record outside finalize.
LEMMA PlainRec ==
  ASSUME NEW pc \in Pcs, NEW cur \in MaybeFlow, NEW f \in MaybeFlow, NEW to \in MaybeFlow,
         NEW ask, NEW hop, NEW filter, NEW timed, NEW epoch \in Epoch, NEW r,
         r = Rec(pc, cur, f, to, ask, hop, filter, timed, epoch, << >>, {}),
         pc \in Driving => cur \in Flow, pc \in OnFlow => f \in Flow,
         pc \in OnTarget => to \in Flow, pc \in Alone => cur = NoFlow, pc # "fin",
         pc \in Checking /\ ask => to \in Flow,
         pc \in Helping => f # cur
  PROVE  /\ Sound(r) /\ HeldOnce(r)
         /\ Hand(r) = (IF cur = NoFlow THEN {} ELSE {cur})
                      \cup (IF pc \in Helping THEN {f} ELSE {})
<1>1. /\ IsRec(r) /\ r.pc = pc /\ r.cur = cur /\ r.f = f /\ r.to = to /\ r.ask = ask
      /\ r.epoch = epoch /\ r.work = << >> /\ r.orphans = {}
  <2>1. /\ r.pc = pc /\ r.cur = cur /\ r.f = f /\ r.to = to /\ r.ask = ask /\ r.hop = hop
        /\ r.filter = filter /\ r.timed = timed /\ r.epoch = epoch /\ r.work = << >>
        /\ r.orphans = {}
    BY DEF Rec
  <2>2. IsRec(r)
    BY <2>1 DEF IsRec
  <2> QED
    BY <2>1, <2>2
<1>2. << >> \in Seq(Flow) /\ Range(<< >>) = {} /\ IsInjective(<< >>)
  BY SMTT(30) DEF Range, IsInjective
<1>3. Sound(r)
  BY <1>1, <1>2 DEF Sound
<1>4. HeldOnce(r)
  BY <1>1, <1>2 DEF HeldOnce
<1>5. Hand(r) = (IF cur = NoFlow THEN {} ELSE {cur}) \cup (IF pc \in Helping THEN {f} ELSE {})
  BY <1>1, <1>2 DEF Hand
<1> QED
  BY <1>3, <1>4, <1>5

\* the thread that has nothing to do
LEMMA IdleFacts ==
  /\ IdleThread = Rec("idle", NoFlow, NoFlow, NoFlow, No, NoHop, AnyHop, No, 0, << >>, {})
  /\ Sound(IdleThread) /\ Hand(IdleThread) = {} /\ HeldOnce(IdleThread)
<1>1. IdleThread = Rec("idle", NoFlow, NoFlow, NoFlow, No, NoHop, AnyHop, No, 0, << >>, {})
  BY DEF IdleThread, Rec, No
<1>2. /\ "idle" \in Pcs /\ NoFlow \in MaybeFlow /\ "idle" # "fin" /\ "idle" \notin Driving
      /\ "idle" \notin OnFlow /\ "idle" \notin OnTarget /\ "idle" \notin Helping
      /\ "idle" \notin Checking
  BY DEF Pcs, MaybeFlow, Driving, OnFlow, OnTarget, Helping, Checking
<1> QED
  BY <1>1, <1>2, PlainRec, ZeroEpoch

\* A thread that drives g, or idles when there is none.
LEMMA RunningFacts ==
  ASSUME NEW g \in MaybeFlow
  PROVE  LET r == Running(g)
         IN  /\ r = Rec(IF g = NoFlow THEN "idle" ELSE "run", g, NoFlow, NoFlow, No, NoHop, AnyHop, No,
                        0, << >>, {})
             /\ Sound(r) /\ HeldOnce(r) /\ Hand(r) = {g} \ {NoFlow}
             /\ r.pc \in {"idle", "run"} /\ r.orphans = {} /\ r.cur = g
<1> DEFINE r == Running(g)
           pc == IF g = NoFlow THEN "idle" ELSE "run"
<1>1. r = Rec(pc, g, NoFlow, NoFlow, No, NoHop, AnyHop, No, 0, << >>, {})
  <2> HIDE DEF pc
  <2>1. Running(g) = [IdleThread EXCEPT !.pc = pc, !.cur = g]
    BY DEF Running, pc
  <2> QED
    BY <2>1, IdleFacts DEF Rec
<1>2. /\ pc \in Pcs /\ NoFlow \in MaybeFlow /\ pc # "fin" /\ (pc \in Driving => g \in Flow)
      /\ pc \notin OnFlow /\ pc \notin OnTarget /\ pc \notin Helping /\ (pc \in Alone => g = NoFlow)
      /\ pc \in {"idle", "run"} /\ pc \notin Checking
  BY DEF Pcs, MaybeFlow, Driving, OnFlow, OnTarget, Helping, Alone, Checking
<1> HIDE DEF r, pc
<1>3. Sound(r) /\ HeldOnce(r) /\ Hand(r) = (IF g = NoFlow THEN {} ELSE {g})
  BY <1>1, <1>2, PlainRec, ZeroEpoch, SMTT(30)
<1>4. r.pc = pc /\ r.orphans = {} /\ r.cur = g
  BY <1>1 DEF Rec
<1> QED
  BY <1>1, <1>2, <1>3, <1>4 DEF r, pc

\* A thread that takes g into finalize_flow.
LEMMA FinalizingFacts ==
  ASSUME NEW c \in MaybeFlow, NEW g \in Flow, c # g
  PROVE  LET r == Finalizing(c, g)
         IN  /\ Sound(r) /\ HeldOnce(r) /\ Hand(r) = ({c} \ {NoFlow}) \cup {g}
             /\ r.pc = "fin" /\ r.orphans = {}
<1> DEFINE r == Finalizing(c, g)
<1>1. r = Rec("fin", c, NoFlow, NoFlow, No, NoHop, AnyHop, No, 0, <<g>>, {})
  <2>1. r = [IdleThread EXCEPT !.pc = "fin", !.cur = c, !.work = <<g>>]
    BY DEF Finalizing
  <2> QED
    BY <2>1, IdleFacts DEF Rec
<1> HIDE DEF r
<1>2. /\ IsRec(r) /\ r.pc = "fin" /\ r.cur = c /\ r.f = NoFlow /\ r.to = NoFlow
      /\ r.epoch = 0 /\ r.work = <<g>> /\ r.orphans = {}
  <2>1. /\ r.pc = "fin" /\ r.cur = c /\ r.f = NoFlow /\ r.to = NoFlow /\ r.ask = No
        /\ r.hop = NoHop /\ r.filter = AnyHop /\ r.timed = No /\ r.epoch = 0
        /\ r.work = <<g>> /\ r.orphans = {}
    BY <1>1 DEF Rec
  <2>2. IsRec(r)
    BY <1>1, <2>1 DEF IsRec
  <2> QED
    BY <2>1, <2>2
<1>3. <<g>> \in Seq(Flow) /\ <<g>> # << >> /\ Range(<<g>>) = {g} /\ IsInjective(<<g>>)
  BY SMTT(30) DEF Range, IsInjective
<1>4. Sound(r)
  BY <1>2, <1>3, ZeroEpoch
     DEF Sound, Pcs, MaybeFlow, Driving, OnFlow, OnTarget, Helping, Closing, Alone, Checking
<1>5. HeldOnce(r) /\ Hand(r) = ({c} \ {NoFlow}) \cup {g}
  BY <1>2, <1>3 DEF Hand, HeldOnce, Helping
<1> QED
  BY <1>2, <1>4, <1>5 DEF r


-----------------------------------------------------------------------------
(* What the Mailbox methods do to an inbox *)

\* The fields of an inbox.
LEMMA BoxFields ==
  ASSUME NEW policy, NEW queue, NEW bytes, NEW parked, NEW filter, NEW epoch, NEW waiting,
         NEW closed, NEW n,
         n = BoxRec(policy, queue, bytes, parked, filter, epoch, waiting, closed)
  PROVE  /\ n.policy = policy /\ n.queue = queue /\ n.bytes = bytes /\ n.parked = parked
         /\ n.filter = filter /\ n.epoch = epoch /\ n.waiting = waiting /\ n.closed = closed
BY DEF BoxRec

\* An inbox of which only the queue is another one ...
Kept(n, m) ==
  /\ Box(n) /\ n.parked = m.parked /\ n.filter = m.filter /\ n.epoch = m.epoch
  /\ n.waiting = m.waiting /\ n.closed = m.closed

\* ... and one whose waiter was taken
Freed(n, m) ==
  /\ Box(n) /\ ~n.parked /\ n.epoch = m.epoch /\ n.waiting = m.waiting /\ n.closed = m.closed

\* The operations of the hop queue leave the rest of the inbox alone.
LEMMA QueueKept ==
  ASSUME NEW m, Box(m), NEW q, NEW b, NEW n, n = [m EXCEPT !.queue = q, !.bytes = b]
  PROVE  Kept(n, m)
<1>1. m = BoxRec(m.policy, m.queue, m.bytes, m.parked, m.filter, m.epoch, m.waiting, m.closed)
  BY DEF Box
<1>2. n = BoxRec(m.policy, q, b, m.parked, m.filter, m.epoch, m.waiting, m.closed)
  BY <1>1 DEF BoxRec
<1>4. /\ n.policy = m.policy /\ n.queue = q /\ n.bytes = b /\ n.parked = m.parked
      /\ n.filter = m.filter /\ n.epoch = m.epoch /\ n.waiting = m.waiting /\ n.closed = m.closed
  BY <1>2, BoxFields, SMTT(30)
<1>5. Box(n)
  BY <1>2, <1>4 DEF Box
<1> QED
  BY <1>4, <1>5 DEF Kept

\* An inbox is like itself.
LEMMA KeptSame ==
  ASSUME NEW m, Box(m)
  PROVE  Kept(m, m)
BY DEF Kept

\* Kept in two steps.
LEMMA KeptTwice ==
  ASSUME NEW m, NEW n, NEW k, Kept(n, m), Kept(k, n)
  PROVE  Kept(k, m)
BY DEF Kept

LEMMA PushBackKept ==
  ASSUME NEW m, Box(m), NEW h
  PROVE  Kept(PushBack(m, h), m)
<1>1. PICK n : n = [m EXCEPT !.queue = Append(m.queue, h), !.bytes = m.bytes + h.cost]
  OBVIOUS
<1>2. Kept(n, m)
  BY <1>1, QueueKept
<1> QED
  BY <1>1, <1>2 DEF PushBack

LEMMA TakeAtKept ==
  ASSUME NEW m, Box(m), NEW i
  PROVE  Kept(TakeAt(m, i), m)
<1>1. PICK n : n = [m EXCEPT !.queue = RemoveAt(m.queue, i),
                             !.bytes = SaturatingSub(m.bytes, m.queue[i].cost)]
  OBVIOUS
<1>2. Kept(n, m)
  BY <1>1, QueueKept
<1> QED
  BY <1>1, <1>2 DEF TakeAt

LEMMA EvictKept ==
  ASSUME NEW m, Box(m), NEW cost
  PROVE  Kept(EvictFor(m, cost), m)
<1>1. ASSUME NEW k PROVE Kept(DropFront(m, k), m)
  <2>1. PICK n : n = [m EXCEPT !.queue = SubSeq(m.queue, k + 1, Len(m.queue)),
                               !.bytes = SaturatingSub(m.bytes, Bytes(SubSeq(m.queue, 1, k)))]
    OBVIOUS
  <2>2. Kept(n, m)
    BY <2>1, QueueKept
  <2> QED
    BY <2>1, <2>2 DEF DropFront
<1>2. PICK k : EvictFor(m, cost) = DropFront(m, k)
  BY DEF EvictFor
<1> QED
  BY <1>1, <1>2

\* Mailbox::take_parked: nobody is parked afterwards.
LEMMA UnparkFreed ==
  ASSUME NEW m, Box(m)
  PROVE  Freed(Unpark(m), m)
<1>1. PICK n : n = [m EXCEPT !.parked = No, !.filter = AnyHop]
  OBVIOUS
<1>2. Unpark(m) = n
  BY <1>1 DEF Unpark, No
<1>3. m = BoxRec(m.policy, m.queue, m.bytes, m.parked, m.filter, m.epoch, m.waiting, m.closed)
  BY DEF Box
<1>4. n = BoxRec(m.policy, m.queue, m.bytes, No, AnyHop, m.epoch, m.waiting, m.closed)
  BY <1>1, <1>3 DEF BoxRec
<1>5. /\ n.policy = m.policy /\ n.queue = m.queue /\ n.bytes = m.bytes /\ n.parked = No
      /\ n.filter = AnyHop /\ n.epoch = m.epoch /\ n.waiting = m.waiting /\ n.closed = m.closed
  BY <1>4, BoxFields, SMTT(30)
<1>6. Box(n)
  BY <1>4, <1>5 DEF Box, No
<1> QED
  BY <1>2, <1>5, <1>6 DEF Freed, No

\* the results of MailboxQueue::enqueue
Stored == {"Queued", "QueuedDropOldest", "DroppedNewest", "MessageLimit", "ByteLimit"}

LEMMA EnqueueFacts ==
  ASSUME NEW m, Box(m), NEW h, NEW r, r = Enqueue(m, h, m.policy)
  PROVE  r.out \in Stored /\ Kept(r.mb, m)
<1>1. CASE Fits(m, h.cost)
  <2>1. r.mb = PushBack(m, h) /\ r.out = "Queued"
    BY <1>1 DEF Enqueue
  <2> QED
    BY <2>1, PushBackKept DEF Stored
<1>2. CASE ~Fits(m, h.cost) /\ m.policy = "Reject"
  <2>1. r.mb = m /\ r.out = FullReason(m)
    BY <1>2 DEF Enqueue
  <2>2. FullReason(m) \in Stored
    BY DEF FullReason, Stored
  <2> QED
    BY <2>1, <2>2, KeptSame
<1>3. CASE ~Fits(m, h.cost) /\ m.policy = "DropNewest"
  <2>1. r.mb = m /\ r.out = "DroppedNewest"
    BY <1>3 DEF Enqueue
  <2> QED
    BY <2>1, KeptSame DEF Stored
<1>4. CASE ~Fits(m, h.cost) /\ m.policy = "DropOldest"
  <2> DEFINE room == EvictFor(m, h.cost)
  <2>1. \/ r.mb = room /\ r.out = "ByteLimit"
        \/ r.mb = PushBack(room, h) /\ r.out = "QueuedDropOldest"
    <3>1. CASE WouldExceedBytes(room, h.cost)
      BY <1>4, <3>1 DEF Enqueue
    <3>2. CASE ~WouldExceedBytes(room, h.cost)
      BY <1>4, <3>2 DEF Enqueue
    <3> QED
      BY <3>1, <3>2
  <2>2. Kept(room, m)
    BY EvictKept
  <2> HIDE DEF room
  <2>3. Box(room)
    BY <2>2 DEF Kept
  <2>4. Kept(PushBack(room, h), m)
    BY <2>2, <2>3, PushBackKept, KeptTwice
  <2> QED
    BY <2>1, <2>2, <2>4 DEF Stored
<1>5. m.policy \in {"Reject", "DropNewest", "DropOldest"}
  BY MailboxAssumption DEF Box
<1> QED
  BY <1>1, <1>2, <1>3, <1>4, <1>5

\* Mailbox::push: the hop is stored, refused, or takes the waiter.
LEMMA PushFacts ==
  ASSUME NEW m, Box(m), NEW h, NEW r, r = Push(m, h)
  PROVE  \/ r.out \in Stored \cup {"Closed"} /\ Kept(r.mb, m)
         \/ r.out = "Handoff" /\ m.parked /\ Freed(r.mb, m)
<1>0. m.closed \in BOOLEAN
  BY DEF Box
<1>1. CASE m.closed
  <2>1. r.mb = m /\ r.out = "Closed"
    BY <1>1 DEF Push
  <2> QED
    BY <2>1, KeptSame
<1>2. CASE ~m.closed /\ WakesWaiter(m, h)
  <2>1. r.mb = Unpark(m) /\ r.out = "Handoff"
    BY <1>2 DEF Push
  <2> QED
    BY <1>2, <2>1, UnparkFreed DEF WakesWaiter
<1>3. CASE ~m.closed /\ ~WakesWaiter(m, h)
  <2>1. r = Enqueue(m, h, m.policy)
    BY <1>3 DEF Push
  <2> QED
    BY <2>1, EnqueueFacts
<1> QED
  BY <1>0, <1>1, <1>2, <1>3

\* Mailbox::try_pop_filter: at most a hop leaves the queue.
LEMMA TryPopFacts ==
  ASSUME NEW m, Box(m), NEW filter, NEW r, r = TryPop(m, filter)
  PROVE  Kept(r.mb, m)
<1>1. CASE FirstMatch(m, filter) = 0
  <2>1. r.mb = m
    BY <1>1 DEF TryPop
  <2> QED
    BY <2>1, KeptSame
<1>2. CASE FirstMatch(m, filter) # 0
  <2>1. r.mb = TakeAt(m, FirstMatch(m, filter))
    BY <1>2 DEF TryPop
  <2> QED
    BY <2>1, TakeAtKept
<1> QED
  BY <1>1, <1>2

\* Mailbox::park_filter: a hop is taken, or the waiter is installed in a new epoch.
LEMMA ParkFilterFacts ==
  ASSUME NEW m, Box(m), NEW filter, NEW r, r = ParkFilter(m, filter)
  PROVE  /\ r.hop # NoHop => Kept(r.mb, m)
         /\ r.hop = NoHop => /\ Box(r.mb) /\ r.mb.parked /\ r.mb.filter = filter
                             /\ r.mb.waiting = m.waiting /\ r.mb.closed = m.closed
<1> DEFINE pop == TryPop(m, filter)
<1>1. CASE pop.hop # NoHop
  <2>1. r = pop
    BY <1>1 DEF ParkFilter
  <2> QED
    BY <1>1, <2>1, TryPopFacts
<1>2. CASE pop.hop = NoHop
  <2>1. r.mb = InstallWaiter(m, filter) /\ r.hop = NoHop
    BY <1>2 DEF ParkFilter
  <2>2. PICK e : e = (m.epoch + 1) % EpochMod
    OBVIOUS
  <2>3. e \in Epoch
    <3>1. m.epoch \in Nat /\ EpochMod \in Nat /\ EpochMod > 0
      BY MailboxAssumption, SMTT(30) DEF Box
    <3> QED
      BY <2>2, <3>1, SMTT(30) DEF Epoch
  <2>4. PICK n : n = [m EXCEPT !.epoch = e, !.filter = filter, !.parked = Yes]
    OBVIOUS
  <2>5. r.mb = n
    BY <2>1, <2>2, <2>4 DEF InstallWaiter, Yes
  <2>6. m = BoxRec(m.policy, m.queue, m.bytes, m.parked, m.filter, m.epoch, m.waiting, m.closed)
    BY DEF Box
  <2>7. n = BoxRec(m.policy, m.queue, m.bytes, Yes, filter, e, m.waiting, m.closed)
    BY <2>4, <2>6 DEF BoxRec
  <2>8. /\ n.policy = m.policy /\ n.queue = m.queue /\ n.bytes = m.bytes /\ n.parked = Yes
        /\ n.filter = filter /\ n.epoch = e /\ n.waiting = m.waiting /\ n.closed = m.closed
    BY <2>7, BoxFields, SMTT(30)
  <2>9. Box(n)
    BY <2>3, <2>7, <2>8 DEF Box, Yes, Epoch
  <2> QED
    BY <2>1, <2>5, <2>8, <2>9 DEF Yes
<1> QED
  BY <1>1, <1>2

\* Mailbox::take_parked and take_parked_at: the waiter is taken, or nothing happens.
LEMMA TakeParkedFacts ==
  ASSUME NEW m, Box(m), NEW r, r = TakeParked(m)
  PROVE  Freed(r.mb, m) /\ r.taken = m.parked
<1>1. r.mb = Unpark(m) /\ r.taken = m.parked
  BY DEF TakeParked
<1> QED
  BY <1>1, UnparkFreed

LEMMA TakeParkedAtFacts ==
  ASSUME NEW m, Box(m), NEW e, NEW r, r = TakeParkedAt(m, e)
  PROVE  \/ r.taken /\ m.parked /\ Freed(r.mb, m)
         \/ ~r.taken /\ r.mb = m
<1>1. CASE m.epoch = e /\ m.parked
  <2>1. r.mb = Unpark(m) /\ r.taken = TRUE
    BY <1>1 DEF TakeParkedAt
  <2> QED
    BY <1>1, <2>1, UnparkFreed
<1>2. CASE ~(m.epoch = e /\ m.parked)
  <2>1. r.mb = m /\ r.taken = FALSE
    BY <1>2 DEF TakeParkedAt
  <2> QED
    BY <2>1
<1> QED
  BY <1>1, <1>2

\* an inbox with another waiting list
Listed(n, m) ==
  Box(n) /\ n.parked = m.parked /\ n.filter = m.filter /\ n.closed = m.closed

\* Replacing the waiting list.
LEMMA WaitingListed ==
  ASSUME NEW m, Box(m), NEW s, IsSeq(s), Flows(s) \subseteq Flow, NEW n,
         n = [m EXCEPT !.waiting = s]
  PROVE  Listed(n, m) /\ n.waiting = s
<1>1. m = BoxRec(m.policy, m.queue, m.bytes, m.parked, m.filter, m.epoch, m.waiting, m.closed)
  BY DEF Box
<1>2. n = BoxRec(m.policy, m.queue, m.bytes, m.parked, m.filter, m.epoch, s, m.closed)
  BY <1>1 DEF BoxRec
<1>3. /\ n.policy = m.policy /\ n.queue = m.queue /\ n.bytes = m.bytes /\ n.parked = m.parked
      /\ n.filter = m.filter /\ n.epoch = m.epoch /\ n.waiting = s /\ n.closed = m.closed
  BY <1>2, BoxFields, SMTT(30)
<1>4. Box(n)
  BY <1>2, <1>3 DEF Box
<1> QED
  BY <1>3, <1>4 DEF Listed

\* Mailbox::close
LEMMA CloseFacts ==
  ASSUME NEW m, Box(m), NEW n, n = Close(m)
  PROVE  /\ Box(n) /\ n.parked = m.parked /\ n.filter = m.filter /\ n.closed
         /\ Flows(n.waiting) = {} /\ Distinct(n.waiting)
<1>1. PICK k : k = [m EXCEPT !.closed = Yes, !.waiting = << >>]
  OBVIOUS
<1>2. n = k
  BY <1>1 DEF Close, Yes
<1>3. m = BoxRec(m.policy, m.queue, m.bytes, m.parked, m.filter, m.epoch, m.waiting, m.closed)
  BY DEF Box
<1>4. n = BoxRec(m.policy, m.queue, m.bytes, m.parked, m.filter, m.epoch, << >>, Yes)
  BY <1>1, <1>2, <1>3 DEF BoxRec
<1>5. IsSeq(<< >>) /\ Flows(<< >>) = {} /\ Distinct(<< >>)
  BY SMTT(30) DEF IsSeq, Flows, Distinct
<1>6. /\ n.policy = m.policy /\ n.queue = m.queue /\ n.bytes = m.bytes /\ n.parked = m.parked
      /\ n.filter = m.filter /\ n.epoch = m.epoch /\ n.waiting = << >> /\ n.closed = Yes
  BY <1>4, BoxFields, SMTT(30)
<1>7. Box(n)
  BY <1>4, <1>5, <1>6 DEF Box, Yes
<1> QED
  BY <1>5, <1>6, <1>7 DEF Yes

\* Mailbox::park_sender: the sender joins the list of an open inbox, or the list stays.
LEMMA ParkSenderFacts ==
  ASSUME NEW m, Box(m), NEW w, w.flow \in Flow, w.flow \notin Flows(m.waiting),
         Distinct(m.waiting), NEW r, r = ParkSender(m, w)
  PROVE  \/ r.out \in {"Undeliverable", "Closed", "Delivered", "WaitersFull"} /\ Kept(r.mb, m)
         \/ /\ r.out = "Parked" /\ ~m.closed /\ Listed(r.mb, m) /\ Distinct(r.mb.waiting)
            /\ Flows(r.mb.waiting) = Flows(m.waiting) \cup {w.flow}
<1>0. m.closed \in BOOLEAN /\ IsSeq(m.waiting) /\ Flows(m.waiting) \subseteq Flow
  BY DEF Box
<1>1. CASE ~CanEverFit(w.hop.cost)
  <2>1. r.mb = m /\ r.out = "Undeliverable"
    BY <1>1 DEF ParkSender
  <2> QED
    BY <2>1, KeptSame
<1>2. CASE CanEverFit(w.hop.cost) /\ m.closed
  <2>1. r.mb = m /\ r.out = "Closed"
    BY <1>2 DEF ParkSender
  <2> QED
    BY <2>1, KeptSame
<1>3. CASE CanEverFit(w.hop.cost) /\ ~m.closed /\ Fits(m, w.hop.cost)
  <2>1. r.mb = PushBack(m, w.hop) /\ r.out = "Delivered"
    BY <1>3 DEF ParkSender
  <2> QED
    BY <2>1, PushBackKept
<1>4. CASE CanEverFit(w.hop.cost) /\ ~m.closed /\ ~Fits(m, w.hop.cost)
  <2>2. CASE Len(m.waiting) >= Capacity
    <3>1. r.mb = m /\ r.out = "WaitersFull"
      BY <1>4, <2>2 DEF ParkSender
    <3> QED
      BY <3>1, KeptSame
  <2>3. CASE ~(Len(m.waiting) >= Capacity)
    <3>1. PICK s : s = Append(m.waiting, w)
      OBVIOUS
    <3>2. PICK n : n = [m EXCEPT !.waiting = s]
      OBVIOUS
    <3>3. r.mb = n /\ r.out = "Parked"
      BY <1>4, <2>3, <3>1, <3>2 DEF ParkSender
    <3>4. IsSeq(s) /\ Flows(s) = Flows(m.waiting) \cup {w.flow} /\ Distinct(s)
      BY <1>0, <3>1, AppendSeq, AppendFlows
    <3>5. Flows(s) \subseteq Flow
      BY <1>0, <3>4
    <3>6. Listed(n, m) /\ n.waiting = s
      BY <3>2, <3>4, <3>5, WaitingListed
    <3> QED
      BY <1>4, <3>3, <3>4, <3>6
  <2> QED
    BY <2>2, <2>3
<1> QED
  BY <1>0, <1>1, <1>2, <1>3, <1>4

\* Mailbox::admit_waiting_sender: the head of the list leaves it, or nothing happens.
LEMMA AdmitFacts ==
  ASSUME NEW m, Box(m), Distinct(m.waiting), NEW r, r = AdmitWaitingSender(m)
  PROVE  \/ r.out = "Idle" /\ r.mb = m
         \/ LET s == Head(m.waiting)
            IN  /\ r.out = "Woken" /\ Listed(r.mb, m) /\ Distinct(r.mb.waiting)
                /\ s.flow \in Flows(m.waiting)
                /\ Flows(r.mb.waiting) = Flows(m.waiting) \ {s.flow}
<1> DEFINE s == Head(m.waiting)
           go == ~m.closed /\ m.waiting # << >> /\ Fits(m, s.hop.cost)
<1>1. CASE ~go
  <2>1. r.mb = m /\ r.out = "Idle"
    BY <1>1 DEF AdmitWaitingSender
  <2> QED
    BY <2>1
<1>2. CASE go
  <2>1. PICK k : k = PushBack(m, s.hop)
    OBVIOUS
  <2>2. Kept(k, m)
    BY <2>1, PushBackKept
  <2>3. PICK l : l = Tail(k.waiting)
    OBVIOUS
  <2>4. PICK n : n = [k EXCEPT !.waiting = l]
    OBVIOUS
  <2>6. r.mb = n /\ r.out = "Woken"
    BY <1>2, <2>1, <2>3, <2>4 DEF AdmitWaitingSender
  <2>7. /\ Box(k) /\ k.waiting = m.waiting /\ k.parked = m.parked /\ k.filter = m.filter
        /\ k.closed = m.closed
    BY <2>2 DEF Kept
  <2>8. IsSeq(m.waiting) /\ Flows(m.waiting) \subseteq Flow /\ m.waiting # << >>
    BY <1>2 DEF Box
  <2>9. /\ IsSeq(l) /\ Distinct(l) /\ s.flow \in Flows(m.waiting)
        /\ Flows(l) = Flows(m.waiting) \ {s.flow}
    BY <2>3, <2>7, <2>8, TailFlows
  <2>10. Flows(l) \subseteq Flow
    BY <2>8, <2>9
  <2>11. Listed(n, k) /\ n.waiting = l
    BY <2>4, <2>7, <2>9, <2>10, WaitingListed, SMTT(30)
  <2> QED
    BY <2>6, <2>7, <2>9, <2>11 DEF Listed
<1> QED
  BY <1>1, <1>2

\* Mailbox::take_waiting_sender
LEMMA TakeSenderFacts ==
  ASSUME NEW m, Box(m), Distinct(m.waiting), NEW f, NEW r, r = TakeWaitingSender(m, f)
  PROVE  /\ Listed(r.mb, m) /\ Distinct(r.mb.waiting)
         /\ Flows(r.mb.waiting) = Flows(m.waiting) \ {f}
         /\ r.taken \in BOOLEAN /\ (r.taken <=> f \in Flows(m.waiting))
<1>1. PICK i : i = First({j \in DOMAIN m.waiting : m.waiting[j].flow = f})
  OBVIOUS
<1>2. PICK s : s = IF i = 0 THEN m.waiting ELSE RemoveAt(m.waiting, i)
  OBVIOUS
<1>3. PICK n : n = [m EXCEPT !.waiting = s]
  OBVIOUS
<1>5. r.mb = n /\ r.taken = (i # 0)
  BY <1>1, <1>2, <1>3 DEF TakeWaitingSender
<1>6. IsSeq(m.waiting) /\ Flows(m.waiting) \subseteq Flow
  BY DEF Box
<1>7. /\ IsSeq(s) /\ Distinct(s) /\ Flows(s) = Flows(m.waiting) \ {f}
      /\ (i # 0) <=> (f \in Flows(m.waiting))
  BY <1>1, <1>2, <1>6, DropFlows
<1>8. Flows(s) \subseteq Flow
  BY <1>6, <1>7
<1>9. Listed(n, m) /\ n.waiting = s
  BY <1>3, <1>7, <1>8, WaitingListed
<1> QED
  BY <1>5, <1>7, <1>9

-----------------------------------------------------------------------------
(* Ownership: a step moves boxes from one place to another *)

RunP == <<"runq", NoFlow>>
SleepP == <<"asleep", NoFlow>>
InboxP == <<"inbox", NoFlow>>
WaitP(h) == <<"waiting", h>>
HandP(t) == <<"hand", t>>

Parked == {g \in Flow : mb[g].parked}

\* Whose boxes are at each place, before and after a step.
LEMMA AtIs ==
  /\ At(RunP) = runq /\ At(SleepP) = asleep /\ At(InboxP) = Parked
  /\ \A h : At(WaitP(h)) = Flows(mb[h].waiting)
  /\ \A t : At(HandP(t)) = Hand(th[t])
  /\ At(RunP)' = runq' /\ At(SleepP)' = asleep' /\ At(InboxP)' = Parked'
  /\ \A h : At(WaitP(h))' = Flows(mb'[h].waiting)
  /\ \A t : At(HandP(t))' = Hand(th'[t])
BY DEF At, RunP, SleepP, InboxP, WaitP, HandP, Parked, Flows, Senders

\* The places.
LEMMA Places ==
  /\ RunP \in Place /\ SleepP \in Place /\ InboxP \in Place
  /\ \A h \in Flow : WaitP(h) \in Place
  /\ \A t \in Thread : HandP(t) \in Place
  /\ \A p \in Place : \/ p \in {RunP, SleepP, InboxP}
                      \/ \E h \in Flow : p = WaitP(h)
                      \/ \E t \in Thread : p = HandP(t)
BY SMTT(30) DEF Place, RunP, SleepP, InboxP, WaitP, HandP

\* They differ.
LEMMA PlacesDiffer ==
  /\ RunP # SleepP /\ RunP # InboxP /\ SleepP # InboxP
  /\ \A h : WaitP(h) \notin {RunP, SleepP, InboxP}
  /\ \A t : HandP(t) \notin {RunP, SleepP, InboxP}
  /\ \A h, t : WaitP(h) # HandP(t)
  /\ \A h, g : WaitP(h) = WaitP(g) => h = g
  /\ \A t, u : HandP(t) = HandP(u) => t = u
BY DEF RunP, SleepP, InboxP, WaitP, HandP

\* FlowInOnePlace, with the boxes of any two places compared
OnePlace ==
  /\ \A p, q \in Place : p # q => At(p) \cap At(q) = {}
  /\ UNION {At(p) : p \in Place} = live
  /\ \A t \in Thread : HeldOnce(th[t])
  /\ \A h \in Flow : \A i, j \in DOMAIN mb[h].waiting :
       mb[h].waiting[i].flow = mb[h].waiting[j].flow => i = j

\* A box at one place is registered and at no other place.
LEMMA Exclusive ==
  ASSUME OnePlace, NEW p \in Place, NEW x \in At(p)
  PROVE  x \in live /\ \A q \in Place : q # p => x \notin At(q)
BY DEF OnePlace

\* A box in the hands of a thread is nowhere else.
LEMMA InHandOnly ==
  ASSUME OnePlace, NEW t \in Thread, NEW x \in Hand(th[t])
  PROVE  /\ x \in live /\ x \notin runq /\ x \notin asleep /\ x \notin Parked
         /\ \A h \in Flow : x \notin Flows(mb[h].waiting)
         /\ \A u \in Thread : u # t => x \notin Hand(th[u])
<1>1. HandP(t) \in Place /\ x \in At(HandP(t))
  BY AtIs, Places
<1>2. x \in live /\ \A q \in Place : q # HandP(t) => x \notin At(q)
  BY <1>1, Exclusive
<1> QED
  BY <1>2, AtIs, Places, PlacesDiffer, SMTT(30)

\* Nor is one in a waiting list ...
LEMMA WaitingOnly ==
  ASSUME OnePlace, NEW h \in Flow, NEW x \in Flows(mb[h].waiting)
  PROVE  /\ x \in live /\ x \notin runq /\ x \notin Parked
         /\ \A g \in Flow : g # h => x \notin Flows(mb[g].waiting)
         /\ \A u \in Thread : x \notin Hand(th[u])
<1>1. WaitP(h) \in Place /\ x \in At(WaitP(h))
  BY AtIs, Places
<1>2. x \in live /\ \A q \in Place : q # WaitP(h) => x \notin At(q)
  BY <1>1, Exclusive
<1> QED
  BY <1>2, AtIs, Places, PlacesDiffer, SMTT(30)

\* ... or one in its own inbox ...
LEMMA ParkedOnly ==
  ASSUME OnePlace, NEW x \in Parked
  PROVE  /\ x \in live /\ x \notin runq
         /\ \A u \in Thread : x \notin Hand(th[u])
<1>1. InboxP \in Place /\ x \in At(InboxP)
  BY AtIs, Places
<1>2. x \in live /\ \A q \in Place : q # InboxP => x \notin At(q)
  BY <1>1, Exclusive
<1> QED
  BY <1>2, AtIs, Places, PlacesDiffer, SMTT(30)

\* ... or one in a run queue.
LEMMA RunnableOnly ==
  ASSUME OnePlace, NEW x \in runq
  PROVE  x \in live /\ \A u \in Thread : x \notin Hand(th[u])
<1>1. RunP \in Place /\ x \in At(RunP)
  BY AtIs, Places
<1>2. x \in live /\ \A q \in Place : q # RunP => x \notin At(q)
  BY <1>1, Exclusive
<1> QED
  BY <1>2, AtIs, Places, PlacesDiffer, SMTT(30)

\* A step of thread t, which goes on as r, on the inbox of h, which becomes m
Touch(t, r, h, m) == th' = [th EXCEPT ![t] = r] /\ mb' = [mb EXCEPT ![h] = m]

LEMMA Touched ==
  ASSUME Types, NEW t \in Thread, NEW h \in Flow, NEW r, NEW m, Touch(t, r, h, m)
  PROVE  /\ th'[t] = r /\ \A u \in Thread : u # t => th'[u] = th[u]
         /\ mb'[h] = m /\ \A g \in Flow : g # h => mb'[g] = mb[g]
         /\ th' = [u \in Thread |-> th'[u]] /\ mb' = [g \in Flow |-> mb'[g]]
<1>1. th = [u \in Thread |-> th[u]] /\ mb = [g \in Flow |-> mb[g]]
  BY DEF Types, Threads, Boxes
<1>2. PICK a : a = th'
  OBVIOUS
<1>3. PICK b : b = mb'
  OBVIOUS
<1>4. a = [th EXCEPT ![t] = r] /\ b = [mb EXCEPT ![h] = m]
  BY <1>2, <1>3 DEF Touch
<1>5. /\ a[t] = r /\ \A u \in Thread : u # t => a[u] = th[u]
      /\ a = [u \in Thread |-> a[u]]
  BY <1>1, <1>4
<1>6. /\ b[h] = m /\ \A g \in Flow : g # h => b[g] = mb[g]
      /\ b = [g \in Flow |-> b[g]]
  BY <1>1, <1>4
<1> QED
  BY <1>2, <1>3, <1>5, <1>6

\* what a move of F leaves at place p, where S was
Delta(p, from, to, F, S) ==
  IF p = from THEN S \ F ELSE IF p = to THEN S \cup F ELSE S

\* Boxes F move from one place to another.
LEMMA Transfer ==
  ASSUME OnePlace, NEW from \in Place, NEW to \in Place, from # to,
         NEW F, F \subseteq At(from), live' = live,
         \A p \in Place : At(p)' = Delta(p, from, to, F, At(p))
  PROVE  /\ \A p, q \in Place : p # q => At(p)' \cap At(q)' = {}
         /\ UNION {At(p)' : p \in Place} = live'
<1>1. ASSUME NEW p \in Place, NEW x \in At(p)'
      PROVE  \/ x \in At(p) /\ (x \in F => p # from)
             \/ p = to /\ x \in F
  BY <1>1 DEF Delta
<1>2. \A x \in F : x \in At(from) /\ \A p \in Place : p # from => x \notin At(p)
  BY DEF OnePlace
<1>3. ASSUME NEW p \in Place, NEW q \in Place, p # q, NEW x \in At(p)', x \in At(q)' PROVE FALSE
  <2>1. CASE x \in F
    BY <1>1, <1>2, <1>3, <2>1
  <2>2. CASE x \notin F
    BY <1>1, <1>3, <2>2 DEF OnePlace
  <2> QED
    BY <2>1, <2>2
<1>4. ASSUME NEW p \in Place, NEW x \in At(p)' PROVE x \in live
  <2>1. \E q \in Place : x \in At(q)
    BY <1>1, <1>2, <1>4
  <2> QED
    BY <2>1 DEF OnePlace
<1>5. ASSUME NEW x \in live PROVE \E p \in Place : x \in At(p)'
  <2>1. PICK p \in Place : x \in At(p)
    BY DEF OnePlace
  <2>2. CASE x \in F
    <3>1. x \in At(to)'
      BY <2>2 DEF Delta
    <3> QED
      BY <3>1
  <2>3. CASE x \notin F
    <3>1. x \in At(p)'
      BY <2>1, <2>3 DEF Delta
    <3> QED
      BY <3>1
  <2> QED
    BY <2>2, <2>3
<1>6. \A p, q \in Place : p # q => At(p)' \cap At(q)' = {}
  BY <1>3
<1>7. UNION {At(p)' : p \in Place} = live'
  BY <1>4, <1>5
<1> QED
  BY <1>6, <1>7

\* the places a step of t on the inbox of h may touch
Spots(t, h) == {RunP, SleepP, InboxP, WaitP(h), HandP(t)}

\* A step that moves F between two of them.
LEMMA Move ==
  ASSUME Types, OnePlace, NEW t \in Thread, NEW h \in Flow, NEW r, NEW m,
         Touch(t, r, h, m), HeldOnce(r), Distinct(m.waiting), live' = live,
         NEW from \in Spots(t, h), NEW to \in Spots(t, h), from # to, NEW F, F \subseteq At(from),
         runq' = Delta(RunP, from, to, F, runq),
         asleep' = Delta(SleepP, from, to, F, asleep),
         Parked' = Delta(InboxP, from, to, F, Parked),
         Flows(m.waiting) = Delta(WaitP(h), from, to, F, Flows(mb[h].waiting)),
         Hand(r) = Delta(HandP(t), from, to, F, Hand(th[t]))
  PROVE  OnePlace'
<1>1. /\ th'[t] = r /\ \A u \in Thread : u # t => th'[u] = th[u]
      /\ mb'[h] = m /\ \A g \in Flow : g # h => mb'[g] = mb[g]
  BY Touched, SMTT(30)
<1>2. from \in Place /\ to \in Place
  BY Places DEF Spots
<1>3. ASSUME NEW p \in Place PROVE At(p)' = Delta(p, from, to, F, At(p))
  <2>1. CASE p = RunP
    BY <2>1, AtIs
  <2>2. CASE p = SleepP
    BY <2>2, AtIs
  <2>3. CASE p = InboxP
    BY <2>3, AtIs
  <2>4. ASSUME NEW g \in Flow, p = WaitP(g) PROVE At(p)' = Delta(p, from, to, F, At(p))
    <3>1. CASE g = h
      BY <1>1, <2>4, <3>1, AtIs
    <3>2. CASE g # h
      <4>1. p \notin Spots(t, h)
        BY <2>4, <3>2, PlacesDiffer DEF Spots
      <4>2. At(p)' = At(p)
        BY <1>1, <2>4, <3>2, AtIs
      <4> QED
        BY <4>1, <4>2 DEF Delta
    <3> QED
      BY <3>1, <3>2
  <2>5. ASSUME NEW u \in Thread, p = HandP(u) PROVE At(p)' = Delta(p, from, to, F, At(p))
    <3>1. CASE u = t
      BY <1>1, <2>5, <3>1, AtIs
    <3>2. CASE u # t
      <4>1. p \notin Spots(t, h)
        BY <2>5, <3>2, PlacesDiffer DEF Spots
      <4>2. At(p)' = At(p)
        BY <1>1, <2>5, <3>2, AtIs
      <4> QED
        BY <4>1, <4>2 DEF Delta
    <3> QED
      BY <3>1, <3>2
  <2> QED
    BY <2>1, <2>2, <2>3, <2>4, <2>5, Places
<1>4. /\ \A p, q \in Place : p # q => At(p)' \cap At(q)' = {}
      /\ UNION {At(p)' : p \in Place} = live'
  BY <1>2, <1>3, Transfer
<1>5. \A u \in Thread : HeldOnce(th'[u])
  BY <1>1 DEF OnePlace
<1>6. \A g \in Flow : Distinct(mb'[g].waiting)
  <2>1. \A g \in Flow : Distinct(mb[g].waiting)
    BY DEF OnePlace, Distinct
  <2> QED
    BY <1>1, <2>1
<1> QED
  BY <1>4, <1>5, <1>6 DEF OnePlace, Distinct

\* Who is parked after a step on the inbox of h.
LEMMA ParkedStep ==
  ASSUME Types, NEW t \in Thread, NEW h \in Flow, NEW r, NEW m, Touch(t, r, h, m)
  PROVE  /\ m.parked = mb[h].parked => Parked' = Parked
         /\ m.parked => Parked' = Parked \cup {h}
         /\ ~m.parked => Parked' = Parked \ {h}
<1>1. mb'[h] = m /\ \A g \in Flow : g # h => mb'[g] = mb[g]
  BY Touched, SMTT(30)
<1>2. \A g \in Flow : (g \in Parked <=> mb[g].parked) /\ (g \in Parked' <=> mb'[g].parked)
  BY DEF Parked
<1>3. \A g : g \in Parked \cup Parked' => g \in Flow
  BY DEF Parked
<1> HIDE DEF Parked
<1> QED
  BY <1>1, <1>2, <1>3

\* Nothing changes hands.
LEMMA Calm ==
  ASSUME Types, OnePlace, NEW t \in Thread, NEW h \in Flow, NEW r, NEW m,
         Touch(t, r, h, m), HeldOnce(r), Distinct(m.waiting), live' = live,
         runq' = runq, asleep' = asleep, m.parked = mb[h].parked,
         Flows(m.waiting) = Flows(mb[h].waiting), Hand(r) = Hand(th[t])
  PROVE  OnePlace'
<1> DEFINE from == RunP
           to == SleepP
           G == {}
<1>1. Parked' = Parked
  BY ParkedStep
<1>2. /\ from \in Spots(t, h) /\ to \in Spots(t, h) /\ from # to /\ G \subseteq At(from)
  BY PlacesDiffer, AtIs DEF Spots
<1>3. /\ runq' = Delta(RunP, from, to, G, runq)
      /\ asleep' = Delta(SleepP, from, to, G, asleep)
  BY PlacesDiffer DEF Delta
<1>4. /\ Parked' = Delta(InboxP, from, to, G, Parked)
      /\ Flows(m.waiting) = Delta(WaitP(h), from, to, G, Flows(mb[h].waiting))
      /\ Hand(r) = Delta(HandP(t), from, to, G, Hand(th[t]))
  BY <1>1, PlacesDiffer DEF Delta
<1> HIDE DEF from, to, G
<1> QED
  BY <1>2, <1>3, <1>4, Move

\* A runnable flow is picked up.
LEMMA RunToHand ==
  ASSUME Types, OnePlace, NEW t \in Thread, NEW h \in Flow, NEW r, NEW m,
         Touch(t, r, h, m), HeldOnce(r), Distinct(m.waiting), live' = live, NEW f \in runq,
         runq' = runq \ {f}, asleep' = asleep, m.parked = mb[h].parked,
         Flows(m.waiting) = Flows(mb[h].waiting), Hand(r) = Hand(th[t]) \cup {f}
  PROVE  OnePlace'
<1> DEFINE from == RunP
           to == HandP(t)
           G == {f}
<1>1. Parked' = Parked
  BY ParkedStep
<1>2. /\ from \in Spots(t, h) /\ to \in Spots(t, h) /\ from # to /\ G \subseteq At(from)
  BY PlacesDiffer, AtIs DEF Spots
<1>3. /\ runq' = Delta(RunP, from, to, G, runq)
      /\ asleep' = Delta(SleepP, from, to, G, asleep)
  BY PlacesDiffer DEF Delta
<1>4. /\ Parked' = Delta(InboxP, from, to, G, Parked)
      /\ Flows(m.waiting) = Delta(WaitP(h), from, to, G, Flows(mb[h].waiting))
      /\ Hand(r) = Delta(HandP(t), from, to, G, Hand(th[t]))
  BY <1>1, PlacesDiffer DEF Delta
<1> HIDE DEF from, to, G
<1> QED
  BY <1>2, <1>3, <1>4, Move

\* A flow is made runnable.
LEMMA HandToRun ==
  ASSUME Types, OnePlace, NEW t \in Thread, NEW h \in Flow, NEW r, NEW m,
         Touch(t, r, h, m), HeldOnce(r), Distinct(m.waiting), live' = live, NEW f \in Hand(th[t]),
         runq' = runq \cup {f}, asleep' = asleep, m.parked = mb[h].parked,
         Flows(m.waiting) = Flows(mb[h].waiting), Hand(r) = Hand(th[t]) \ {f}
  PROVE  OnePlace'
<1> DEFINE from == HandP(t)
           to == RunP
           G == {f}
<1>1. Parked' = Parked
  BY ParkedStep
<1>2. /\ from \in Spots(t, h) /\ to \in Spots(t, h) /\ from # to /\ G \subseteq At(from)
  BY PlacesDiffer, AtIs DEF Spots
<1>3. /\ runq' = Delta(RunP, from, to, G, runq)
      /\ asleep' = Delta(SleepP, from, to, G, asleep)
  BY PlacesDiffer DEF Delta
<1>4. /\ Parked' = Delta(InboxP, from, to, G, Parked)
      /\ Flows(m.waiting) = Delta(WaitP(h), from, to, G, Flows(mb[h].waiting))
      /\ Hand(r) = Delta(HandP(t), from, to, G, Hand(th[t]))
  BY <1>1, PlacesDiffer DEF Delta
<1> HIDE DEF from, to, G
<1> QED
  BY <1>2, <1>3, <1>4, Move

\* A flow is handed to the timer.
LEMMA HandToSleep ==
  ASSUME Types, OnePlace, NEW t \in Thread, NEW h \in Flow, NEW r, NEW m,
         Touch(t, r, h, m), HeldOnce(r), Distinct(m.waiting), live' = live, NEW f \in Hand(th[t]),
         runq' = runq, asleep' = asleep \cup {f}, m.parked = mb[h].parked,
         Flows(m.waiting) = Flows(mb[h].waiting), Hand(r) = Hand(th[t]) \ {f}
  PROVE  OnePlace'
<1> DEFINE from == HandP(t)
           to == SleepP
           G == {f}
<1>1. Parked' = Parked
  BY ParkedStep
<1>2. /\ from \in Spots(t, h) /\ to \in Spots(t, h) /\ from # to /\ G \subseteq At(from)
  BY PlacesDiffer, AtIs DEF Spots
<1>3. /\ runq' = Delta(RunP, from, to, G, runq)
      /\ asleep' = Delta(SleepP, from, to, G, asleep)
  BY PlacesDiffer DEF Delta
<1>4. /\ Parked' = Delta(InboxP, from, to, G, Parked)
      /\ Flows(m.waiting) = Delta(WaitP(h), from, to, G, Flows(mb[h].waiting))
      /\ Hand(r) = Delta(HandP(t), from, to, G, Hand(th[t]))
  BY <1>1, PlacesDiffer DEF Delta
<1> HIDE DEF from, to, G
<1> QED
  BY <1>2, <1>3, <1>4, Move

\* A sleeper is made runnable.
LEMMA SleepToRun ==
  ASSUME Types, OnePlace, NEW t \in Thread, NEW h \in Flow, NEW r, NEW m,
         Touch(t, r, h, m), HeldOnce(r), Distinct(m.waiting), live' = live, NEW f \in asleep,
         runq' = runq \cup {f}, asleep' = asleep \ {f}, m.parked = mb[h].parked,
         Flows(m.waiting) = Flows(mb[h].waiting), Hand(r) = Hand(th[t])
  PROVE  OnePlace'
<1> DEFINE from == SleepP
           to == RunP
           G == {f}
<1>1. Parked' = Parked
  BY ParkedStep
<1>2. /\ from \in Spots(t, h) /\ to \in Spots(t, h) /\ from # to /\ G \subseteq At(from)
  BY PlacesDiffer, AtIs DEF Spots
<1>3. /\ runq' = Delta(RunP, from, to, G, runq)
      /\ asleep' = Delta(SleepP, from, to, G, asleep)
  BY PlacesDiffer DEF Delta
<1>4. /\ Parked' = Delta(InboxP, from, to, G, Parked)
      /\ Flows(m.waiting) = Delta(WaitP(h), from, to, G, Flows(mb[h].waiting))
      /\ Hand(r) = Delta(HandP(t), from, to, G, Hand(th[t]))
  BY <1>1, PlacesDiffer DEF Delta
<1> HIDE DEF from, to, G
<1> QED
  BY <1>2, <1>3, <1>4, Move

\* A sender joins the waiting list of its target.
LEMMA HandToWait ==
  ASSUME Types, OnePlace, NEW t \in Thread, NEW h \in Flow, NEW r, NEW m,
         Touch(t, r, h, m), HeldOnce(r), Distinct(m.waiting), live' = live, NEW f \in Hand(th[t]),
         runq' = runq, asleep' = asleep, m.parked = mb[h].parked,
         Flows(m.waiting) = Flows(mb[h].waiting) \cup {f}, Hand(r) = Hand(th[t]) \ {f}
  PROVE  OnePlace'
<1> DEFINE from == HandP(t)
           to == WaitP(h)
           G == {f}
<1>1. Parked' = Parked
  BY ParkedStep
<1>2. /\ from \in Spots(t, h) /\ to \in Spots(t, h) /\ from # to /\ G \subseteq At(from)
  BY PlacesDiffer, AtIs DEF Spots
<1>3. /\ runq' = Delta(RunP, from, to, G, runq)
      /\ asleep' = Delta(SleepP, from, to, G, asleep)
  BY PlacesDiffer DEF Delta
<1>4. /\ Parked' = Delta(InboxP, from, to, G, Parked)
      /\ Flows(m.waiting) = Delta(WaitP(h), from, to, G, Flows(mb[h].waiting))
      /\ Hand(r) = Delta(HandP(t), from, to, G, Hand(th[t]))
  BY <1>1, PlacesDiffer DEF Delta
<1> HIDE DEF from, to, G
<1> QED
  BY <1>2, <1>3, <1>4, Move

\* Senders are taken out of a waiting list.
LEMMA WaitToHand ==
  ASSUME Types, OnePlace, NEW t \in Thread, NEW h \in Flow, NEW r, NEW m,
         Touch(t, r, h, m), HeldOnce(r), Distinct(m.waiting), live' = live, NEW f \in Flows(mb[h].waiting),
         runq' = runq, asleep' = asleep, m.parked = mb[h].parked,
         Flows(m.waiting) = Flows(mb[h].waiting) \ {f}, Hand(r) = Hand(th[t]) \cup {f}
  PROVE  OnePlace'
<1> DEFINE from == WaitP(h)
           to == HandP(t)
           G == {f}
<1>1. Parked' = Parked
  BY ParkedStep
<1>2. /\ from \in Spots(t, h) /\ to \in Spots(t, h) /\ from # to /\ G \subseteq At(from)
  BY PlacesDiffer, AtIs DEF Spots
<1>3. /\ runq' = Delta(RunP, from, to, G, runq)
      /\ asleep' = Delta(SleepP, from, to, G, asleep)
  BY PlacesDiffer DEF Delta
<1>4. /\ Parked' = Delta(InboxP, from, to, G, Parked)
      /\ Flows(m.waiting) = Delta(WaitP(h), from, to, G, Flows(mb[h].waiting))
      /\ Hand(r) = Delta(HandP(t), from, to, G, Hand(th[t]))
  BY <1>1, PlacesDiffer DEF Delta
<1> HIDE DEF from, to, G
<1> QED
  BY <1>2, <1>3, <1>4, Move

\* All of a waiting list is taken.
LEMMA AllToHand ==
  ASSUME Types, OnePlace, NEW t \in Thread, NEW h \in Flow, NEW r, NEW m,
         Touch(t, r, h, m), HeldOnce(r), Distinct(m.waiting), live' = live,
         runq' = runq, asleep' = asleep, m.parked = mb[h].parked,
         Flows(m.waiting) = Flows(mb[h].waiting) \ Flows(mb[h].waiting), Hand(r) = Hand(th[t]) \cup Flows(mb[h].waiting)
  PROVE  OnePlace'
<1> DEFINE from == WaitP(h)
           to == HandP(t)
           G == Flows(mb[h].waiting)
<1>1. Parked' = Parked
  BY ParkedStep
<1>2. /\ from \in Spots(t, h) /\ to \in Spots(t, h) /\ from # to /\ G \subseteq At(from)
  BY PlacesDiffer, AtIs DEF Spots
<1>3. /\ runq' = Delta(RunP, from, to, G, runq)
      /\ asleep' = Delta(SleepP, from, to, G, asleep)
  BY PlacesDiffer DEF Delta
<1>4. /\ Parked' = Delta(InboxP, from, to, G, Parked)
      /\ Flows(m.waiting) = Delta(WaitP(h), from, to, G, Flows(mb[h].waiting))
      /\ Hand(r) = Delta(HandP(t), from, to, G, Hand(th[t]))
  BY <1>1, PlacesDiffer DEF Delta
<1> HIDE DEF from, to, G
<1> QED
  BY <1>2, <1>3, <1>4, Move

\* A waiting sender is made runnable.
LEMMA WaitToRun ==
  ASSUME Types, OnePlace, NEW t \in Thread, NEW h \in Flow, NEW r, NEW m,
         Touch(t, r, h, m), HeldOnce(r), Distinct(m.waiting), live' = live, NEW f \in Flows(mb[h].waiting),
         runq' = runq \cup {f}, asleep' = asleep, m.parked = mb[h].parked,
         Flows(m.waiting) = Flows(mb[h].waiting) \ {f}, Hand(r) = Hand(th[t])
  PROVE  OnePlace'
<1> DEFINE from == WaitP(h)
           to == RunP
           G == {f}
<1>1. Parked' = Parked
  BY ParkedStep
<1>2. /\ from \in Spots(t, h) /\ to \in Spots(t, h) /\ from # to /\ G \subseteq At(from)
  BY PlacesDiffer, AtIs DEF Spots
<1>3. /\ runq' = Delta(RunP, from, to, G, runq)
      /\ asleep' = Delta(SleepP, from, to, G, asleep)
  BY PlacesDiffer DEF Delta
<1>4. /\ Parked' = Delta(InboxP, from, to, G, Parked)
      /\ Flows(m.waiting) = Delta(WaitP(h), from, to, G, Flows(mb[h].waiting))
      /\ Hand(r) = Delta(HandP(t), from, to, G, Hand(th[t]))
  BY <1>1, PlacesDiffer DEF Delta
<1> HIDE DEF from, to, G
<1> QED
  BY <1>2, <1>3, <1>4, Move

\* A flow parks in its inbox.
LEMMA HandToInbox ==
  ASSUME Types, OnePlace, NEW t \in Thread, NEW h \in Flow, NEW r, NEW m,
         Touch(t, r, h, m), HeldOnce(r), Distinct(m.waiting), live' = live, h \in Hand(th[t]),
         runq' = runq, asleep' = asleep, m.parked,
         Flows(m.waiting) = Flows(mb[h].waiting), Hand(r) = Hand(th[t]) \ {h}
  PROVE  OnePlace'
<1> DEFINE from == HandP(t)
           to == InboxP
           G == {h}
<1>1. Parked' = Parked \cup {h}
  BY ParkedStep
<1>2. /\ from \in Spots(t, h) /\ to \in Spots(t, h) /\ from # to /\ G \subseteq At(from)
  BY PlacesDiffer, AtIs DEF Spots
<1>3. /\ runq' = Delta(RunP, from, to, G, runq)
      /\ asleep' = Delta(SleepP, from, to, G, asleep)
  BY PlacesDiffer DEF Delta
<1>4. /\ Parked' = Delta(InboxP, from, to, G, Parked)
      /\ Flows(m.waiting) = Delta(WaitP(h), from, to, G, Flows(mb[h].waiting))
      /\ Hand(r) = Delta(HandP(t), from, to, G, Hand(th[t]))
  BY <1>1, PlacesDiffer DEF Delta
<1> HIDE DEF from, to, G
<1> QED
  BY <1>2, <1>3, <1>4, Move

\* A parked flow is taken.
LEMMA InboxToHand ==
  ASSUME Types, OnePlace, NEW t \in Thread, NEW h \in Flow, NEW r, NEW m,
         Touch(t, r, h, m), HeldOnce(r), Distinct(m.waiting), live' = live,
         runq' = runq, asleep' = asleep, mb[h].parked, ~m.parked,
         Flows(m.waiting) = Flows(mb[h].waiting), Hand(r) = Hand(th[t]) \cup {h}
  PROVE  OnePlace'
<1> DEFINE from == InboxP
           to == HandP(t)
           G == {h}
<1>1. Parked' = Parked \ {h}
  BY ParkedStep
<1>2. /\ from \in Spots(t, h) /\ to \in Spots(t, h) /\ from # to /\ G \subseteq At(from)
  BY PlacesDiffer, AtIs DEF Spots, Parked
<1>3. /\ runq' = Delta(RunP, from, to, G, runq)
      /\ asleep' = Delta(SleepP, from, to, G, asleep)
  BY PlacesDiffer DEF Delta
<1>4. /\ Parked' = Delta(InboxP, from, to, G, Parked)
      /\ Flows(m.waiting) = Delta(WaitP(h), from, to, G, Flows(mb[h].waiting))
      /\ Hand(r) = Delta(HandP(t), from, to, G, Hand(th[t]))
  BY <1>1, PlacesDiffer DEF Delta
<1> HIDE DEF from, to, G
<1> QED
  BY <1>2, <1>3, <1>4, Move

\* A parked flow is made runnable.
LEMMA InboxToRun ==
  ASSUME Types, OnePlace, NEW t \in Thread, NEW h \in Flow, NEW r, NEW m,
         Touch(t, r, h, m), HeldOnce(r), Distinct(m.waiting), live' = live,
         runq' = runq \cup {h}, asleep' = asleep, mb[h].parked, ~m.parked,
         Flows(m.waiting) = Flows(mb[h].waiting), Hand(r) = Hand(th[t])
  PROVE  OnePlace'
<1> DEFINE from == InboxP
           to == RunP
           G == {h}
<1>1. Parked' = Parked \ {h}
  BY ParkedStep
<1>2. /\ from \in Spots(t, h) /\ to \in Spots(t, h) /\ from # to /\ G \subseteq At(from)
  BY PlacesDiffer, AtIs DEF Spots, Parked
<1>3. /\ runq' = Delta(RunP, from, to, G, runq)
      /\ asleep' = Delta(SleepP, from, to, G, asleep)
  BY PlacesDiffer DEF Delta
<1>4. /\ Parked' = Delta(InboxP, from, to, G, Parked)
      /\ Flows(m.waiting) = Delta(WaitP(h), from, to, G, Flows(mb[h].waiting))
      /\ Hand(r) = Delta(HandP(t), from, to, G, Hand(th[t]))
  BY <1>1, PlacesDiffer DEF Delta
<1> HIDE DEF from, to, G
<1> QED
  BY <1>2, <1>3, <1>4, Move

-----------------------------------------------------------------------------
(* The other layers of the invariant, and the steps that keep them *)

\* worker w is on its way to park sender g where the index says
OnItsWay(w, g) == th[w].pc = "park_send" /\ th[w].cur = g /\ th[w].to = waitAt[g]

\* the index of parked senders is exact; a sender on its way is indexed; a flow that is
\* being finalized has closed its inbox
Indexed ==
  /\ \A h \in Flow : \A g \in Flows(mb[h].waiting) :
       waitAt[g] = h /\ ~mb[h].closed /\ h \in live
  /\ \A g \in Flow : waitAt[g] # NoFlow =>
       g \in Flows(mb[waitAt[g]].waiting) \/ \E w \in Worker : OnItsWay(w, g)
  /\ \A t \in Thread : th[t].pc = "park_send" => waitAt[th[t].cur] = th[t].to
  /\ \A t \in Thread : th[t].pc \in Closing => mb[th[t].f].closed

\* the filter of an Ask
AskFilter(f) == f.kind = "Correlation" /\ f.from # "any"

\* flow a waits for the reply of an Ask
Asking(a) == mb[a].parked /\ AskFilter(mb[a].filter)

\* a worker that has parked an asker and not revalidated
Pending == {"kill_check", "kill_take", "kill_restore", "ask_check", "ask_gone"}
Revalidates(l, a) == l.f = a /\ l.ask /\ l.pc \in Pending

\* what a thread that is about to park a flow knows of its wait; index: the AskWaitIndex
Waits(l, index) ==
  /\ l.pc \in {"ask_pop", "ask_insert", "ask_park"} =>
       l.ask /\ l.filter.kind = "Correlation" /\ l.filter.from = l.to
  /\ l.pc = "ask_park" => index[l.f] \in {l.to, NoFlow}
  /\ l.pc = "park" => ~AskFilter(l.filter)

\* the index of Asks: an asker it has lost is in the list of an exit or revalidates
Asks ==
  /\ \A t \in Thread : Waits(th[t], askWait)
  /\ \A a \in Flow : Asking(a) =>
       \/ askWait[a] = mb[a].filter.from
       \/ /\ askWait[a] = NoFlow
          /\ \/ \E t \in Thread : a \in th[t].orphans
             \/ \E w \in Worker : Revalidates(th[w], a)

IInv == Types /\ OnePlace /\ Indexed /\ Asks

\* The layers imply the properties.
LEMMA IndexedExact == Types /\ Indexed => WaitIndexExact
<1>1. \A m, g : IsWaiting(m, g) <=> g \in Flows(m.waiting)
  BY DEF IsWaiting, Flows
<1> QED
  BY <1>1 DEF WaitIndexExact, WaitingSenderFound, WaitIndexFresh, Indexed, OnItsWay

LEMMA AsksIndexed == Asks => AskIndexed
BY DEF Asks, AskIndexed, Asking, AskFilter, Revalidates

\* The types of what a step leaves.
LEMMA TypesStep ==
  ASSUME Types, NEW t \in Thread, NEW h \in Flow, NEW r, NEW m, Touch(t, r, h, m),
         Sound(r), Box(m), Tables'
  PROVE  Types'
<1>1. /\ th'[t] = r /\ \A u \in Thread : u # t => th'[u] = th[u]
      /\ mb'[h] = m /\ \A g \in Flow : g # h => mb'[g] = mb[g]
      /\ th' = [u \in Thread |-> th'[u]] /\ mb' = [g \in Flow |-> mb'[g]]
  BY Touched
<1>2. \A u \in Thread : Sound(th'[u])
  BY <1>1 DEF Types, Threads
<1>3. \A g \in Flow : Box(mb'[g])
  BY <1>1 DEF Types, Boxes
<1>4. Threads' /\ Boxes'
  BY <1>1, <1>2, <1>3 DEF Threads, Boxes
<1> QED
  BY <1>4 DEF Types

\* What a thread drives is in its hands.
LEMMA CurInHand ==
  ASSUME NEW l, l.cur # NoFlow
  PROVE  l.cur \in Hand(l)
BY DEF Hand

\* A step that leaves waiting lists and their index alone.
LEMMA IndexedKeep ==
  ASSUME Types, Indexed, NEW t \in Thread, NEW h \in Flow, NEW r, NEW m, Touch(t, r, h, m),
         live' = live, waitAt' = waitAt,
         Flows(m.waiting) = Flows(mb[h].waiting), m.closed = mb[h].closed,
         th[t].pc # "park_send", r.pc # "park_send",
         r.pc \in Closing => th[t].pc \in Closing /\ r.f = th[t].f
  PROVE  Indexed'
<1>1. /\ th'[t] = r /\ \A u \in Thread : u # t => th'[u] = th[u]
      /\ mb'[h] = m /\ \A g \in Flow : g # h => mb'[g] = mb[g]
  BY Touched, SMTT(30)
<1>2. \A g \in Flow : Flows(mb'[g].waiting) = Flows(mb[g].waiting) /\ mb'[g].closed = mb[g].closed
  BY <1>1
<1>3. \A k \in Flow : \A g \in Flows(mb'[k].waiting) :
         waitAt'[g] = k /\ ~mb'[k].closed /\ k \in live'
  BY <1>2 DEF Indexed
<1>4. ASSUME NEW g \in Flow, waitAt'[g] # NoFlow
      PROVE  g \in Flows(mb'[waitAt'[g]].waiting) \/ \E w \in Worker : OnItsWay(w, g)'
  <2>1. waitAt[g] \in Flow
    BY <1>4 DEF Types, Tables, MaybeFlow
  <2>2. CASE g \in Flows(mb[waitAt[g]].waiting)
    BY <1>2, <2>1, <2>2
  <2>3. ASSUME NEW w \in Worker, OnItsWay(w, g) PROVE OnItsWay(w, g)'
    <3>1. w \in Thread /\ w # t
      BY <2>3 DEF OnItsWay, Thread
    <3> QED
      BY <1>1, <2>3, <3>1 DEF OnItsWay
  <2> QED
    BY <1>4, <2>2, <2>3 DEF Indexed
<1>5. ASSUME NEW u \in Thread, th'[u].pc = "park_send" PROVE waitAt'[th'[u].cur] = th'[u].to
  <2>1. th'[u].cur = th[u].cur /\ th'[u].to = th[u].to /\ th[u].pc = "park_send"
    BY <1>1, <1>5
  <2>2. waitAt[th[u].cur] = th[u].to
    BY <2>1 DEF Indexed
  <2> QED
    BY <2>1, <2>2
<1>6. ASSUME NEW u \in Thread, th'[u].pc \in Closing PROVE mb'[th'[u].f].closed
  <2>1. th[u].pc \in Closing /\ th'[u].f = th[u].f
    BY <1>1, <1>6
  <2>2. th[u].f \in Flow
    BY <2>1 DEF Types, Threads, Sound, OnFlow, Helping, Closing
  <2> QED
    BY <1>2, <2>1, <2>2 DEF Indexed
<1> QED
  BY <1>3, <1>4, <1>5, <1>6 DEF Indexed

\* A step that takes a sender out of a waiting list, and out of the index.
LEMMA IndexedTake ==
  ASSUME Types, OnePlace, Indexed, NEW t \in Thread, NEW h \in Flow, NEW r, NEW m,
         Touch(t, r, h, m), live' = live, NEW s \in Flows(mb[h].waiting),
         waitAt' = [waitAt EXCEPT ![s] = NoFlow],
         Flows(m.waiting) = Flows(mb[h].waiting) \ {s}, m.closed = mb[h].closed,
         th[t].pc # "park_send", r.pc # "park_send", r.pc \notin Closing
  PROVE  Indexed'
<1>1. /\ th'[t] = r /\ \A u \in Thread : u # t => th'[u] = th[u]
      /\ mb'[h] = m /\ \A g \in Flow : g # h => mb'[g] = mb[g]
  BY Touched, SMTT(30)
<1>2. /\ \A g \in Flow : g # h => s \notin Flows(mb[g].waiting)
      /\ \A u \in Thread : s \notin Hand(th[u])
  BY WaitingOnly
<1>3. \A g \in Flow : Flows(mb'[g].waiting) = Flows(mb[g].waiting) \ {s} /\ mb'[g].closed = mb[g].closed
  BY <1>1, <1>2
<1>4. \A g \in Flow : waitAt'[g] = IF g = s THEN NoFlow ELSE waitAt[g]
  BY DEF Types, Tables
<1>5. \A k \in Flow : Flows(mb[k].waiting) \subseteq Flow
  BY DEF Types, Boxes, Box
<1>6. \A k \in Flow : \A g \in Flows(mb'[k].waiting) :
         waitAt'[g] = k /\ ~mb'[k].closed /\ k \in live'
  <2> SUFFICES ASSUME NEW k \in Flow, NEW g \in Flows(mb'[k].waiting)
               PROVE  waitAt'[g] = k /\ ~mb'[k].closed /\ k \in live'
    OBVIOUS
  <2>1. g \in Flows(mb[k].waiting) /\ g # s /\ g \in Flow
    BY <1>3, <1>5
  <2>2. waitAt[g] = k /\ ~mb[k].closed /\ k \in live
    BY <2>1 DEF Indexed
  <2>3. waitAt'[g] = waitAt[g]
    BY <1>4, <2>1
  <2> QED
    BY <1>3, <2>2, <2>3
<1>7. ASSUME NEW g \in Flow, waitAt'[g] # NoFlow
      PROVE  g \in Flows(mb'[waitAt'[g]].waiting) \/ \E w \in Worker : OnItsWay(w, g)'
  <2>1. g # s /\ waitAt'[g] = waitAt[g]
    BY <1>4, <1>7
  <2>2. waitAt[g] \in Flow
    BY <1>7, <2>1 DEF Types, Tables, MaybeFlow
  <2>3. CASE g \in Flows(mb[waitAt[g]].waiting)
    BY <1>3, <2>1, <2>2, <2>3
  <2>4. ASSUME NEW w \in Worker, OnItsWay(w, g) PROVE OnItsWay(w, g)'
    <3>1. w \in Thread /\ w # t
      BY <2>4 DEF OnItsWay, Thread
    <3> QED
      BY <1>1, <2>1, <2>4, <3>1 DEF OnItsWay
  <2> QED
    BY <1>7, <2>1, <2>3, <2>4 DEF Indexed
<1>8. ASSUME NEW u \in Thread, th'[u].pc = "park_send" PROVE waitAt'[th'[u].cur] = th'[u].to
  <2>1. u # t /\ th'[u] = th[u]
    BY <1>1, <1>8
  <2>2. th[u].cur \in Flow
    BY <1>8, <2>1 DEF Types, Threads, Sound, Driving
  <2>3. th[u].cur # NoFlow
    BY <2>2, MessagingAssumption
  <2>4. th[u].cur # s
    BY <1>2, <2>3, CurInHand
  <2>5. waitAt'[th[u].cur] = waitAt[th[u].cur]
    BY <1>4, <2>2, <2>4
  <2> QED
    <3>1. th'[u].cur = th[u].cur /\ th'[u].to = th[u].to /\ th[u].pc = "park_send"
      BY <1>8, <2>1
    <3>2. waitAt[th[u].cur] = th[u].to
      BY <3>1 DEF Indexed
    <3> QED
      BY <2>5, <3>1, <3>2
<1>9. ASSUME NEW u \in Thread, th'[u].pc \in Closing PROVE mb'[th'[u].f].closed
  <2>1. th[u].pc \in Closing /\ th'[u].f = th[u].f
    BY <1>1, <1>9
  <2>2. th[u].f \in Flow
    BY <2>1 DEF Types, Threads, Sound, OnFlow, Helping, Closing
  <2> QED
    BY <1>3, <2>1, <2>2 DEF Indexed
<1> QED
  BY <1>6, <1>7, <1>8, <1>9 DEF Indexed

\* A step after which every wait for a reply is an old one, and found as before.
LEMMA AsksKeep ==
  ASSUME Types, Asks, NEW t \in Thread, NEW h \in Flow, NEW r, NEW m, Touch(t, r, h, m),
         \A a \in Flow : askWait'[a] = askWait[a] \/ (askWait'[a] = NoFlow /\ ~mb'[a].parked),
         Waits(r, askWait'),
         m.parked => mb[h].parked /\ m.filter = mb[h].filter,
         \A a \in th[t].orphans : a \in r.orphans \/ ~mb'[a].parked,
         th[t].pc \in Pending /\ th[t].ask =>
           \/ ~mb'[th[t].f].parked
           \/ r.pc \in Pending /\ r.ask /\ r.f = th[t].f
           \/ askWait'[th[t].f] # NoFlow
  PROVE  Asks'
<1>1. /\ th'[t] = r /\ \A u \in Thread : u # t => th'[u] = th[u]
      /\ mb'[h] = m /\ \A g \in Flow : g # h => mb'[g] = mb[g]
  BY Touched, SMTT(30)
<1>2. ASSUME NEW u \in Thread PROVE Waits(th'[u], askWait')
  <2>1. CASE u = t
    BY <1>1, <2>1
  <2>2. CASE u # t
    <3>1. th'[u] = th[u] /\ Waits(th[u], askWait)
      BY <1>1, <2>2 DEF Asks
    <3>2. th[u].pc = "ask_park" => th[u].f \in Flow
      BY DEF Types, Threads, Sound, OnFlow, Helping
    <3> QED
      BY <3>1, <3>2 DEF Waits
  <2> QED
    BY <2>1, <2>2
<1>3. ASSUME NEW a \in Flow, Asking(a)'
      PROVE  \/ askWait'[a] = mb'[a].filter.from
             \/ /\ askWait'[a] = NoFlow
                /\ \/ \E u \in Thread : a \in th'[u].orphans
                   \/ \E w \in Worker : Revalidates(th'[w], a)
  <2>1. mb'[a].parked /\ mb[a].parked /\ mb'[a].filter = mb[a].filter
    BY <1>1, <1>3 DEF Asking
  <2>2. Asking(a) /\ askWait'[a] = askWait[a]
    BY <1>3, <2>1 DEF Asking
  <2>3. CASE askWait[a] = mb[a].filter.from
    BY <2>1, <2>2, <2>3
  <2>4. CASE askWait[a] = NoFlow /\ \E u \in Thread : a \in th[u].orphans
    <3>1. PICK u \in Thread : a \in th[u].orphans
      BY <2>4
    <3>2. a \in th'[u].orphans
      BY <1>1, <2>1, <3>1
    <3> QED
      BY <2>2, <2>4, <3>1, <3>2
  <2>5. CASE askWait[a] = NoFlow /\ \E w \in Worker : Revalidates(th[w], a)
    <3>1. PICK w \in Worker : Revalidates(th[w], a)
      BY <2>5
    <3>2. w \in Thread
      BY DEF Thread
    <3>3. Revalidates(th'[w], a)
      <4>1. CASE w # t
        BY <1>1, <3>1, <3>2, <4>1
      <4>2. CASE w = t
        BY <1>1, <2>1, <2>2, <2>5, <3>1, <4>2 DEF Revalidates
      <4> QED
        BY <4>1, <4>2
    <3> QED
      BY <2>2, <2>5, <3>3
  <2> QED
    BY <2>2, <2>3, <2>4, <2>5 DEF Asks
<1> QED
  BY <1>2, <1>3 DEF Asks

-----------------------------------------------------------------------------
(* Steps that move no box *)

\* A step of a thread alone is one on an inbox it leaves as it is.
LEMMA TouchThread ==
  ASSUME Types, NEW t \in Thread, NEW h \in Flow, NEW r, Goto(t, r), mb' = mb
  PROVE  Touch(t, r, h, mb[h])
<1>1. mb = [g \in Flow |-> mb[g]]
  BY DEF Types, Boxes
<1>2. mb = [mb EXCEPT ![h] = mb[h]]
  BY <1>1
<1> QED
  BY <1>2 DEF Touch, Goto

\* What the invariant says of an inbox and of a thread.
LEMMA BoxOf ==
  ASSUME IInv, NEW h \in Flow
  PROVE  /\ Box(mb[h]) /\ Distinct(mb[h].waiting) /\ Kept(mb[h], mb[h])
         /\ Flows(mb[h].waiting) \subseteq Flow
<1>1. Box(mb[h]) /\ Distinct(mb[h].waiting)
  BY DEF IInv, Types, Boxes, OnePlace, Distinct
<1> QED
  BY <1>1, KeptSame DEF Box

LEMMA ThreadOf ==
  ASSUME IInv, NEW t \in Thread
  PROVE  Sound(th[t]) /\ HeldOnce(th[t]) /\ Waits(th[t], askWait)
BY DEF IInv, Types, Threads, OnePlace, Asks

\* a thread whose locals promise nothing about a wait
Plain == Pcs \ {"ask_pop", "ask_insert", "ask_park", "park"}

LEMMA PlainWaits ==
  ASSUME NEW r, r.pc \in Plain, NEW index
  PROVE  Waits(r, index)
BY DEF Plain, Waits

LEMMA SameAsks ==
  ASSUME askWait' = askWait
  PROVE  \A a \in Flow : askWait'[a] = askWait[a] \/ (askWait'[a] = NoFlow /\ ~mb'[a].parked)
OBVIOUS

\* A worker whose hop was accepted: an Ask goes on to wait for its reply.
LEMMA AfterFacts ==
  ASSUME NEW c \in Flow, NEW ask, NEW to \in Flow, NEW hop, NEW timed, NEW k,
         k = AfterDelivery(c, ask, to, hop, timed)
  PROVE  /\ Sound(k) /\ HeldOnce(k) /\ Hand(k) = {c}
         /\ k.pc \in {"run", "ask_pop"} /\ k.orphans = {}
         /\ \A index : Waits(k, index)
<1>1. c # NoFlow /\ c \in MaybeFlow
  BY MessagingAssumption DEF MaybeFlow
<1>2. CASE ask
  <2>0. PICK fl : fl = Correlation(hop.rid, to)
    OBVIOUS
  <2>2. fl.kind = "Correlation" /\ fl.from = to
    BY <2>0 DEF Correlation
  <2>9. PICK r : r = [IdleThread EXCEPT !.pc = "ask_pop", !.cur = c, !.to = to, !.ask = Yes,
                                        !.filter = fl, !.timed = timed]
    OBVIOUS
  <2>1. k = r
    BY <1>2, <2>0, <2>9 DEF AfterDelivery, Yes
  <2>3. r = Rec("ask_pop", c, NoFlow, to, Yes, NoHop, fl, timed, 0, << >>, {})
    BY <2>9, IdleFacts DEF Rec
  <2>4. /\ r.pc = "ask_pop" /\ r.orphans = {} /\ r.ask = Yes /\ r.filter = fl /\ r.to = to
    BY <2>3 DEF Rec
  <2>5. /\ "ask_pop" \in Pcs /\ to \in MaybeFlow /\ NoFlow \in MaybeFlow /\ "ask_pop" # "fin"
        /\ "ask_pop" \notin OnFlow /\ "ask_pop" \notin Helping /\ "ask_pop" \notin Alone
        /\ "ask_pop" \notin Checking
    BY DEF Pcs, MaybeFlow, OnFlow, Helping, Alone, Checking
  <2>6. Sound(r) /\ HeldOnce(r) /\ Hand(r) = {c}
    BY <1>1, <2>3, <2>5, PlainRec, ZeroEpoch, SMTT(30)
  <2> QED
    BY <2>1, <2>2, <2>4, <2>6 DEF Yes, Waits
<1>3. CASE ~ask
  <2>1. k = Running(c)
    BY <1>3 DEF AfterDelivery
  <2>2. /\ Sound(k) /\ HeldOnce(k) /\ Hand(k) = {c} \ {NoFlow}
        /\ k = Rec(IF c = NoFlow THEN "idle" ELSE "run", c, NoFlow, NoFlow, No, NoHop, AnyHop, No,
                   0, << >>, {})
    BY <1>1, <2>1, RunningFacts
  <2>3. k.pc = "run" /\ k.orphans = {}
    <3>1. k = Rec("run", c, NoFlow, NoFlow, No, NoHop, AnyHop, No, 0, << >>, {})
      BY <1>1, <2>2
    <3>2. LET q == Rec("run", c, NoFlow, NoFlow, No, NoHop, AnyHop, No, 0, << >>, {})
          IN  q.pc = "run" /\ q.orphans = {}
      BY DEF Rec
    <3> QED
      BY <3>1, <3>2
  <2> QED
    BY <1>1, <2>2, <2>3 DEF Waits
<1> QED
  BY <1>2, <1>3

\* A step that keeps every waiting list and its index, and parks no flow.
LEMMA FrameStep ==
  ASSUME IInv, NEW t \in Thread, NEW h \in Flow, NEW r, NEW m, Touch(t, r, h, m), Box(m),
         Flows(m.waiting) = Flows(mb[h].waiting), m.closed = mb[h].closed,
         m.parked => mb[h].parked /\ m.filter = mb[h].filter,
         live' = live, waitAt' = waitAt, Tables', Sound(r), OnePlace',
         \A a \in Flow : askWait'[a] = askWait[a] \/ (askWait'[a] = NoFlow /\ ~mb'[a].parked),
         Waits(r, askWait'), th[t].orphans = {},
         th[t].pc # "park_send", r.pc # "park_send", r.pc \notin Closing,
         th[t].pc \in Pending /\ th[t].ask =>
           \/ ~mb'[th[t].f].parked
           \/ r.pc \in Pending /\ r.ask /\ r.f = th[t].f
           \/ askWait'[th[t].f] # NoFlow
  PROVE  IInv'
<1>0. Types /\ OnePlace /\ Indexed /\ Asks
  BY DEF IInv
<1>1. Types'
  BY <1>0, TypesStep
<1>2. Indexed'
  BY <1>0, IndexedKeep
<1>3. \A a \in th[t].orphans : a \in r.orphans \/ ~mb'[a].parked
  <2>1. th[t].orphans = {}
    OBVIOUS
  <2> QED
    BY <2>1
<1>4. Asks'
  BY <1>0, <1>3, AsksKeep
<1> QED
  BY <1>1, <1>2, <1>4 DEF IInv

\* A step that moves no box: hops are queued and taken, signals, deadlines and locals change.
LEMMA QuietStep ==
  ASSUME IInv, NEW t \in Thread, NEW h \in Flow, NEW r, NEW m, Touch(t, r, h, m), Kept(m, mb[h]),
         runq' = runq, asleep' = asleep, live' = live, waitAt' = waitAt, askWait' = askWait,
         Tables', Sound(r), HeldOnce(r), Hand(r) = Hand(th[t]), Waits(r, askWait),
         th[t].orphans = {}, th[t].pc # "park_send", r.pc # "park_send", r.pc \notin Closing,
         th[t].pc \in Pending /\ th[t].ask =>
           \/ r.pc \in Pending /\ r.ask /\ r.f = th[t].f
           \/ askWait[th[t].f] # NoFlow
  PROVE  IInv'
<1>0. Types /\ OnePlace
  BY DEF IInv
<1>1. /\ Box(m) /\ m.parked = mb[h].parked /\ m.filter = mb[h].filter /\ m.closed = mb[h].closed
      /\ m.waiting = mb[h].waiting
  BY DEF Kept
<1>2. Distinct(m.waiting) /\ Flows(m.waiting) = Flows(mb[h].waiting)
  BY <1>1, BoxOf
<1>3. OnePlace'
  BY <1>0, <1>1, <1>2, Calm
<1>4. m.parked => mb[h].parked /\ m.filter = mb[h].filter
  BY <1>1
<1>5. \A a \in Flow : askWait'[a] = askWait[a] \/ (askWait'[a] = NoFlow /\ ~mb'[a].parked)
  BY SameAsks
<1>6. Waits(r, askWait')
  OBVIOUS
<1>7. th[t].pc \in Pending /\ th[t].ask =>
           \/ ~mb'[th[t].f].parked
           \/ r.pc \in Pending /\ r.ask /\ r.f = th[t].f
           \/ askWait'[th[t].f] # NoFlow
  OBVIOUS
<1> QED
  BY <1>1, <1>2, <1>3, <1>4, <1>5, <1>6, <1>7, FrameStep

\* What a thread outside finalize has in hand.
LEMMA HandOf ==
  ASSUME IInv, NEW t \in Thread, th[t].pc \notin Closing \cup {"fin"}
  PROVE  /\ th[t].orphans = {} /\ th[t].work = << >>
         /\ Hand(th[t]) = ({th[t].cur} \ {NoFlow}) \cup (IF th[t].pc \in Helping THEN {th[t].f} ELSE {})
<1>1. th[t].work = << >> /\ th[t].orphans = {}
  BY ThreadOf DEF Sound, Closing
<1>2. Range(<< >>) = {}
  BY SMTT(30) DEF Range
<1> QED
  BY <1>1, <1>2 DEF Hand

\* One more operation.
LEMMA IssueTables ==
  ASSUME IInv, NEW w \in Worker, NEW op, Issue(w, op)
  PROVE  /\ w \in Thread /\ th[w].pc = "run" /\ th[w].cur \in Flow /\ th[w].cur # NoFlow
         /\ Hand(th[w]) = {th[w].cur} /\ th[w].orphans = {}
         /\ issued' \in [Flow -> 0..MaxOps]
<1>1. w \in Thread /\ th[w].pc = "run" /\ Sound(th[w])
  BY ThreadOf DEF Issue, Thread
<1>2. th[w].cur \in Flow /\ th[w].cur # NoFlow
  BY <1>1, MessagingAssumption DEF Sound, Driving
<1>3. th[w].work = << >> /\ th[w].orphans = {} /\ th[w].pc \notin Helping
  BY <1>1 DEF Sound, Closing, Helping
<1>4. Range(<< >>) = {}
  BY SMTT(30) DEF Range
<1>5. Hand(th[w]) = {th[w].cur}
  BY <1>2, <1>3, <1>4 DEF Hand
<1>6. issued' \in [Flow -> 0..MaxOps]
  <2>1. issued \in [Flow -> 0..MaxOps] /\ MaxOps \in Nat
    BY MessagingAssumption DEF IInv, Types, Tables
  <2>2. issued[th[w].cur] < MaxOps /\ issued' = [issued EXCEPT ![th[w].cur] = @ + 1]
    BY DEF Issue
  <2>3. issued[th[w].cur] + 1 \in 0..MaxOps
    BY <1>2, <2>1, <2>2, SMTT(30)
  <2> QED
    BY <1>2, <2>1, <2>2, <2>3
<1> QED
  BY <1>1, <1>2, <1>3, <1>5, <1>6

\* A thread that only changes its position.
LEMMA PcFacts ==
  ASSUME NEW l, Sound(l), HeldOnce(l), l.pc \notin Closing \cup {"fin"}, NEW p \in Pcs,
         p \notin Closing \cup {"fin"}, NEW r, r = [l EXCEPT !.pc = p],
         p \in Driving => l.cur \in Flow, p \in OnFlow => l.f \in Flow,
         p \in OnTarget => l.to \in Flow, p \in Checking /\ l.ask => l.to \in Flow,
         p \in Alone => l.cur = NoFlow, p \in Helping <=> l.pc \in Helping
  PROVE  /\ Sound(r) /\ HeldOnce(r) /\ Hand(r) = Hand(l) /\ r.pc = p /\ r.f = l.f /\ r.ask = l.ask
         /\ r.to = l.to /\ r.filter = l.filter /\ r.cur = l.cur /\ r.orphans = {}
<1>1. l = Rec(l.pc, l.cur, l.f, l.to, l.ask, l.hop, l.filter, l.timed, l.epoch, l.work, l.orphans)
  BY DEF Sound, IsRec
<1>2. r = Rec(p, l.cur, l.f, l.to, l.ask, l.hop, l.filter, l.timed, l.epoch, l.work, l.orphans)
  BY <1>1 DEF Rec
<1>3. /\ IsRec(r) /\ r.pc = p /\ r.cur = l.cur /\ r.f = l.f /\ r.to = l.to /\ r.ask = l.ask
      /\ r.filter = l.filter /\ r.epoch = l.epoch /\ r.work = l.work /\ r.orphans = l.orphans
  <2>1. /\ r.pc = p /\ r.cur = l.cur /\ r.f = l.f /\ r.to = l.to /\ r.ask = l.ask
        /\ r.hop = l.hop /\ r.filter = l.filter /\ r.timed = l.timed /\ r.epoch = l.epoch
        /\ r.work = l.work /\ r.orphans = l.orphans
    BY <1>2 DEF Rec
  <2>2. IsRec(r)
    BY <1>2, <2>1 DEF IsRec
  <2> QED
    BY <2>1, <2>2
<1>4. l.work = << >> /\ l.orphans = {}
  BY DEF Sound, Closing
<1>5. /\ l.cur \in MaybeFlow /\ l.f \in MaybeFlow /\ l.to \in MaybeFlow
      /\ l.epoch \in Epoch /\ l.work \in Seq(Flow) /\ l.orphans \subseteq Flow
  BY DEF Sound
<1>6. Sound(r)
  BY <1>3, <1>4, <1>5 DEF Sound
<1>7. HeldOnce(r)
  BY <1>3 DEF HeldOnce
<1>8. Hand(r) = Hand(l)
  BY <1>3 DEF Hand
<1> QED
  BY <1>3, <1>4, <1>6, <1>7, <1>8

-----------------------------------------------------------------------------
(* The index of senders *)

\* A step that parks no flow and keeps the index of senders exact.
LEMMA IndexStep ==
  ASSUME IInv, NEW t \in Thread, NEW h \in Flow, NEW r, NEW m, Touch(t, r, h, m), Box(m),
         m.parked => mb[h].parked /\ m.filter = mb[h].filter,
         Tables', Sound(r), OnePlace', Indexed', askWait' = askWait, Waits(r, askWait),
         th[t].pc \notin Closing \cup {"fin"},
         th[t].pc \in Pending /\ th[t].ask => r.pc \in Pending /\ r.ask /\ r.f = th[t].f
  PROVE  IInv'
<1>1. Types /\ Asks
  BY DEF IInv
<1>2. Types'
  BY <1>1, TypesStep
<1>3. th[t].orphans = {}
  BY HandOf
<1>4. \A a \in th[t].orphans : a \in r.orphans \/ ~mb'[a].parked
  BY <1>3
<1>5. \A a \in Flow : askWait'[a] = askWait[a] \/ (askWait'[a] = NoFlow /\ ~mb'[a].parked)
  BY SameAsks
<1>6. Waits(r, askWait')
  OBVIOUS
<1>7. th[t].pc \in Pending /\ th[t].ask =>
           \/ ~mb'[th[t].f].parked
           \/ r.pc \in Pending /\ r.ask /\ r.f = th[t].f
           \/ askWait'[th[t].f] # NoFlow
  OBVIOUS
<1>8. Asks'
  BY <1>1, <1>4, <1>5, <1>6, <1>7, AsksKeep
<1> QED
  BY <1>2, <1>8 DEF IInv

\* A thread that writes the index entry of a flow in its hands.
LEMMA IndexedSet ==
  ASSUME Types, OnePlace, Indexed, NEW t \in Thread, NEW h \in Flow, NEW r, NEW m,
         Touch(t, r, h, m), live' = live, NEW c \in Flow, c \in Hand(th[t]), NEW v \in MaybeFlow,
         waitAt' = [waitAt EXCEPT ![c] = v],
         Flows(m.waiting) = Flows(mb[h].waiting), m.closed = mb[h].closed,
         th[t].pc = "park_send" => th[t].cur = c,
         r.pc = "park_send" => r.cur = c /\ r.to = v,
         v # NoFlow => r.pc = "park_send" /\ t \in Worker,
         r.pc \notin Closing
  PROVE  Indexed'
<1>1. /\ th'[t] = r /\ \A u \in Thread : u # t => th'[u] = th[u]
      /\ mb'[h] = m /\ \A g \in Flow : g # h => mb'[g] = mb[g]
  BY Touched, SMTT(30)
<1>2. \A g \in Flow : Flows(mb'[g].waiting) = Flows(mb[g].waiting) /\ mb'[g].closed = mb[g].closed
  BY <1>1
<1>3. /\ \A g \in Flow : c \notin Flows(mb[g].waiting)
      /\ \A u \in Thread : u # t => c \notin Hand(th[u])
  BY InHandOnly
<1>4. \A g \in Flow : waitAt'[g] = IF g = c THEN v ELSE waitAt[g]
  BY DEF Types, Tables
<1>5. \A k \in Flow : Flows(mb[k].waiting) \subseteq Flow
  BY DEF Types, Boxes, Box
<1>6. ASSUME NEW k \in Flow, NEW g \in Flows(mb'[k].waiting)
      PROVE  waitAt'[g] = k /\ ~mb'[k].closed /\ k \in live'
  <2>1. g \in Flows(mb[k].waiting) /\ g # c /\ g \in Flow
    BY <1>2, <1>3, <1>5, <1>6
  <2>2. waitAt[g] = k /\ ~mb[k].closed /\ k \in live
    BY <2>1 DEF Indexed
  <2> QED
    BY <1>2, <1>4, <2>1, <2>2
<1>7. ASSUME NEW g \in Flow, waitAt'[g] # NoFlow
      PROVE  g \in Flows(mb'[waitAt'[g]].waiting) \/ \E w \in Worker : OnItsWay(w, g)'
  <2>1. CASE g = c
    <3>1. waitAt'[g] = v
      BY <1>4, <2>1
    <3>2. r.pc = "park_send" /\ t \in Worker /\ r.cur = c /\ r.to = v
      BY <1>7, <3>1
    <3>3. OnItsWay(t, g)'
      BY <1>1, <2>1, <3>1, <3>2 DEF OnItsWay
    <3> QED
      BY <3>2, <3>3
  <2>2. CASE g # c
    <3>1. waitAt'[g] = waitAt[g] /\ waitAt[g] # NoFlow
      BY <1>4, <1>7, <2>2
    <3>2. waitAt[g] \in Flow
      BY <3>1 DEF Types, Tables, MaybeFlow
    <3>3. CASE g \in Flows(mb[waitAt[g]].waiting)
      BY <1>2, <3>1, <3>2, <3>3
    <3>4. ASSUME NEW w \in Worker, OnItsWay(w, g) PROVE OnItsWay(w, g)'
      <4>1. w \in Thread /\ w # t
        BY <2>2, <3>4 DEF Thread, OnItsWay
      <4> QED
        BY <1>1, <3>1, <3>4, <4>1 DEF OnItsWay
    <3> QED
      BY <3>1, <3>3, <3>4 DEF Indexed
  <2> QED
    BY <2>1, <2>2
<1>8. ASSUME NEW u \in Thread, th'[u].pc = "park_send" PROVE waitAt'[th'[u].cur] = th'[u].to
  <2>1. CASE u = t
    BY <1>1, <1>4, <1>8, <2>1
  <2>2. CASE u # t
    <3>1. th'[u] = th[u]
      BY <1>1, <2>2
    <3>2. th[u].cur \in Flow
      BY <1>8, <3>1 DEF Types, Threads, Sound, Driving
    <3>3. th[u].cur # NoFlow
      BY <3>2, MessagingAssumption
    <3>4. th[u].cur # c
      BY <1>3, <2>2, <3>3, CurInHand
    <3>5. waitAt'[th[u].cur] = waitAt[th[u].cur]
      BY <1>4, <3>2, <3>4
    <3> QED
      <4>1. th'[u].cur = th[u].cur /\ th'[u].to = th[u].to /\ th[u].pc = "park_send"
        BY <1>8, <3>1
      <4>2. waitAt[th[u].cur] = th[u].to
        BY <4>1 DEF Indexed
      <4> QED
        BY <3>5, <4>1, <4>2
  <2> QED
    BY <2>1, <2>2
<1>9. ASSUME NEW u \in Thread, th'[u].pc \in Closing PROVE mb'[th'[u].f].closed
  <2>1. th[u].pc \in Closing /\ th'[u].f = th[u].f
    BY <1>1, <1>9
  <2>2. th[u].f \in Flow
    BY <2>1 DEF Types, Threads, Sound, Closing, OnFlow, Helping
  <2> QED
    BY <1>2, <2>1, <2>2 DEF Indexed
<1> QED
  BY <1>6, <1>7, <1>8, <1>9 DEF Indexed

\* park_sender: a sender on its way is in the list its entry names.
LEMMA IndexedPark ==
  ASSUME Types, OnePlace, Indexed, NEW t \in Thread, NEW h \in Flow, NEW r, NEW m,
         Touch(t, r, h, m), live' = live, waitAt' = waitAt,
         th[t].pc = "park_send", th[t].to = h, h \in live, ~mb[h].closed,
         NEW c \in Flow, th[t].cur = c,
         Flows(m.waiting) = Flows(mb[h].waiting) \cup {c}, m.closed = mb[h].closed,
         r.pc \notin Closing \cup {"park_send"}
  PROVE  Indexed'
<1>1. /\ th'[t] = r /\ \A u \in Thread : u # t => th'[u] = th[u]
      /\ mb'[h] = m /\ \A g \in Flow : g # h => mb'[g] = mb[g]
  BY Touched, SMTT(30)
<1>2. \A g \in Flow : mb'[g].closed = mb[g].closed
  BY <1>1
<1>3. waitAt[c] = h
  BY DEF Indexed
<1>4. ASSUME NEW k \in Flow, NEW g \in Flows(mb'[k].waiting)
      PROVE  waitAt'[g] = k /\ ~mb'[k].closed /\ k \in live'
  <2>1. g \in Flows(mb[k].waiting) \/ (g = c /\ k = h)
    BY <1>1, <1>4
  <2>2. CASE g \in Flows(mb[k].waiting)
    BY <1>2, <2>2 DEF Indexed
  <2>3. CASE g = c /\ k = h
    BY <1>2, <1>3, <2>3
  <2> QED
    BY <2>1, <2>2, <2>3
<1>5. ASSUME NEW g \in Flow, waitAt'[g] # NoFlow
      PROVE  g \in Flows(mb'[waitAt'[g]].waiting) \/ \E w \in Worker : OnItsWay(w, g)'
  <2>1. CASE g = c
    BY <1>1, <1>3, <2>1
  <2>2. CASE g # c
    <3>1. waitAt[g] # NoFlow
      BY <1>5
    <3>2. waitAt[g] \in Flow
      BY <3>1 DEF Types, Tables, MaybeFlow
    <3>3. CASE g \in Flows(mb[waitAt[g]].waiting)
      BY <1>1, <3>2, <3>3
    <3>4. ASSUME NEW w \in Worker, OnItsWay(w, g) PROVE OnItsWay(w, g)'
      <4>1. w \in Thread /\ w # t
        BY <2>2, <3>4 DEF Thread, OnItsWay
      <4> QED
        BY <1>1, <3>4, <4>1 DEF OnItsWay
    <3> QED
      BY <3>1, <3>3, <3>4 DEF Indexed
  <2> QED
    BY <2>1, <2>2
<1>6. ASSUME NEW u \in Thread, th'[u].pc = "park_send" PROVE waitAt'[th'[u].cur] = th'[u].to
  <2>1. u # t /\ th'[u] = th[u]
    BY <1>1, <1>6
  <2> QED
    BY <1>6, <2>1 DEF Indexed
<1>7. ASSUME NEW u \in Thread, th'[u].pc \in Closing PROVE mb'[th'[u].f].closed
  <2>1. th[u].pc \in Closing /\ th'[u].f = th[u].f
    BY <1>1, <1>7
  <2>2. th[u].f \in Flow
    BY <2>1 DEF Types, Threads, Sound, Closing, OnFlow, Helping
  <2> QED
    BY <1>2, <2>1, <2>2 DEF Indexed
<1> QED
  BY <1>4, <1>5, <1>6, <1>7 DEF Indexed

\* A step that drains a waiting list, and the index of its senders and of its owner.
LEMMA IndexedClose ==
  ASSUME Types, OnePlace, Indexed, NEW t \in Thread, NEW h \in Flow, NEW r, NEW m,
         Touch(t, r, h, m), live' = live, h \in Hand(th[t]),
         \A s \in Flow : waitAt'[s] = IF s = h \/ s \in Flows(mb[h].waiting) THEN NoFlow ELSE waitAt[s],
         Flows(m.waiting) = {}, m.closed,
         th[t].pc # "park_send", r.pc # "park_send", r.pc \in Closing => r.f = h
  PROVE  Indexed'
<1>1. /\ th'[t] = r /\ \A u \in Thread : u # t => th'[u] = th[u]
      /\ mb'[h] = m /\ \A g \in Flow : g # h => mb'[g] = mb[g]
  BY Touched, SMTT(30)
<1>2. /\ \A k \in Flow : h \notin Flows(mb[k].waiting)
      /\ \A u \in Thread : u # t => h \notin Hand(th[u])
  BY InHandOnly
<1>3. ASSUME NEW s \in Flows(mb[h].waiting)
      PROVE  /\ \A g \in Flow : g # h => s \notin Flows(mb[g].waiting)
             /\ \A u \in Thread : s \notin Hand(th[u])
  BY <1>3, WaitingOnly
<1>4. \A k \in Flow : Flows(mb[k].waiting) \subseteq Flow
  BY DEF Types, Boxes, Box
<1>5. \A k \in Flow : \A g \in Flows(mb'[k].waiting) :
         waitAt'[g] = k /\ ~mb'[k].closed /\ k \in live'
  <2> SUFFICES ASSUME NEW k \in Flow, NEW g \in Flows(mb'[k].waiting)
               PROVE  waitAt'[g] = k /\ ~mb'[k].closed /\ k \in live'
    OBVIOUS
  <2>1. k # h /\ mb'[k] = mb[k]
    BY <1>1
  <2>2. g \in Flows(mb[k].waiting)
    BY <2>1
  <2>3. g \in Flow /\ g # h /\ g \notin Flows(mb[h].waiting)
    BY <1>2, <1>3, <1>4, <2>1, <2>2
  <2>4. waitAt'[g] = waitAt[g]
    BY <2>3
  <2> QED
    BY <2>1, <2>2, <2>4 DEF Indexed
<1>6. ASSUME NEW g \in Flow, waitAt'[g] # NoFlow
      PROVE  g \in Flows(mb'[waitAt'[g]].waiting) \/ \E w \in Worker : OnItsWay(w, g)'
  <2>1. g # h /\ g \notin Flows(mb[h].waiting) /\ waitAt'[g] = waitAt[g]
    BY <1>6
  <2>2. waitAt[g] \in Flow
    BY <1>6, <2>1 DEF Types, Tables, MaybeFlow
  <2>3. CASE g \in Flows(mb[waitAt[g]].waiting)
    <3>1. PICK k \in Flow : k = waitAt[g]
      BY <2>2
    <3>2. k # h /\ g \in Flows(mb[k].waiting)
      BY <2>1, <2>3, <3>1
    <3>3. mb'[k] = mb[k] /\ waitAt'[g] = k
      BY <1>1, <2>1, <3>1, <3>2
    <3> QED
      BY <3>2, <3>3
  <2>4. ASSUME NEW w \in Worker, OnItsWay(w, g) PROVE OnItsWay(w, g)'
    <3>1. w \in Thread /\ w # t
      BY <2>4 DEF OnItsWay, Thread
    <3> QED
      BY <1>1, <2>1, <2>4, <3>1 DEF OnItsWay
  <2> QED
    BY <1>6, <2>1, <2>3, <2>4 DEF Indexed
<1>7. ASSUME NEW u \in Thread, th'[u].pc = "park_send" PROVE waitAt'[th'[u].cur] = th'[u].to
  <2>1. u # t /\ th'[u] = th[u]
    BY <1>1, <1>7
  <2>2. th[u].cur \in Flow
    BY <1>7, <2>1 DEF Types, Threads, Sound, Driving
  <2>3. th[u].cur # NoFlow
    BY <2>2, MessagingAssumption
  <2>4. th[u].cur # h /\ th[u].cur \notin Flows(mb[h].waiting)
    <3>1. PICK x : x = th[u].cur
      OBVIOUS
    <3>2. x \in Hand(th[u])
      BY <2>3, <3>1, CurInHand
    <3>3. x # h
      BY <1>2, <2>1, <3>2
    <3>4. x \notin Flows(mb[h].waiting)
      BY <1>3, <3>2
    <3> QED
      BY <3>1, <3>3, <3>4
  <2>5. waitAt'[th[u].cur] = waitAt[th[u].cur]
    BY <2>2, <2>4
  <2> QED
    <3>1. th'[u].cur = th[u].cur /\ th'[u].to = th[u].to /\ th[u].pc = "park_send"
      BY <1>7, <2>1
    <3>2. waitAt[th[u].cur] = th[u].to
      BY <3>1 DEF Indexed
    <3> QED
      BY <2>5, <3>1, <3>2
<1>8. ASSUME NEW u \in Thread, th'[u].pc \in Closing PROVE mb'[th'[u].f].closed
  <2>1. CASE u = t
    BY <1>1, <1>8, <2>1
  <2>2. CASE u # t
    <3>1. th'[u] = th[u] /\ th[u].pc \in Closing
      BY <1>1, <1>8, <2>2
    <3>2. th[u].f \in Flow
      BY <3>1 DEF Types, Threads, Sound, OnFlow, Helping, Closing
    <3>3. mb[th[u].f].closed
      BY <3>1 DEF Indexed
    <3>4. PICK k \in Flow : k = th[u].f
      BY <3>2
    <3>5. mb'[k].closed
      <4>1. CASE k = h
        BY <1>1, <4>1
      <4>2. CASE k # h
        BY <1>1, <3>3, <3>4, <4>2
      <4> QED
        BY <4>1, <4>2
    <3> QED
      BY <3>1, <3>4, <3>5
  <2> QED
    BY <2>1, <2>2
<1> QED
  BY <1>5, <1>6, <1>7, <1>8 DEF Indexed

\* A closed inbox leaves the directory: no list and no index names it.
LEMMA IndexedLeave ==
  ASSUME Types, Indexed, NEW t \in Thread, NEW f \in Flow, NEW r, Touch(t, r, f, mb[f]),
         mb[f].closed, live' = live \ {f}, waitAt' = waitAt, mb' = mb,
         th[t].pc # "park_send", r.pc # "park_send", r.pc \notin Closing
  PROVE  Indexed'
<1>1. th'[t] = r /\ \A u \in Thread : u # t => th'[u] = th[u]
  BY Touched, SMTT(30)
<1>2. \A k \in Flow : \A g \in Flows(mb'[k].waiting) :
         waitAt'[g] = k /\ ~mb'[k].closed /\ k \in live'
  <2> SUFFICES ASSUME NEW k \in Flow, NEW g \in Flows(mb[k].waiting)
               PROVE  waitAt[g] = k /\ ~mb[k].closed /\ k \in live \ {f}
    OBVIOUS
  <2>1. waitAt[g] = k /\ ~mb[k].closed /\ k \in live
    BY DEF Indexed
  <2> QED
    BY <2>1
<1>3. ASSUME NEW g \in Flow, waitAt'[g] # NoFlow
      PROVE  g \in Flows(mb'[waitAt'[g]].waiting) \/ \E w \in Worker : OnItsWay(w, g)'
  <2>1. ASSUME NEW w \in Worker, OnItsWay(w, g) PROVE OnItsWay(w, g)'
    <3>1. w \in Thread /\ w # t
      BY <2>1 DEF OnItsWay, Thread
    <3> QED
      BY <1>1, <2>1, <3>1 DEF OnItsWay
  <2> QED
    BY <1>3, <2>1 DEF Indexed
<1>4. \A u \in Thread : th'[u].pc = "park_send" => waitAt'[th'[u].cur] = th'[u].to
  BY <1>1 DEF Indexed
<1>5. \A u \in Thread : th'[u].pc \in Closing => mb'[th'[u].f].closed
  BY <1>1 DEF Indexed
<1> QED
  BY <1>2, <1>3, <1>4, <1>5 DEF Indexed

-----------------------------------------------------------------------------
(* The index of Asks, the flows that leave and the initial states *)

\* A worker that writes the index entry of the asker in its hands.
LEMMA AsksSet ==
  ASSUME Types, OnePlace, Asks, NEW t \in Thread, NEW r, Goto(t, r), mb' = mb,
         NEW f \in Flow, f \in Hand(th[t]), NEW v,
         askWait' = [askWait EXCEPT ![f] = v], Waits(r, askWait'),
         th[t].orphans = {}, th[t].pc \notin Pending
  PROVE  Asks'
<1>1. th'[t] = r /\ \A u \in Thread : u # t => th'[u] = th[u]
  <2>1. Touch(t, r, f, mb[f])
    BY TouchThread
  <2> QED
    BY <2>1, Touched, SMTT(30)
<1>2. /\ ~mb[f].parked /\ \A u \in Thread : u # t => f \notin Hand(th[u])
  BY InHandOnly DEF Parked
<1>3. \A g \in Flow : g # f => askWait'[g] = askWait[g]
  BY DEF Types, Tables
<1>4. ASSUME NEW u \in Thread PROVE Waits(th'[u], askWait')
  <2>1. CASE u = t
    BY <1>1, <2>1
  <2>2. CASE u # t
    <3>1. th'[u] = th[u] /\ Waits(th[u], askWait)
      BY <1>1, <2>2 DEF Asks
    <3>2. th[u].pc = "ask_park" => th[u].f \in Flow /\ th[u].f \in Hand(th[u])
      BY DEF Types, Threads, Sound, OnFlow, Helping, Hand
    <3>3. th[u].pc = "ask_park" => askWait'[th[u].f] = askWait[th[u].f]
      BY <1>2, <1>3, <2>2, <3>2
    <3> QED
      BY <3>1, <3>3 DEF Waits
  <2> QED
    BY <2>1, <2>2
<1>5. ASSUME NEW a \in Flow, Asking(a)'
      PROVE  \/ askWait'[a] = mb'[a].filter.from
             \/ /\ askWait'[a] = NoFlow
                /\ \/ \E u \in Thread : a \in th'[u].orphans
                   \/ \E w \in Worker : Revalidates(th'[w], a)
  <2>1. Asking(a) /\ a # f
    BY <1>2, <1>5 DEF Asking
  <2>2. askWait'[a] = askWait[a]
    BY <1>3, <2>1
  <2>3. CASE askWait[a] = mb[a].filter.from
    BY <2>2, <2>3
  <2>4. CASE askWait[a] = NoFlow /\ \E u \in Thread : a \in th[u].orphans
    <3>1. PICK u \in Thread : a \in th[u].orphans
      BY <2>4
    <3>2. u # t
      BY <3>1
    <3> QED
      BY <1>1, <2>2, <2>4, <3>1, <3>2
  <2>5. CASE askWait[a] = NoFlow /\ \E w \in Worker : Revalidates(th[w], a)
    <3>1. PICK w \in Worker : Revalidates(th[w], a)
      BY <2>5
    <3>2. w \in Thread /\ w # t
      BY <3>1 DEF Thread, Revalidates
    <3> QED
      BY <1>1, <2>2, <2>5, <3>1, <3>2
  <2> QED
    BY <2>1, <2>3, <2>4, <2>5 DEF Asks
<1> QED
  BY <1>4, <1>5 DEF Asks

\* A worker that parks a flow: an asker is indexed, or will be revalidated.
LEMMA AsksPark ==
  ASSUME Types, Asks, NEW t \in Worker, t \in Thread, NEW h \in Flow, NEW r, NEW m, Touch(t, r, h, m),
         askWait' = askWait, r.f = h, r.pc = "kill_check",
         AskFilter(m.filter) => r.ask /\ askWait[h] \in {m.filter.from, NoFlow},
         th[t].orphans = {}, th[t].pc \notin Pending
  PROVE  Asks'
<1>1. /\ th'[t] = r /\ \A u \in Thread : u # t => th'[u] = th[u]
      /\ mb'[h] = m /\ \A g \in Flow : g # h => mb'[g] = mb[g]
  BY Touched, SMTT(30)
<1>2. ASSUME NEW u \in Thread PROVE Waits(th'[u], askWait')
  <2>1. CASE u = t
    BY <1>1, <2>1 DEF Waits
  <2>2. CASE u # t
    BY <1>1, <2>2 DEF Asks
  <2> QED
    BY <2>1, <2>2
<1>3. ASSUME NEW a \in Flow, Asking(a)'
      PROVE  \/ askWait'[a] = mb'[a].filter.from
             \/ /\ askWait'[a] = NoFlow
                /\ \/ \E u \in Thread : a \in th'[u].orphans
                   \/ \E w \in Worker : Revalidates(th'[w], a)
  <2>1. CASE a = h
    <3>1. AskFilter(m.filter) /\ mb'[a] = m
      BY <1>1, <1>3, <2>1 DEF Asking
    <3>2. r.ask /\ askWait[h] \in {m.filter.from, NoFlow}
      BY <3>1
    <3>3. Revalidates(th'[t], a)
      BY <1>1, <2>1, <3>2 DEF Revalidates, Pending
    <3> QED
      BY <2>1, <3>1, <3>2, <3>3
  <2>2. CASE a # h
    <3>1. mb'[a] = mb[a] /\ Asking(a)
      BY <1>1, <1>3, <2>2 DEF Asking
    <3>2. CASE askWait[a] = mb[a].filter.from
      BY <3>1, <3>2
    <3>3. CASE askWait[a] = NoFlow /\ \E u \in Thread : a \in th[u].orphans
      <4>1. PICK u \in Thread : a \in th[u].orphans
        BY <3>3
      <4>2. u # t
        BY <4>1
      <4> QED
        BY <1>1, <3>3, <4>1, <4>2
    <3>4. CASE askWait[a] = NoFlow /\ \E w \in Worker : Revalidates(th[w], a)
      <4>1. PICK w \in Worker : Revalidates(th[w], a)
        BY <3>4
      <4>2. w \in Thread /\ w # t
        BY <4>1 DEF Thread, Revalidates
      <4> QED
        BY <1>1, <3>4, <4>1, <4>2
    <3> QED
      BY <3>1, <3>2, <3>3, <3>4 DEF Asks
  <2> QED
    BY <2>1, <2>2
<1> QED
  BY <1>2, <1>3 DEF Asks

\* The index of Asks drops a target, and the thread that finalizes it has the askers in its list.
LEMMA AsksOrphan ==
  ASSUME Types, Asks, NEW t \in Thread, NEW f \in Flow, NEW r, Touch(t, r, f, mb[f]),
         \A a \in Flow : askWait'[a] = IF askWait[a] = f THEN NoFlow ELSE askWait[a],
         \A a \in Flow : askWait[a] = f => a \in r.orphans,
         th[t].orphans = {}, th[t].pc \notin Pending, \A index : Waits(r, index)
  PROVE  Asks'
<1>1. /\ th'[t] = r /\ \A u \in Thread : u # t => th'[u] = th[u]
  BY Touched, SMTT(30)
<1>2. \A g \in Flow : mb'[g] = mb[g]
  <2>1. mb'[f] = mb[f] /\ \A g \in Flow : g # f => mb'[g] = mb[g]
    BY Touched, SMTT(30)
  <2> QED
    BY <2>1
<1>3. ASSUME NEW u \in Thread PROVE Waits(th'[u], askWait')
  <2>1. CASE u = t
    BY <1>1, <2>1
  <2>2. CASE u # t
    <3>1. th'[u] = th[u] /\ Waits(th[u], askWait)
      BY <1>1, <2>2 DEF Asks
    <3>2. th[u].pc = "ask_park" => th[u].f \in Flow
      BY DEF Types, Threads, Sound, OnFlow, Helping
    <3>3. th[u].pc = "ask_park" => askWait'[th[u].f] \in {th[u].to, NoFlow}
      BY <3>1, <3>2 DEF Waits
    <3> QED
      BY <3>1, <3>3 DEF Waits
  <2> QED
    BY <2>1, <2>2
<1>4. ASSUME NEW a \in Flow, Asking(a)'
      PROVE  \/ askWait'[a] = mb'[a].filter.from
             \/ /\ askWait'[a] = NoFlow
                /\ \/ \E u \in Thread : a \in th'[u].orphans
                   \/ \E w \in Worker : Revalidates(th'[w], a)
  <2>1. Asking(a) /\ mb'[a] = mb[a]
    BY <1>2, <1>4 DEF Asking
  <2>2. CASE askWait[a] = f
    <3>1. askWait'[a] = NoFlow /\ a \in th'[t].orphans
      BY <1>1, <2>2
    <3> QED
      BY <3>1
  <2>3. CASE askWait[a] # f
    <3>1. askWait'[a] = askWait[a]
      BY <2>3
    <3>2. CASE askWait[a] = mb[a].filter.from
      BY <2>1, <3>1, <3>2
    <3>3. CASE askWait[a] = NoFlow /\ \E u \in Thread : a \in th[u].orphans
      <4>1. PICK u \in Thread : a \in th[u].orphans
        BY <3>3
      <4>2. u # t
        <5>1. th[t].orphans = {}
          OBVIOUS
        <5> QED
          BY <4>1, <5>1
      <4> QED
        BY <1>1, <3>1, <3>3, <4>1, <4>2
    <3>4. CASE askWait[a] = NoFlow /\ \E w \in Worker : Revalidates(th[w], a)
      <4>1. PICK w \in Worker : Revalidates(th[w], a)
        BY <3>4
      <4>2. w \in Thread /\ w # t
        BY <4>1 DEF Thread, Revalidates
      <4> QED
        BY <1>1, <3>1, <3>4, <4>1, <4>2
    <3> QED
      BY <2>1, <3>2, <3>3, <3>4 DEF Asks
  <2> QED
    BY <2>2, <2>3
<1> QED
  BY <1>3, <1>4 DEF Asks

\* A box in the hands of a thread leaves the directory, and its hands.
LEMMA Departure ==
  ASSUME Types, OnePlace, NEW t \in Thread, NEW f \in Hand(th[t]), NEW r, Goto(t, r),
         mb' = mb, HeldOnce(r), runq' = runq, asleep' = asleep, live' = live \ {f},
         Hand(r) = Hand(th[t]) \ {f}
  PROVE  OnePlace'
<1>1. th'[t] = r /\ \A u \in Thread : u # t => th'[u] = th[u]
  <2>1. th = [u \in Thread |-> th[u]]
    BY DEF Types, Threads
  <2>2. PICK k : k = th'
    OBVIOUS
  <2>3. k = [th EXCEPT ![t] = r]
    BY <2>2 DEF Goto
  <2>4. k[t] = r /\ \A u \in Thread : u # t => k[u] = th[u]
    BY <2>1, <2>3
  <2> QED
    BY <2>2, <2>4
<1>2. ASSUME NEW p \in Place PROVE At(p)' = IF p = HandP(t) THEN At(p) \ {f} ELSE At(p)
  <2>1. CASE p = RunP
    BY <2>1, AtIs, PlacesDiffer
  <2>2. CASE p = SleepP
    BY <2>2, AtIs, PlacesDiffer
  <2>3. CASE p = InboxP
    <3>1. Parked' = Parked /\ p # HandP(t)
      BY <2>3, PlacesDiffer DEF Parked
    <3> QED
      BY <2>3, <3>1, AtIs
  <2>4. ASSUME NEW g \in Flow, p = WaitP(g) PROVE At(p)' = IF p = HandP(t) THEN At(p) \ {f} ELSE At(p)
    <3>1. p # HandP(t) /\ At(p)' = Flows(mb'[g].waiting) /\ At(p) = Flows(mb[g].waiting)
      BY <2>4, AtIs, PlacesDiffer
    <3> QED
      BY <3>1
  <2>5. ASSUME NEW u \in Thread, p = HandP(u) PROVE At(p)' = IF p = HandP(t) THEN At(p) \ {f} ELSE At(p)
    <3>1. CASE u = t
      BY <1>1, <2>5, <3>1, AtIs
    <3>2. CASE u # t
      <4>1. p # HandP(t)
        BY <2>5, <3>2, PlacesDiffer
      <4> QED
        BY <1>1, <2>5, <3>2, <4>1, AtIs
    <3> QED
      BY <3>1, <3>2
  <2> QED
    BY <2>1, <2>2, <2>3, <2>4, <2>5, Places
<1>3. HandP(t) \in Place /\ f \in At(HandP(t))
  BY AtIs, Places
<1>4. \A p \in Place : p # HandP(t) => f \notin At(p)
  BY <1>3, Exclusive
<1>5. \A p \in Place : At(p)' = At(p) \ {f}
  BY <1>2, <1>4
<1>6. \A p, q \in Place : p # q => At(p)' \cap At(q)' = {}
  BY <1>5 DEF OnePlace
<1>7. UNION {At(p)' : p \in Place} = live'
  <2>1. ASSUME NEW x \in live' PROVE \E p \in Place : x \in At(p)'
    <3>1. x \in live /\ x # f
      BY <2>1
    <3>2. PICK p \in Place : x \in At(p)
      BY <3>1 DEF OnePlace
    <3>3. x \in At(p)'
      BY <1>5, <3>1, <3>2
    <3> QED
      BY <3>3
  <2>2. ASSUME NEW p \in Place, NEW x \in At(p)' PROVE x \in live'
    <3>1. x \in At(p) /\ x # f
      BY <1>5, <2>2
    <3>2. x \in live
      BY <3>1 DEF OnePlace
    <3> QED
      BY <3>1, <3>2
  <2> QED
    BY <2>1, <2>2
<1>8. \A u \in Thread : HeldOnce(th'[u])
  BY <1>1 DEF OnePlace
<1>9. \A g \in Flow : Distinct(mb'[g].waiting)
  BY DEF OnePlace, Distinct
<1> QED
  BY <1>6, <1>7, <1>8, <1>9 DEF OnePlace, Distinct

\* The state Messaging starts from: every flow runnable, no thread at work.
LEMMA InitInv == Init => IInv
<1> SUFFICES ASSUME Init PROVE IInv
  OBVIOUS
<1>1. PICK p \in Policies : mb = [g \in Flow |-> NewInbox(p)]
  BY DEF Init
<1>2. PICK m : m = NewInbox(p)
  OBVIOUS
<1>3. m = BoxRec(p, << >>, 0, No, AnyHop, 0, << >>, No)
  BY <1>2 DEF NewInbox, BoxRec, No
<1>4. /\ m.policy = p /\ m.queue = << >> /\ m.bytes = 0 /\ m.parked = No /\ m.filter = AnyHop
      /\ m.epoch = 0 /\ m.waiting = << >> /\ m.closed = No
  BY <1>3 DEF BoxRec
<1>5. IsSeq(<< >>) /\ Flows(<< >>) = {} /\ Distinct(<< >>)
  BY SMTT(30) DEF IsSeq, Flows, Distinct, Range
<1>6. Box(m)
  <2>1. 0 \in 0..(EpochMod - 1)
    BY MailboxAssumption, SMTT(30)
  <2> QED
    BY <1>3, <1>4, <1>5, <2>1 DEF Box, No
<1>7. \A g \in Flow : mb[g] = m
  BY <1>1, <1>2
<1>8. /\ \A t \in Thread : th[t] = IdleThread
      /\ th = [t \in Thread |-> th[t]] /\ mb = [g \in Flow |-> mb[g]]
  <2>1. th = [t \in Thread |-> IdleThread]
    BY DEF Init
  <2> QED
    BY <1>1, <2>1
<1>9. Sound(IdleThread) /\ Hand(IdleThread) = {} /\ HeldOnce(IdleThread)
  BY IdleFacts
<1>10. IdleThread.pc = "idle" /\ IdleThread.orphans = {}
  BY DEF IdleThread
<1>11. Types
  <2>1. Boxes /\ Threads
    BY <1>6, <1>7, <1>8, <1>9 DEF Boxes, Threads
  <2>2. NoFlow \in MaybeFlow /\ MaxOps \in Nat
    BY MessagingAssumption DEF MaybeFlow
  <2>3. issued \in [Flow -> 0..MaxOps]
    BY <2>2, SMTT(30) DEF Init
  <2>4. waitAt \in [Flow -> MaybeFlow] /\ askWait \in [Flow -> MaybeFlow]
    BY <2>2 DEF Init
  <2>5. /\ runq \subseteq Flow /\ asleep \subseteq Flow /\ live \subseteq Flow
        /\ kill \subseteq Flow /\ toKill \subseteq Killable
        /\ \A d \in timers : d \in [flow : Flow, epoch : Epoch]
    BY DEF Init
  <2> QED
    BY <2>1, <2>3, <2>4, <2>5 DEF Types, Tables
<1>12. \A g \in Flow : Flows(mb[g].waiting) = {} /\ ~mb[g].parked /\ Distinct(mb[g].waiting)
  BY <1>4, <1>5, <1>7 DEF No
<1>13. OnePlace
  <2>1. runq = Flow /\ asleep = {} /\ live = Flow
    BY DEF Init
  <2>2. Parked = {}
    BY <1>12 DEF Parked
  <2>3. ASSUME NEW p2 \in Place, p2 # RunP PROVE At(p2) = {}
    <3>1. CASE p2 = SleepP
      BY <2>1, <3>1, AtIs
    <3>2. CASE p2 = InboxP
      BY <2>2, <3>2, AtIs
    <3>3. ASSUME NEW g \in Flow, p2 = WaitP(g) PROVE At(p2) = {}
      BY <1>12, <3>3, AtIs
    <3>4. ASSUME NEW u \in Thread, p2 = HandP(u) PROVE At(p2) = {}
      BY <1>8, <1>9, <3>4, AtIs
    <3> QED
      BY <2>3, <3>1, <3>2, <3>3, <3>4, Places
  <2>4. RunP \in Place /\ At(RunP) = Flow
    BY <2>1, AtIs, Places
  <2>5. \A p2, q \in Place : p2 # q => At(p2) \cap At(q) = {}
    BY <2>3
  <2>6. UNION {At(p2) : p2 \in Place} = live
    <3>1. \A x \in live : \E p2 \in Place : x \in At(p2)
      BY <2>1, <2>4
    <3>2. \A p2 \in Place : \A x \in At(p2) : x \in live
      BY <2>1, <2>3, <2>4
    <3> QED
      BY <3>1, <3>2
  <2>7. \A u \in Thread : HeldOnce(th[u])
    BY <1>8, <1>9
  <2> QED
    BY <1>12, <2>5, <2>6, <2>7 DEF OnePlace, Distinct
<1>14. Indexed
  <2>1. \A g \in Flow : waitAt[g] = NoFlow
    BY DEF Init
  <2>2. \A t \in Thread : th[t].pc # "park_send" /\ th[t].pc \notin Closing
    BY <1>8, <1>10 DEF Closing
  <2> QED
    BY <1>12, <2>1, <2>2 DEF Indexed
<1>15. Asks
  <2>1. \A t \in Thread : Waits(th[t], askWait)
    BY <1>8, <1>10 DEF Waits
  <2> QED
    BY <1>12, <2>1 DEF Asks, Asking
<1> QED
  BY <1>11, <1>13, <1>14, <1>15 DEF IInv
=============================================================================
