----------------------------- MODULE DataLemmas ------------------------------
(***************************************************************************)
(* Lemmas about the data the models are built from, whatever the module.  A  *)
(* queue in which everybody stands at most once is a lock of server.py,      *)
(* whose holder is the first of those who wait: the lemmas speak of the queue*)
(* and of the set of those who stand in it, so that a proof about a lock     *)
(* reasons about that set.  The others are about finite sets of numbers put  *)
(* in order, about sequences of anything, and about slots of one size.       *)
(***************************************************************************)
EXTENDS SequencesExt, Integers, WellFoundedInduction, FunctionTheorems, FiniteSetTheorems,
        SequenceTheorems, TLAPS

\* The queue q holds the elements of S, each once, and nothing else.
Lists(q, S) ==
    /\ q \in Seq(S)
    /\ IsInjective(q)
    /\ \A x \in S : \E i \in DOMAIN q : q[i] = x

\* A queue of nobody is empty, and any other has a head, who stands in it.
LEMMA QueueHead ==
    ASSUME NEW S, NEW q, Lists(q, S)
    PROVE  /\ q = <<>> <=> S = {}
           /\ S # {} => q[1] \in S
<1>1. /\ Len(q) \in Nat /\ DOMAIN q = 1..Len(q)
      /\ \A i \in 1..Len(q) : q[i] \in S
  BY LenProperties, ElementOfSeq DEF Lists
<1>2. ASSUME S = {} PROVE q = <<>>
  BY <1>1, <1>2, EmptySeq DEF Lists
<1>3. ASSUME q = <<>> PROVE S = {}
  <2>1. DOMAIN q = {}
    BY <1>3
  <2> QED
    BY <2>1 DEF Lists
<1>4. ASSUME S # {} PROVE q[1] \in S
  <2>1. Len(q) # 0
    BY <1>1, <1>4 DEF Lists
  <2> QED
    BY <1>1, <2>1
<1> QED
  BY <1>2, <1>3, <1>4

\* Somebody new joins at the end; the head of a queue that has one stays.
LEMMA QueueAppend ==
    ASSUME NEW S, NEW q, Lists(q, S), NEW x, x \notin S
    PROVE  /\ Lists(Append(q, x), S \cup {x})
           /\ S = {} => Append(q, x)[1] = x
           /\ S # {} => Append(q, x)[1] = q[1]
<1> DEFINE T == S \cup {x}
           n == Len(q)
           p == Append(q, x)
<1>1. /\ q \in Seq(T)
      /\ n \in Nat /\ DOMAIN q = 1..n
      /\ \A i \in 1..n : q[i] \in S
  BY LenProperties, ElementOfSeq, SeqMonotonic DEF Lists
<1>2. /\ p \in Seq(T) /\ DOMAIN p = 1..(n + 1)
      /\ \A i \in 1..n : p[i] = q[i]
      /\ p[n + 1] = x
  BY <1>1, AppendProperties, LenProperties
<1>3. S = {} <=> n = 0
  BY <1>1, QueueHead, EmptySeq
<1> HIDE DEF n, p
<1>4. \A i \in 1..(n + 1) : i = n + 1 \/ i \in 1..n
  BY <1>1
<1>5. n + 1 \in 1..(n + 1) /\ \A i \in 1..n : i \in 1..(n + 1)
  BY <1>1
<1>6. IsInjective(p)
  BY <1>1, <1>2, <1>4 DEF IsInjective, Lists
<1>7. \A y \in T : \E i \in DOMAIN p : p[i] = y
  BY <1>1, <1>2, <1>5 DEF Lists
<1>8. (S = {} => p[1] = x) /\ (S # {} => p[1] = q[1])
  BY <1>1, <1>2, <1>3
<1> QED
  BY <1>2, <1>6, <1>7, <1>8 DEF Lists, p

\* The head leaves, and everybody else stays.
LEMMA QueueTail ==
    ASSUME NEW S, NEW q, Lists(q, S), S # {}
    PROVE  Lists(Tail(q), S \ {q[1]})
<1> DEFINE n == Len(q)
           t == Tail(q)
           T == S \ {q[1]}
<1>1. q \in Seq(S) /\ q # <<>> /\ n \in Nat \ {0} /\ DOMAIN q = 1..n
  BY QueueHead, LenProperties, EmptySeq DEF Lists
<1>2. /\ t \in Seq(S) /\ DOMAIN t = 1..(n - 1) /\ Len(t) = n - 1
      /\ \A i \in 1..(n - 1) : t[i] = q[i + 1]
  BY <1>1, HeadTailProperties, LenProperties
<1>3. \A i \in 1..n : q[i] \in S
  BY <1>1, ElementOfSeq
<1> HIDE DEF n, t
<1>4. /\ \A i \in 1..(n - 1) : i + 1 \in 1..n /\ i + 1 # 1
      /\ 1 \in 1..n
      /\ \A i \in 1..n : i = 1 \/ (i - 1 \in 1..(n - 1) /\ (i - 1) + 1 = i)
      /\ \A i, j \in 1..(n - 1) : i + 1 = j + 1 => i = j
  BY <1>1
<1>inj. \A i, j \in 1..n : q[i] = q[j] => i = j
  BY <1>1 DEF Lists, IsInjective
<1>5. \A i \in 1..(n - 1) : t[i] \in T
  <2> SUFFICES ASSUME NEW i \in 1..(n - 1)
               PROVE  q[i + 1] \in S /\ q[i + 1] # q[1]
    BY <1>2
  <2> QED
    BY <1>inj, <1>3, <1>4
<1>6. t \in Seq(T)
  <2>1. t \in [1..(n - 1) -> T] /\ n - 1 \in Nat
    BY <1>1, <1>2, <1>5, LenProperties
  <2> QED
    BY <2>1, SeqDef
<1>7. IsInjective(t)
  <2> SUFFICES ASSUME NEW i \in 1..(n - 1), NEW j \in 1..(n - 1), t[i] = t[j]
               PROVE  i = j
    BY <1>2 DEF IsInjective
  <2>1. q[i + 1] = q[j + 1]
    BY <1>2
  <2>2. i + 1 = j + 1
    BY <1>inj, <1>4, <2>1
  <2> QED
    BY <1>4, <2>2
<1>8. \A y \in T : \E i \in DOMAIN t : t[i] = y
  <2> SUFFICES ASSUME NEW y \in T
               PROVE  \E i \in 1..(n - 1) : t[i] = y
    BY <1>2
  <2>1. PICK i \in 1..n : q[i] = y
    BY <1>1 DEF Lists
  <2>2. i # 1
    BY <2>1
  <2> QED
    BY <2>1, <2>2, <1>2, <1>4
<1> QED
  BY <1>6, <1>7, <1>8 DEF Lists, t

\* Whoever is taken out of a queue leaves the others where they stood.
LEMMA QueueWithout ==
    ASSUME NEW S, NEW q, Lists(q, S), NEW x
    PROVE  /\ Lists(RemoveFirst(q, x), S \ {x})
           /\ S # {} /\ q[1] # x => RemoveFirst(q, x)[1] = q[1]
           /\ Len(RemoveFirst(q, x)) <= Len(q)
<1> DEFINE n == Len(q)
           p == RemoveFirst(q, x)
           T == S \ {x}
<1>1. /\ q \in Seq(S) /\ n \in Nat /\ DOMAIN q = 1..n
      /\ \A i \in 1..n : q[i] \in S
      /\ \A i, j \in 1..n : q[i] = q[j] => i = j
      /\ \A y \in S : \E i \in 1..n : q[i] = y
  BY LenProperties, ElementOfSeq DEF Lists, IsInjective
<1>2. CASE x \notin S
  <2>1. p = q /\ T = S
    BY <1>1, <1>2 DEF RemoveFirst
  <2> QED
    BY <2>1
<1>3. CASE x \in S
  <2>1. PICK k \in 1..n : q[k] = x
    BY <1>1, <1>3
  <2> DEFINE a == SubSeq(q, 1, k - 1)
             b == SubSeq(q, k + 1, n)
  <2>2. SelectInSeq(q, LAMBDA v : v = x) = k
    <3> DEFINE I == {i \in 1..Len(q) : q[i] = x}
    <3>1. I = {k}
      BY <1>1, <2>1
    <3>2. Min(I) = k
      BY <3>1 DEF Min
    <3> QED
      BY <3>1, <3>2 DEF SelectInSeq
  <2>3. p = a \o b
    BY <2>1, <2>2 DEF RemoveFirst, RemoveAt
  <2>4. /\ a \in Seq(S) /\ Len(a) = k - 1 /\ \A i \in 1..(k - 1) : a[i] = q[i]
    <3>1. 1 \in Int /\ k - 1 \in Int /\ \A i \in 1..(k - 1) : q[i] \in S
      BY <1>1
    <3> HIDE DEF n
    <3> QED
      BY <3>1, SubSeqProperties
  <2>5. /\ b \in Seq(S) /\ Len(b) = n - k /\ \A i \in 1..(n - k) : b[i] = q[k + i]
    <3>1. k + 1 \in Int /\ n \in Int /\ \A i \in (k + 1)..n : q[i] \in S
      BY <1>1
    <3> HIDE DEF n
    <3>2. /\ b \in Seq(S) /\ Len(b) = IF k + 1 <= n THEN n - (k + 1) + 1 ELSE 0
          /\ \A i \in 1..(n - (k + 1) + 1) : b[i] = q[k + 1 + i - 1]
      BY ONLY <3>1, SubSeqProperties
    <3> QED
      BY <1>1, <3>2
  <2> HIDE DEF a, b, n
  <2>6. /\ p \in Seq(S) /\ Len(p) = n - 1
        /\ \A i \in 1..(n - 1) : p[i] = q[IF i < k THEN i ELSE i + 1]
    <3>1. /\ a \o b \in Seq(S) /\ Len(a \o b) = Len(a) + Len(b)
          /\ \A i \in 1..(Len(a) + Len(b)) :
                (a \o b)[i] = IF i <= Len(a) THEN a[i] ELSE b[i - Len(a)]
      BY <2>4, <2>5, ConcatProperties
    <3>2. Len(a) + Len(b) = n - 1
      BY <1>1, <2>4, <2>5
    <3>3. ASSUME NEW i \in 1..(n - 1), i < k PROVE p[i] = q[i]
      <4>1. i \in 1..(k - 1) /\ i <= Len(a) /\ i \in 1..(Len(a) + Len(b))
        BY <1>1, <2>4, <3>2, <3>3
      <4> QED
        BY <2>3, <2>4, <3>1, <4>1
    <3>4. ASSUME NEW i \in 1..(n - 1), ~(i < k) PROVE p[i] = q[i + 1]
      <4>1. /\ i - (k - 1) \in 1..(n - k) /\ k + (i - (k - 1)) = i + 1 /\ ~(i <= Len(a))
            /\ i \in 1..(Len(a) + Len(b))
        BY <1>1, <2>4, <3>2, <3>4
      <4>2. b[i - (k - 1)] = q[i + 1]
        BY <2>5, <4>1
      <4> QED
        BY <2>3, <2>4, <3>1, <4>1, <4>2
    <3> QED
      BY <2>3, <3>1, <3>2, <3>3, <3>4
  <2> HIDE DEF p
  <2> DEFINE at(i) == IF i < k THEN i ELSE i + 1
  <2>7. /\ \A i \in 1..(n - 1) : at(i) \in 1..n /\ at(i) # k /\ p[i] = q[at(i)]
        /\ \A i, j \in 1..(n - 1) : at(i) = at(j) => i = j
        /\ \A j \in 1..n : j # k => \E i \in 1..(n - 1) : at(i) = j
    <3>1. \A i \in 1..(n - 1) : at(i) \in 1..n /\ at(i) # k /\ p[i] = q[at(i)]
      BY <1>1, <2>6
    <3>2. \A i, j \in 1..(n - 1) : at(i) = at(j) => i = j
      BY <1>1
    <3>3. ASSUME NEW j \in 1..n, j # k PROVE \E i \in 1..(n - 1) : at(i) = j
      <4>1. CASE j < k
        <5>1. j \in 1..(n - 1) /\ at(j) = j
          BY <1>1, <4>1
        <5> QED
          BY <5>1
      <4>2. CASE j > k
        <5>1. j - 1 \in 1..(n - 1) /\ at(j - 1) = j
          BY <1>1, <4>2
        <5> QED
          BY <5>1
      <4> QED
        BY <1>1, <3>3, <4>1, <4>2
    <3> QED
      BY <3>1, <3>2, <3>3
  <2>8. DOMAIN p = 1..(n - 1) /\ n - 1 \in Nat
    BY <1>1, <2>6, LenProperties
  <2>9. (1 # k => 1 \in 1..(n - 1) /\ p[1] = q[1]) /\ (q[1] # x => 1 # k)
    BY <1>1, <2>1, <2>6
  <2> HIDE DEF at
  <2>10. \A i \in 1..(n - 1) : p[i] \in T
    BY <1>1, <2>1, <2>7
  <2>11. p \in Seq(T)
    <3>1. p \in [1..(n - 1) -> T]
      BY <2>6, <2>8, <2>10, LenProperties
    <3> QED
      BY <2>8, <3>1, SeqDef
  <2>12. IsInjective(p)
    BY <1>1, <2>7, <2>8 DEF IsInjective
  <2>13. \A y \in T : \E i \in DOMAIN p : p[i] = y
    <3> SUFFICES ASSUME NEW y \in T PROVE \E i \in 1..(n - 1) : p[i] = y
      BY <2>8
    <3>1. PICK j \in 1..n : q[j] = y
      BY <1>1
    <3>2. j # k
      BY <2>1, <3>1
    <3> QED
      BY <2>7, <3>1, <3>2
  <2> QED
    BY <1>1, <2>6, <2>9, <2>11, <2>12, <2>13 DEF Lists, p, n
<1> QED
  BY <1>2, <1>3

\* Whoever stands in a queue stands at one place of it, and those behind move up
\* when it is taken out.
LEMMA QueueClosesUp ==
    ASSUME NEW S, NEW q, Lists(q, S), NEW x \in S
    PROVE  \E k \in 1..Len(q) :
              /\ q[k] = x
              /\ RemoveFirst(q, x) \in Seq(S)
              /\ Len(RemoveFirst(q, x)) = Len(q) - 1
              /\ \A i \in 1..(Len(q) - 1) : RemoveFirst(q, x)[i] = q[IF i < k THEN i ELSE i + 1]
<1> DEFINE n == Len(q)
           p == RemoveFirst(q, x)
<1>1. /\ q \in Seq(S) /\ n \in Nat /\ DOMAIN q = 1..n
      /\ \A i \in 1..n : q[i] \in S
      /\ \A i, j \in 1..n : q[i] = q[j] => i = j
      /\ \A y \in S : \E i \in 1..n : q[i] = y
  BY LenProperties, ElementOfSeq DEF Lists, IsInjective
<1>2. PICK k \in 1..n : q[k] = x
  BY <1>1
<1> DEFINE a == SubSeq(q, 1, k - 1)
           b == SubSeq(q, k + 1, n)
<1>3. SelectInSeq(q, LAMBDA v : v = x) = k
  <2> DEFINE I == {i \in 1..Len(q) : q[i] = x}
  <2>1. I = {k}
    BY <1>1, <1>2
  <2>2. Min(I) = k
    BY <2>1 DEF Min
  <2> QED
    BY <2>1, <2>2 DEF SelectInSeq
<1>4. p = a \o b
  BY <1>1, <1>2, <1>3 DEF RemoveFirst, RemoveAt
<1>5. /\ a \in Seq(S) /\ Len(a) = k - 1 /\ \A i \in 1..(k - 1) : a[i] = q[i]
  <2>1. 1 \in Int /\ k - 1 \in Int /\ \A i \in 1..(k - 1) : q[i] \in S
    BY <1>1
  <2> HIDE DEF n
  <2> QED
    BY <2>1, SubSeqProperties
<1>6. /\ b \in Seq(S) /\ Len(b) = n - k /\ \A i \in 1..(n - k) : b[i] = q[k + i]
  <2>1. k + 1 \in Int /\ n \in Int /\ \A i \in (k + 1)..n : q[i] \in S
    BY <1>1
  <2> HIDE DEF n
  <2>2. /\ b \in Seq(S) /\ Len(b) = IF k + 1 <= n THEN n - (k + 1) + 1 ELSE 0
        /\ \A i \in 1..(n - (k + 1) + 1) : b[i] = q[k + 1 + i - 1]
    BY ONLY <2>1, SubSeqProperties
  <2> QED
    BY <1>1, <2>2
<1> HIDE DEF a, b, n, p
<1>7. /\ a \o b \in Seq(S) /\ Len(a \o b) = Len(a) + Len(b)
      /\ \A i \in 1..(Len(a) + Len(b)) :
            (a \o b)[i] = IF i <= Len(a) THEN a[i] ELSE b[i - Len(a)]
  BY <1>5, <1>6, ConcatProperties
<1>8. Len(a) + Len(b) = n - 1
  BY <1>1, <1>5, <1>6
<1>9. ASSUME NEW i \in 1..(n - 1), i < k PROVE p[i] = q[i]
  <2>1. i \in 1..(k - 1) /\ i <= Len(a) /\ i \in 1..(Len(a) + Len(b))
    BY <1>1, <1>5, <1>8, <1>9
  <2> QED
    BY <1>4, <1>5, <1>7, <2>1
<1>10. ASSUME NEW i \in 1..(n - 1), ~(i < k) PROVE p[i] = q[i + 1]
  <2>1. /\ i - (k - 1) \in 1..(n - k) /\ k + (i - (k - 1)) = i + 1 /\ ~(i <= Len(a))
        /\ i \in 1..(Len(a) + Len(b))
    BY <1>1, <1>5, <1>8, <1>10
  <2>2. b[i - (k - 1)] = q[i + 1]
    BY <1>6, <2>1
  <2> QED
    BY <1>4, <1>5, <1>7, <2>1, <2>2
<1> QED
  BY <1>2, <1>4, <1>7, <1>8, <1>9, <1>10 DEF n, p

\* Whoever stands in q behind the last x stands in m one place further from the
\* end.
MoveUp(q, x, m) ==
    \A j \in 1..Len(q) :
       (\A i \in j..Len(q) : q[i] # x) =>
          /\ Len(m) - 1 - (Len(q) - j) \in 1..Len(m)
          /\ m[Len(m) - 1 - (Len(q) - j)] = q[j]

\* Who is moved to the end of a queue, or joins it there, is last, and whoever
\* stood behind all the while is one place further from the end.
LEMMA QueueMoveToEnd ==
    ASSUME NEW S, NEW q, Lists(q, S), NEW x, NEW m, m = Append(RemoveFirst(q, x), x)
    PROVE  /\ Lists(m, S \cup {x})
           /\ Len(m) \in {Len(q), Len(q) + 1} \ {0}
           /\ m[Len(m)] = x
           /\ MoveUp(q, x, m)
<1> DEFINE n == Len(q)
           p == RemoveFirst(q, x)
<1>1. q \in Seq(S) /\ n \in Nat /\ \A y \in S : \E i \in 1..n : q[i] = y
  BY LenProperties DEF Lists
<1>2. Lists(p, S \ {x}) /\ p \in Seq(S \ {x}) /\ Len(p) \in Nat
  <2>1. Lists(p, S \ {x})
    BY QueueWithout
  <2> QED BY <2>1, LenProperties DEF Lists
<1>3. /\ Lists(m, S \cup {x})
      /\ Len(m) = Len(p) + 1 /\ m[Len(m)] = x
      /\ \A i \in 1..Len(p) : m[i] = p[i]
  <2>1. x \notin S \ {x} /\ (S \ {x}) \cup {x} = S \cup {x}
    OBVIOUS
  <2>2. Lists(m, (S \ {x}) \cup {x})
    BY <1>2, <2>1, QueueAppend
  <2>3. p \in Seq(S \cup {x})
    BY <1>2
  <2>4. /\ Len(m) = Len(p) + 1 /\ m[Len(p) + 1] = x
        /\ \A i \in 1..Len(p) : m[i] = p[i]
    <3> HIDE DEF p
    <3> QED BY <2>3, AppendProperties DEF p
  <2> QED BY <2>1, <2>2, <2>4
<1>4. CASE x \notin S
  <2>1. p = q
    <3>1. \A i \in 1..n : q[i] # x
      BY <1>1, <1>4, ElementOfSeq
    <3> QED BY <3>1 DEF RemoveFirst
  <2>2. \A j \in 1..n : Len(m) - 1 - (n - j) = j /\ j \in 1..Len(m)
    BY <1>1, <1>3, <2>1
  <2>3. Len(m) \in {n, n + 1} \ {0}
    BY <1>1, <1>3, <2>1
  <2> QED BY <1>3, <2>1, <2>2, <2>3 DEF MoveUp
<1>5. CASE x \in S
  <2>1. PICK k \in 1..n : /\ q[k] = x
                          /\ Len(p) = n - 1
                          /\ \A i \in 1..(n - 1) : p[i] = q[IF i < k THEN i ELSE i + 1]
    <3>1. \E k \in 1..Len(q) :
             /\ q[k] = x
             /\ RemoveFirst(q, x) \in Seq(S)
             /\ Len(RemoveFirst(q, x)) = Len(q) - 1
             /\ \A i \in 1..(Len(q) - 1) :
                   RemoveFirst(q, x)[i] = q[IF i < k THEN i ELSE i + 1]
      BY ONLY Lists(q, S), <1>5, QueueClosesUp, SMTT(30)
    <3> QED BY <3>1
  <2> HIDE DEF n, p
  <2>2. ASSUME NEW j \in 1..n, \A i \in j..n : q[i] # x
        PROVE  Len(m) - 1 - (n - j) \in 1..Len(m) /\ m[Len(m) - 1 - (n - j)] = q[j]
    <3>1. ~(k \in j..n) /\ k < j
      BY <1>1, <2>1, <2>2 
    <3>2. /\ Len(m) - 1 - (n - j) = j - 1 /\ j - 1 \in 1..(n - 1) /\ ~(j - 1 < k)
          /\ (j - 1) + 1 = j /\ j - 1 \in 1..Len(m) /\ j - 1 \in 1..Len(p)
      BY <1>1, <1>3, <2>1, <3>1
    <3> QED BY <1>3, <2>1, <3>2
  <2>3. Len(m) \in {n, n + 1} \ {0}
    BY <1>1, <1>3, <2>1
  <2> QED BY <1>3, <2>2, <2>3 DEF n, MoveUp
<1> QED BY <1>4, <1>5

\* Those who stand in a queue are the elements of its sequence.
LEMMA QueueSet ==
    ASSUME NEW S, NEW q, Lists(q, S)
    PROVE  ToSet(q) = S
<1>1. DOMAIN q = 1..Len(q) /\ \A i \in 1..Len(q) : q[i] \in S
  BY LenProperties, ElementOfSeq DEF Lists
<1> QED
  BY <1>1 DEF Lists, ToSet

\* The queue of a lock that is free.
LEMMA QueueOfNobody == Lists(<<>>, {})
<1>1. DOMAIN <<>> = {}
  OBVIOUS
<1> QED
  BY <1>1, EmptySeq DEF Lists, IsInjective

\* What is appended to a queue of one comes second.
LEMMA SecondCall ==
    ASSUME NEW S, NEW s \in Seq(S), NEW e \in S, Len(s) = 1, NEW app, app = Append(s, e)
    PROVE  app \in Seq(S) /\ Len(app) = 2 /\ app[1] = s[1] /\ app[2] = e
<1>1. /\ app \in Seq(S) /\ Len(app) = Len(s) + 1
      /\ \A i \in 1..Len(s) : app[i] = s[i]
      /\ app[Len(s) + 1] = e
  BY AppendProperties
<1>2. Len(s) + 1 = 2 /\ 1 \in 1..Len(s)
  OBVIOUS
<1> QED
  BY ONLY <1>1, <1>2

\* A queue of one and another make a queue of two.
LEMMA QueueOfTwo ==
    ASSUME NEW a, NEW b, NEW app, app = Append(<<a>>, b)
    PROVE  app = <<a, b>>
<1> DEFINE one == <<a>>
<1>1. one \in Seq({a, b}) /\ b \in {a, b} /\ Len(one) = 1 /\ one[1] = a
  OBVIOUS
<1>2. app = Append(one, b)
  OBVIOUS
<1> HIDE DEF one
<1>3. app \in Seq({a, b}) /\ Len(app) = 2 /\ app[1] = a /\ app[2] = b
  BY ONLY <1>1, <1>2, SecondCall
<1> QED
  BY ONLY <1>3, SeqEqual

\* What is appended comes last, and the rest stays.
LEMMA LastOfAppend ==
    ASSUME NEW S, NEW s \in Seq(S), NEW e \in S, NEW app, app = Append(s, e)
    PROVE  /\ app \in Seq(S) /\ Len(s) \in Nat /\ Len(app) = Len(s) + 1
           /\ DOMAIN s = 1..Len(s) /\ DOMAIN app = 1..(Len(s) + 1)
           /\ DOMAIN app = DOMAIN s \cup {Len(s) + 1}
           /\ \A i \in DOMAIN s : app[i] = s[i]
           /\ app[Len(s) + 1] = e
<1>1. /\ app \in Seq(S) /\ Len(app) = Len(s) + 1
      /\ \A i \in 1..Len(s) : app[i] = s[i]
      /\ app[Len(s) + 1] = e
  BY AppendProperties
<1>2. Len(s) \in Nat /\ DOMAIN s = 1..Len(s)
  BY LenProperties
<1>3. DOMAIN app = 1..(Len(s) + 1)
  BY ONLY <1>1, <1>2, LenProperties
<1>4. 1..(Len(s) + 1) = 1..Len(s) \cup {Len(s) + 1}
  BY <1>2
<1> QED
  BY ONLY <1>1, <1>2, <1>3, <1>4

-----------------------------------------------------------------------------
(* Numbers in order, sequences, slots.                                    *)

\* Induction: a set that holds 0 and the successor of each number in it holds
\* every number.
LEMMA NatInduct ==
    ASSUME NEW P, 0 \in P, \A n \in Nat : n \in P => n + 1 \in P
    PROVE  Nat \subseteq P
<1> SUFFICES ASSUME NEW m \in Nat, m \notin P PROVE FALSE
  OBVIOUS
<1> DEFINE T == {n \in Nat : n \notin P}
           R == {p \in Nat \X Nat : p[1] < p[2]}
<1>1. IsWellFoundedOn(R, Nat)
  BY NatLessThanWellFounded DEF OpToRel
<1>2. \A x, y \in Nat : x < y => <<x, y>> \in R
  OBVIOUS
<1>3. T \subseteq Nat /\ T # {}
  OBVIOUS
<1> HIDE DEF R
<1>4. PICK x \in T : \A y \in T : <<y, x>> \notin R
  <2> HIDE DEF T
  <2> QED BY <1>1, <1>3, WFMin
<1>5. x # 0 /\ x - 1 \in Nat /\ x - 1 < x /\ x \notin P /\ x \in Nat
  BY <1>4
<1>6. x - 1 \notin T
  BY <1>2, <1>4, <1>5
<1> QED
  BY <1>5, <1>6

\* How many of S are below d: the place of d in order, from 0.
Rank(S, d) == Cardinality({e \in S : e < d})

\* The ranks of a finite set of numbers are its places, each taken once, in
\* order.
LEMMA RankFacts ==
    ASSUME NEW S \in SUBSET Nat, IsFiniteSet(S)
    PROVE  /\ Cardinality(S) \in Nat
           /\ \A d \in S : Rank(S, d) \in 0..(Cardinality(S) - 1)
           /\ \A d, e \in S : d < e => Rank(S, d) < Rank(S, e)
           /\ \A r \in 0..(Cardinality(S) - 1) : \E d \in S : Rank(S, d) = r
<1> DEFINE n == Cardinality(S)
           Below(d) == {e \in S : e < d}
           rank == [d \in S |-> Rank(S, d)]
<1>1. n \in Nat
  BY FS_CardinalityType
<1>2. ASSUME NEW d \in S PROVE Rank(S, d) \in 0..(n - 1)
  <2>1. Below(d) \in SUBSET S /\ Below(d) # S
    OBVIOUS
  <2> HIDE DEF Below
  <2>2. IsFiniteSet(Below(d)) /\ Cardinality(Below(d)) <= n /\ Cardinality(Below(d)) # n
    BY <2>1, FS_Subset
  <2>3. Cardinality(Below(d)) \in Nat
    BY <2>2, FS_CardinalityType
  <2>4. Cardinality(Below(d)) \in 0..(n - 1)
    <3> HIDE DEF n
    <3> QED BY <1>1, <2>2, <2>3
  <2> QED BY <2>4 DEF Rank, Below
<1>3. ASSUME NEW d \in S, NEW e \in S, d < e PROVE Rank(S, d) < Rank(S, e)
  <2>0. \A x, y, z \in Nat : x < y /\ y < z => x < z
    OBVIOUS
  <2>1. Below(d) \in SUBSET Below(e) /\ Below(e) \in SUBSET S /\ d \in Below(e) /\ d \notin Below(d)
    <3>1. S \subseteq Nat /\ ~(d < d)
      OBVIOUS
    <3> QED BY <1>3, <2>0, <3>1
  <2> HIDE DEF Below
  <2>2. IsFiniteSet(Below(e))
    BY <2>1, FS_Subset
  <2>3. Cardinality(Below(d)) <= Cardinality(Below(e)) /\ Cardinality(Below(d)) # Cardinality(Below(e))
    BY <2>1, <2>2, FS_Subset
  <2>4. Cardinality(Below(d)) \in Nat /\ Cardinality(Below(e)) \in Nat
    BY <1>2 DEF Rank, Below
  <2> QED BY <2>3, <2>4 DEF Rank, Below
<1>4. rank \in Surjection(S, 0..(n - 1))
  <2> HIDE DEF n
  <2>1. rank \in [S -> 0..(n - 1)]
    BY <1>2
  <2>2. ASSUME NEW d \in S, NEW e \in S, rank[d] = rank[e] PROVE d = e
    <3>1. rank[d] \in Nat /\ Rank(S, d) = Rank(S, e)
      BY <1>1, <1>2, <2>2
    <3>2. ~(d < e) /\ ~(e < d)
      BY <1>2, <1>3, <3>1
    <3> QED BY <3>2
  <2>3. rank \in Injection(S, 0..(n - 1))
    <3> HIDE DEF rank
    <3> QED BY <2>1, <2>2 DEF Injection, IsInjective
  <2>4. IsFiniteSet(0..(n - 1)) /\ Cardinality(0..(n - 1)) = n
    <3>1. IsFiniteSet(0..(n - 1)) /\ Cardinality(0..(n - 1)) = IF 0 > n - 1 THEN 0 ELSE (n - 1) - 0 + 1
      BY <1>1, FS_Interval
    <3> QED BY <1>1, <3>1
  <2> HIDE DEF rank
  <2> QED BY <2>3, <2>4, FS_Injection DEF n
<1>5. \A r \in 0..(n - 1) : \E d \in S : rank[d] = r
  BY <1>4 DEF Surjection
<1> QED BY <1>1, <1>2, <1>3, <1>5

\* sorted(S), as DetSeq chooses it.
InOrder(S) ==
    CHOOSE q \in [1..Cardinality(S) -> S] : \A i, j \in DOMAIN q : i < j => q[i] < q[j]

\* A finite set of numbers can be put in order, and each element is then at the
\* place its rank says.
LEMMA OrderFacts ==
    ASSUME NEW S \in SUBSET Nat, IsFiniteSet(S)
    PROVE  /\ InOrder(S) \in [1..Cardinality(S) -> S]
           /\ \A i \in 1..Cardinality(S) : Rank(S, InOrder(S)[i]) = i - 1
           /\ \A d \in S : d = InOrder(S)[Rank(S, d) + 1]
<1> DEFINE n == Cardinality(S)
           Increasing(f) == \A i, j \in DOMAIN f : i < j => f[i] < f[j]
           q == InOrder(S)
<1>1. /\ n \in Nat
      /\ \A d \in S : Rank(S, d) \in 0..(n - 1)
      /\ \A d, e \in S : d < e => Rank(S, d) < Rank(S, e)
      /\ \A r \in 0..(n - 1) : \E d \in S : Rank(S, d) = r
  BY RankFacts
<1>2. ASSUME NEW d \in S, NEW e \in S, Rank(S, d) = Rank(S, e) PROVE d = e
  <2>1. Rank(S, d) \in Nat /\ ~(Rank(S, d) < Rank(S, d))
    BY <1>1
  <2>2. ~(d < e) /\ ~(e < d)
    <3>1. ~(Rank(S, d) < Rank(S, e)) /\ ~(Rank(S, e) < Rank(S, d))
      BY <1>2, <2>1
    <3> QED BY ONLY <1>1, <3>1, d \in S, e \in S
  <2> QED BY <2>2
<1>3. \E f \in [1..n -> S] : Increasing(f)
  <2> DEFINE At(i) == CHOOSE d \in S : Rank(S, d) = i - 1
             f == [i \in 1..n |-> At(i)]
  <2>1. ASSUME NEW i \in 1..n PROVE At(i) \in S /\ Rank(S, At(i)) = i - 1
    <3>1. i - 1 \in 0..(n - 1)
      BY <1>1
    <3> QED BY <1>1, <3>1
  <2> HIDE DEF At, n
  <2>2. ASSUME NEW i \in 1..n, NEW j \in 1..n, i < j PROVE At(i) < At(j)
    <3>1. /\ At(i) \in S /\ At(j) \in S
          /\ Rank(S, At(i)) = i - 1 /\ Rank(S, At(j)) = j - 1
      BY <2>1
    <3>2. At(i) # At(j)
      BY <2>2, <3>1
    <3>3. ~(At(j) < At(i))
      <4>1. ~(j - 1 < i - 1)
        BY <1>1, <2>2
      <4>2. ~(Rank(S, At(j)) < Rank(S, At(i)))
        BY <3>1, <4>1
      <4>3. \A d, e \in S : d < e => Rank(S, d) < Rank(S, e)
        BY <1>1
      <4> HIDE DEF Rank
      <4> QED BY ONLY <3>1, <4>2, <4>3
    <3>4. At(i) \in Nat /\ At(j) \in Nat
      BY <3>1
    <3> QED BY <3>2, <3>3, <3>4
  <2>3. f \in [1..n -> S] /\ Increasing(f)
    BY <2>1, <2>2
  <2> QED BY <2>3
<1>4. q \in [1..n -> S] /\ \A i, j \in 1..n : i < j => q[i] < q[j]
  BY <1>3 DEF InOrder
<1> HIDE DEF n, q
<1>5. ASSUME NEW i \in 1..n PROVE Rank(S, q[i]) = i - 1
  <2> DEFINE seen == {q[j] : j \in 1..(i - 1)}
             back == [j \in 1..(i - 1) |-> q[j]]
             Below == {e \in S : e < q[i]}
  <2>1. i \in Nat /\ i - 1 \in Nat /\ \A j \in 1..(i - 1) : j \in 1..n /\ j < i
    BY <1>1
  <2>2. \A j, k \in 1..n : q[j] = q[k] => j = k
    <3> SUFFICES ASSUME NEW j \in 1..n, NEW k \in 1..n, q[j] = q[k] PROVE j = k
      OBVIOUS
    <3>1. q[j] \in Nat /\ ~(q[j] < q[j])
      <4>1. q[j] \in S /\ \A x \in Nat : ~(x < x)
        BY <1>4
      <4> QED BY <4>1
    <3>2. ~(j < k) /\ ~(k < j)
      BY <1>4, <3>1
    <3>3. j \in Nat /\ k \in Nat
      BY <1>1
    <3> QED BY <3>2, <3>3
  <2>3. Below = seen
    <3>1. \A j \in 1..(i - 1) : q[j] \in Below
      BY <1>4, <2>1
    <3>2. ASSUME NEW e \in Below PROVE e \in seen
      <4>1. q \in Surjection(1..n, S)
        <5>1. q \in Injection(1..n, S)
          BY <1>4, <2>2 DEF Injection, IsInjective
        <5>2. IsFiniteSet(1..n) /\ Cardinality(1..n) = IF 1 > n THEN 0 ELSE n - 1 + 1
          BY <1>1, FS_Interval
        <5>3. Cardinality(1..n) = Cardinality(S)
          BY <1>1, <5>2 DEF n
        <5> QED BY <5>1, <5>3, FS_Injection
      <4>2. PICK j \in 1..n : q[j] = e
        BY <4>1 DEF Surjection
      <4>3. q[j] \in Nat /\ q[i] \in Nat /\ q[j] < q[i]
        BY <1>4, <4>2
      <4>4. j # i /\ ~(i < j)
        <5>1. ~(q[i] < q[j]) /\ q[i] # q[j]
          BY <4>3
        <5> QED BY <1>4, <5>1
      <4>5. j \in 1..(i - 1)
        BY <1>1, <4>4
      <4> QED BY <4>2, <4>5
    <3> QED BY <3>1, <3>2
  <2>4. back \in Bijection(1..(i - 1), seen)
    <3>1. back \in [1..(i - 1) -> seen] /\ \A s \in seen : \E j \in 1..(i - 1) : back[j] = s
      OBVIOUS
    <3>2. \A j, k \in 1..(i - 1) : back[j] = back[k] => j = k
      BY <2>1, <2>2
    <3> HIDE DEF back, seen
    <3> QED BY <3>1, <3>2 DEF Bijection, Injection, Surjection, IsInjective
  <2>5. IsFiniteSet(1..(i - 1)) /\ Cardinality(1..(i - 1)) = i - 1
    <3>1. /\ IsFiniteSet(1..(i - 1))
          /\ Cardinality(1..(i - 1)) = IF 1 > i - 1 THEN 0 ELSE (i - 1) - 1 + 1
      BY <2>1, FS_Interval
    <3> QED BY <2>1, <3>1
  <2> HIDE DEF seen, back
  <2>6. Cardinality(seen) = i - 1
    BY <2>4, <2>5, FS_Bijection DEF ExistsBijection
  <2> QED BY <2>3, <2>6 DEF Rank
<1>6. ASSUME NEW d \in S PROVE d = q[Rank(S, d) + 1]
  <2>1. Rank(S, d) + 1 \in 1..n /\ (Rank(S, d) + 1) - 1 = Rank(S, d)
    BY <1>1
  <2>2. Rank(S, q[Rank(S, d) + 1]) = Rank(S, d) /\ q[Rank(S, d) + 1] \in S
    BY <1>4, <1>5, <2>1
  <2> QED BY <1>2, <2>2
<1> QED BY <1>4, <1>5, <1>6 DEF n, q

\* A finite set of numbers, not empty, has a largest.
LEMMA MaxFacts ==
    ASSUME NEW S \in SUBSET Nat, IsFiniteSet(S), S # {}
    PROVE  Max(S) \in S /\ \A y \in S : Max(S) >= y
<1>1. \E x \in S : \A y \in S : x >= y
  <2> DEFINE n == Cardinality(S)
  <2>1. n \in Nat /\ n # 0
    BY FS_CardinalityType, FS_EmptySet
  <2>2. PICK x \in S : Rank(S, x) = n - 1
    BY <2>1, RankFacts
  <2>3. ASSUME NEW y \in S PROVE x >= y
    <3>1. Rank(S, y) \in 0..(n - 1) /\ (x < y => Rank(S, x) < Rank(S, y))
      BY RankFacts
    <3>2. ~(x < y)
      BY <2>1, <2>2, <3>1
    <3> QED BY <3>2
  <2> QED BY <2>3
<1> QED BY <1>1 DEF Max

\* A sequence, of whatever elements.
IsSeq(s) == Len(s) \in Nat /\ s = [i \in 1..Len(s) |-> s[i]]

\* A sequence is one over the set of its elements.
LEMMA SequenceOfAny ==
    ASSUME NEW s, IsSeq(s)
    PROVE  s \in Seq({s[i] : i \in 1..Len(s)}) /\ DOMAIN s = 1..Len(s)
<1>1. s \in [1..Len(s) -> {s[i] : i \in 1..Len(s)}] /\ Len(s) \in Nat
  BY DEF IsSeq
<1> QED BY <1>1, SeqDef

\* A function on 1..n is a sequence of length n.
LEMMA FunctionIsSeq ==
    ASSUME NEW s, NEW n \in Nat, s = [i \in 1..n |-> s[i]]
    PROVE  IsSeq(s) /\ Len(s) = n
<1>1. s \in [1..n -> {s[i] : i \in 1..n}]
  OBVIOUS
<1>2. s \in Seq({s[i] : i \in 1..n})
  BY <1>1, SeqDef
<1>3. DOMAIN s = 1..n /\ DOMAIN s = 1..Len(s) /\ Len(s) \in Nat
  BY <1>1, <1>2, LenProperties
<1>4. Len(s) = n
  BY <1>3
<1> QED BY <1>4 DEF IsSeq

\* Slots of one size, one after the other.
LEMMA SlotEnds ==
    ASSUME NEW a \in Nat, NEW r \in Nat, NEW m \in Nat, r < m
    PROVE  a * r \in Nat /\ a * m \in Nat /\ a * r + a <= a * m
<1> DEFINE k == m - (r + 1)
<1>1. k \in Nat /\ m = r + 1 + k
  OBVIOUS
<1>2. a * m = a * r + a + a * k
  <2>1. \A x, y, z \in Nat : x * (y + 1 + z) = x * y + x + x * z
    OBVIOUS
  <2> HIDE DEF k
  <2> QED BY <1>1, <2>1
<1>3. a * k \in Nat /\ a * r \in Nat /\ a * m \in Nat
  <2>1. \A x, y \in Nat : x * y \in Nat
    OBVIOUS
  <2> HIDE DEF k
  <2> QED BY <1>1, <2>1
<1> HIDE DEF k
<1>4. \A x, y, z, w \in Nat : w = x + y + z => x + y <= w
  OBVIOUS
<1> QED BY <1>2, <1>3, <1>4

\* Slots of one size leave no gap.
LEMMA SlotsCover ==
    ASSUME NEW a \in Nat
    PROVE  \A m \in Nat : \A r \in 1..(a * m) : \E i \in 1..m : \E k \in 1..a : r = a * (i - 1) + k
<1> DEFINE P == {m \in Nat : \A r \in 1..(a * m) : \E i \in 1..m : \E k \in 1..a : r = a * (i - 1) + k}
<1>1. 0 \in P
  <2>1. a * 0 = 0
    OBVIOUS
  <2> QED BY <2>1
<1>2. ASSUME NEW m \in Nat, m \in P PROVE m + 1 \in P
  <2> SUFFICES ASSUME NEW r \in 1..(a * (m + 1))
               PROVE  \E i \in 1..(m + 1) : \E k \in 1..a : r = a * (i - 1) + k
    OBVIOUS
  <2>1. a * (m + 1) = a * m + a /\ a * m \in Nat
    <3>1. \A x, y \in Nat : x * (y + 1) = x * y + x /\ x * y \in Nat
      OBVIOUS
    <3> QED BY <3>1
  <2>2. CASE r <= a * m
    <3>1. r \in 1..(a * m)
      BY <2>1, <2>2
    <3>2. PICK i \in 1..m : \E k \in 1..a : r = a * (i - 1) + k
      BY <1>2, <3>1
    <3>3. i \in 1..(m + 1)
      OBVIOUS
    <3> QED BY <3>2, <3>3
  <2>3. CASE ~(r <= a * m)
    <3> DEFINE x == a * m
    <3>1. r - x \in 1..a /\ r = x + (r - x)
      <4> HIDE DEF x
      <4>1. x \in Nat /\ r \in 1..(x + a) /\ ~(r <= x)
        BY <2>1, <2>3 DEF x
      <4> QED BY <4>1
    <3>2. (m + 1) - 1 = m /\ m + 1 \in 1..(m + 1)
      OBVIOUS
    <3>3. r = a * ((m + 1) - 1) + (r - x)
      BY <3>1, <3>2
    <3> HIDE DEF x
    <3> QED BY <3>1, <3>2, <3>3
  <2> QED BY <2>2, <2>3
<1> HIDE DEF P
<1>3. Nat \subseteq P
  BY <1>1, <1>2, NatInduct
<1> QED BY <1>3 DEF P

\* Of a set of one member, any two are the same.
LEMMA OnlyOne ==
    ASSUME NEW S, IsFiniteSet(S), Cardinality(S) = 1, NEW x \in S, NEW y \in S
    PROVE  x = y
<1>1. PICK z : S = {z}
  BY FS_Singleton
<1> QED BY <1>1
=============================================================================
