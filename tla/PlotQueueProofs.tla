--------------------------- MODULE PlotQueueProofs ---------------------------
(***************************************************************************)
(* Proofs about PlotQueue, for every finite set of plot flights, every set   *)
(* of jobs and all limits: a job has one place, no wakeup is lost, no error  *)
(* or retry count outlives its job's waiting, and no job is dropped.         *)
(***************************************************************************)
EXTENDS PlotQueue, DataLemmas, FiniteSetTheorems, TLAPS

States == {"top", "wait", "drawing", "sleep", "ended"}

\* The part of TypeOK the argument needs: the errors and the retry counts have
\* no say in where a job is.
PlacesTyped ==
    /\ stack \in Seq(Jobs)
    /\ queued \in SUBSET Jobs
    /\ drawing \in [Flights -> Jobs \cup {None}]
    /\ pc \in [Flights -> States]
    /\ \A f \in Flights : drawing[f] = None <=> pc[f] \in {"top", "wait", "ended"}

\* The inductive invariant: the same jobs in the stack and in the set is what
\* makes an empty look at the stack an empty queue, hence a safe wait.
QueueInv == PlacesTyped /\ OnePlace /\ WorkIsAttended

-----------------------------------------------------------------------------
(* The stack.                                                              *)

\* A new job on the stack is one element more, and still each job once.
LEMMA PushFacts ==
    ASSUME NEW s \in Seq(Jobs), IsInjective(s), NEW j \in Jobs, j \notin ToSet(s)
    PROVE  /\ Append(s, j) \in Seq(Jobs)
           /\ IsInjective(Append(s, j))
           /\ ToSet(Append(s, j)) = ToSet(s) \cup {j}
<1> DEFINE t == Append(s, j)
           n == Len(s)
<1>1. /\ n \in Nat /\ DOMAIN s = 1..n
      /\ t \in Seq(Jobs) /\ DOMAIN t = 1..(n + 1)
      /\ \A i \in 1..n : t[i] = s[i]
      /\ t[n + 1] = j
  BY AppendProperties, LenProperties
<1> HIDE DEF t, n
<1>2. \A i \in 1..(n + 1) : i = n + 1 \/ i \in 1..n
  BY <1>1
<1>3. \A i \in 1..n : s[i] # j
  BY <1>1 DEF ToSet
<1>4. IsInjective(t)
  BY <1>1, <1>2, <1>3 DEF IsInjective
<1>5. ToSet(t) = ToSet(s) \cup {j}
  <2>1. \A x : x \in ToSet(t) => x \in ToSet(s) \cup {j}
    BY <1>1, <1>2 DEF ToSet
  <2>2. \A x : x \in ToSet(s) => x \in ToSet(t)
    <3>1. \A i \in 1..n : i \in 1..(n + 1)
      BY <1>1
    <3> QED
      BY <1>1, <3>1 DEF ToSet
  <2>3. j \in ToSet(t)
    <3>1. n + 1 \in 1..(n + 1)
      BY <1>1
    <3> QED
      BY <1>1, <3>1 DEF ToSet
  <2> QED
    BY <2>1, <2>2, <2>3
<1> QED
  BY <1>1, <1>4, <1>5 DEF t

\* Taking the newest job off the stack leaves the others.
LEMMA PopFacts ==
    ASSUME NEW s \in Seq(Jobs), IsInjective(s), s # <<>>
    PROVE  LET n == Len(s)
               t == SubSeq(s, 1, n - 1)
           IN  /\ s[n] \in ToSet(s)
               /\ s[n] \in Jobs
               /\ t \in Seq(Jobs)
               /\ IsInjective(t)
               /\ ToSet(t) = ToSet(s) \ {s[n]}
<1> DEFINE n == Len(s)
           t == SubSeq(s, 1, n - 1)
<1>1. n \in Nat \ {0} /\ DOMAIN s = 1..n
  BY LenProperties, EmptySeq
<1>2. \A i \in 1..(n - 1) : s[i] \in Jobs
  BY <1>1, ElementOfSeq
<1>3. /\ t \in Seq(Jobs)
      /\ Len(t) = n - 1
      /\ \A i \in 1..(n - 1) : t[i] = s[i]
  <2>1. /\ t \in Seq(Jobs)
        /\ Len(t) = IF 1 <= n - 1 THEN n - 1 - 1 + 1 ELSE 0
        /\ \A i \in 1..(n - 1 - 1 + 1) : t[i] = s[1 + i - 1]
    <3> HIDE DEF n
    <3>1. 1 \in Int /\ n - 1 \in Int
      BY <1>1
    <3> QED
      BY <3>1, <1>2, SubSeqProperties
  <2> HIDE DEF t, n
  <2> QED
    BY <2>1, <1>1
<1>4. DOMAIN t = 1..(n - 1)
  BY <1>3, LenProperties
<1>5. s[n] \in Jobs
  BY <1>1, ElementOfSeq
<1> HIDE DEF t, n
<1>6. n \in 1..n /\ \A i \in 1..n : i = n \/ i \in 1..(n - 1)
  BY <1>1
<1>7. \A i \in 1..(n - 1) : i \in 1..n /\ i # n
  BY <1>1
<1>8. IsInjective(t)
  BY <1>1, <1>3, <1>4, <1>7 DEF IsInjective
<1>9. ToSet(t) = ToSet(s) \ {s[n]}
  <2>1. \A x : x \in ToSet(t) => x \in ToSet(s) /\ x # s[n]
    BY <1>1, <1>3, <1>4, <1>6, <1>7 DEF ToSet, IsInjective
  <2>2. \A x : x \in ToSet(s) /\ x # s[n] => x \in ToSet(t)
    BY <1>1, <1>3, <1>4, <1>6 DEF ToSet
  <2> QED
    BY <2>1, <2>2
<1> QED
  BY <1>1, <1>3, <1>5, <1>6, <1>8, <1>9 DEF ToSet, t, n

\* Putting a set of other jobs back, in any order, keeps each job once.
LEMMA PutBackFacts ==
    ASSUME NEW s \in Seq(Jobs), IsInjective(s),
           NEW S \in SUBSET Jobs, IsFiniteSet(S), S \cap ToSet(s) = {},
           NEW back \in SetToSeqs(S)
    PROVE  /\ s \o back \in Seq(Jobs)
           /\ IsInjective(s \o back)
           /\ ToSet(s \o back) = ToSet(s) \cup S
<1> DEFINE n == Len(s)
           m == Cardinality(S)
           t == s \o back
<1>1. m \in Nat
  BY FS_CardinalityType
<1>2. back \in [1..m -> S] /\ \A i, j \in 1..m : i # j => back[i] # back[j]
  BY DEF SetToSeqs
<1>3. ToSet(back) = S
  <2>1. IsFiniteSet(1..m) /\ Cardinality(1..m) = m
    BY <1>1, FS_Interval
  <2>2. back \in Injection(1..m, S)
    BY <1>2 DEF Injection, IsInjective
  <2>3. back \in Surjection(1..m, S)
    BY <2>1, <2>2, FS_Injection
  <2> QED
    BY <2>3, <1>2 DEF Surjection, ToSet
<1>4. back \in Seq(Jobs) /\ Len(back) = m
  <2>1. back \in [1..m -> Jobs]
    BY <1>2
  <2>2. back \in Seq(Jobs)
    BY <1>1, <2>1, SeqDef
  <2>3. DOMAIN back = 1..m /\ DOMAIN back = 1..Len(back) /\ Len(back) \in Nat
    BY <2>1, <2>2, LenProperties
  <2> QED
    BY <1>1, <2>2, <2>3
<1>5. /\ n \in Nat /\ DOMAIN s = 1..n
      /\ t \in Seq(Jobs) /\ DOMAIN t = 1..(n + m)
      /\ \A i \in 1..(n + m) : t[i] = IF i <= n THEN s[i] ELSE back[i - n]
  <2>1. /\ t \in Seq(Jobs)
        /\ Len(t) = n + m
        /\ \A i \in 1..(n + m) : t[i] = IF i <= n THEN s[i] ELSE back[i - n]
    BY <1>4, ConcatProperties
  <2> QED
    BY <2>1, LenProperties
<1> HIDE DEF t, n, m
<1>6. \A i \in 1..(n + m) : i \in 1..n \/ (i - n \in 1..m /\ ~(i <= n))
  BY <1>1, <1>5
<1>7. /\ \A i \in 1..n : i \in 1..(n + m) /\ t[i] = s[i]
      /\ \A i \in 1..m : n + i \in 1..(n + m) /\ t[n + i] = back[i]
  <2>1. \A i \in 1..n : i \in 1..(n + m) /\ i <= n
    BY <1>1, <1>5
  <2>2. \A i \in 1..m : n + i \in 1..(n + m) /\ ~(n + i <= n) /\ (n + i) - n = i
    BY <1>1, <1>5
  <2> QED
    BY <1>5, <2>1, <2>2
<1>8. \A i \in 1..n, k \in 1..m : s[i] # back[k]
  BY <1>2, <1>5 DEF ToSet
<1>9. IsInjective(t)
  <2> SUFFICES ASSUME NEW a \in 1..(n + m), NEW b \in 1..(n + m), t[a] = t[b]
               PROVE  a = b
    BY <1>5 DEF IsInjective
  <2>1. CASE a \in 1..n /\ b \in 1..n
    BY <2>1, <1>5, <1>7 DEF IsInjective
  <2>2. CASE a - n \in 1..m /\ b - n \in 1..m /\ ~(a <= n) /\ ~(b <= n)
    <3>1. t[a] = back[a - n] /\ t[b] = back[b - n]
      BY <2>2, <1>5
    <3>2. a - n = b - n
      BY <3>1, <2>2, <1>2
    <3> QED
      BY <3>2, <1>1, <1>5
  <2>3. CASE a \in 1..n /\ b - n \in 1..m /\ ~(b <= n)
    <3>1. t[a] = s[a] /\ t[b] = back[b - n]
      BY <2>3, <1>5, <1>7
    <3> QED
      BY <3>1, <2>3, <1>8
  <2>4. CASE b \in 1..n /\ a - n \in 1..m /\ ~(a <= n)
    <3>1. t[b] = s[b] /\ t[a] = back[a - n]
      BY <2>4, <1>5, <1>7
    <3> QED
      BY <3>1, <2>4, <1>8
  <2> QED
    BY <2>1, <2>2, <2>3, <2>4, <1>6
<1>10. ToSet(t) = ToSet(s) \cup S
  <2>1. \A x : x \in ToSet(t) => x \in ToSet(s) \cup ToSet(back)
    <3> SUFFICES ASSUME NEW i \in 1..(n + m)
                 PROVE  t[i] \in ToSet(s) \cup ToSet(back)
      BY <1>5 DEF ToSet
    <3>1. CASE i \in 1..n
      BY <3>1, <1>5, <1>7 DEF ToSet
    <3>2. CASE i - n \in 1..m /\ ~(i <= n)
      BY <3>2, <1>2, <1>5 DEF ToSet
    <3> QED
      BY <3>1, <3>2, <1>6
  <2>2. \A x : x \in ToSet(s) => x \in ToSet(t)
    BY <1>5, <1>7 DEF ToSet
  <2>3. \A x : x \in ToSet(back) => x \in ToSet(t)
    BY <1>2, <1>5, <1>7 DEF ToSet
  <2> QED
    BY <1>3, <2>1, <2>2, <2>3
<1> QED
  BY <1>5, <1>9, <1>10 DEF t

-----------------------------------------------------------------------------
(* The steps.                                                              *)

\* What holds of any job that is drawn: somebody holds it, it is a job, and no
\* other flight draws it.
LEMMA DrawingFacts ==
    ASSUME QueueInv, NEW f \in Flights, pc[f] = "drawing"
    PROVE  /\ drawing[f] \in Jobs
           /\ drawing[f] \notin queued
           /\ \A g \in Flights : pc[g] = "drawing" /\ drawing[g] = drawing[f] => g = f
<1>1. drawing[f] \in Jobs
  BY DEF QueueInv, PlacesTyped
<1>2. drawing[f] \notin queued
  BY DEF QueueInv, OnePlace
<1>3. ASSUME NEW g \in Flights, pc[g] = "drawing", drawing[g] = drawing[f]
      PROVE  g = f
  BY <1>3 DEF QueueInv, OnePlace, HeldBy
<1> QED
  BY <1>1, <1>2, <1>3

\* The queue is empty at first and every drain looks at it.
LEMMA InitQueue ==
    Init => QueueInv
<1> SUFFICES ASSUME Init PROVE QueueInv
  OBVIOUS
<1>1. PlacesTyped
  BY EmptySeq DEF Init, PlacesTyped, States
<1>2. OnePlace
  <2>1. DOMAIN stack = {}
    BY DEF Init
  <2> QED
    BY <2>1 DEF Init, OnePlace, IsInjective, ToSet, HeldBy
<1>3. WorkIsAttended
  BY DEF Init, WorkIsAttended
<1> QED
  BY <1>1, <1>2, <1>3 DEF QueueInv

\* The job asked for is in no place yet, and asking wakes every drain that waits.
LEMMA EnqueueKeeps ==
    ASSUME QueueInv, NEW j \in Jobs, Enqueue(j)
    PROVE  QueueInv'
<1>1. /\ stack' \in Seq(Jobs) /\ IsInjective(stack')
      /\ ToSet(stack') = queued \cup {j}
      /\ queued' = queued \cup {j}
  BY PushFacts DEF QueueInv, PlacesTyped, OnePlace, Enqueue
<1>2. /\ pc' \in [Flights -> States]
      /\ \A f \in Flights : /\ pc'[f] = IF pc[f] = "wait" THEN "top" ELSE pc[f]
                            /\ drawing'[f] = drawing[f]
  BY DEF QueueInv, PlacesTyped, Enqueue, WakeAll, States
<1>3. PlacesTyped'
  BY <1>1, <1>2 DEF QueueInv, PlacesTyped, Enqueue
<1>4. OnePlace'
  <2>1. ASSUME NEW f \in Flights, pc'[f] = "drawing"
        PROVE  drawing'[f] \notin queued'
    BY <2>1, <1>1, <1>2, DrawingFacts DEF Enqueue
  <2>2. ASSUME NEW f \in Flights, NEW g \in Flights,
               pc'[f] = "drawing", HeldBy(g, drawing[f])'
        PROVE  f = g
    <3>1. pc[f] = "drawing" /\ pc[g] = "drawing" /\ drawing[g] = drawing[f]
      BY <2>2, <1>2 DEF HeldBy, Enqueue
    <3> QED
      BY <3>1, DrawingFacts
  <2>3. \A f, g \in Flights : pc'[f] = "drawing" /\ HeldBy(g, drawing[f])' => f = g
    BY <2>2
  <2> QED
    BY <1>1, <2>1, <2>3 DEF OnePlace
<1>5. WorkIsAttended'
  BY <1>2 DEF WorkIsAttended, Enqueue
<1> QED
  BY <1>3, <1>4, <1>5 DEF QueueInv

\* Every entry of the stack is meant, so the one taken is the top one, and a
\* drain waits only on an empty queue.
LEMMA LiveIsAll ==
    ASSUME QueueInv
    PROVE  /\ Live = 1..Len(stack)
           /\ Len(stack) \in Nat
           /\ Live = {} => stack = <<>> /\ queued = {}
           /\ Live # {} => stack # <<>> /\ Max(Live) = Len(stack)
<1> DEFINE n == Len(stack)
<1>1. stack \in Seq(Jobs) /\ n \in Nat /\ DOMAIN stack = 1..n
  BY LenProperties DEF QueueInv, PlacesTyped
<1>2. Live = 1..n
  BY <1>1 DEF QueueInv, OnePlace, Live, ToSet
<1> HIDE DEF n
<1>3. ASSUME Live = {} PROVE stack = <<>> /\ queued = {}
  <2>1. n = 0
    BY <1>1, <1>2, <1>3
  <2>2. stack = <<>>
    BY <2>1, <1>1, EmptySeq DEF n
  <2>3. queued = {}
    BY <1>1, <1>2, <1>3 DEF QueueInv, OnePlace, ToSet
  <2> QED
    BY <2>2, <2>3
<1>4. ASSUME Live # {} PROVE stack # <<>> /\ Max(Live) = n
  <2>1. n >= 1
    BY <1>1, <1>2, <1>4
  <2>2. stack # <<>>
    BY <2>1, EmptySeq DEF n
  <2>3. n \in Live /\ \A y \in Live : n >= y
    BY <1>1, <1>2, <2>1
  <2>4. \A x \in Live : (\A y \in Live : x >= y) => x = n
    BY <1>1, <1>2, <2>3
  <2> QED
    BY <2>2, <2>3, <2>4 DEF Max
<1> QED
  BY <1>1, <1>2, <1>3, <1>4 DEF n

\* A drain takes the last job of the stack, or goes to wait (Turn).
LEMMA TurnKeeps ==
    ASSUME QueueInv, NEW f \in Flights, Turn(f)
    PROVE  QueueInv'
<1>1. CASE Live = {}
  <2>1. /\ stack = <<>> /\ queued = {} /\ stack' = <<>> /\ queued' = {}
        /\ drawing' = drawing
        /\ pc' = [pc EXCEPT ![f] = "wait"]
        /\ pc[f] = "top"
    BY <1>1, LiveIsAll DEF Turn
  <2>2. PlacesTyped'
    BY <2>1 DEF QueueInv, PlacesTyped, States
  <2>3. OnePlace'
    BY <2>1 DEF QueueInv, PlacesTyped, OnePlace, HeldBy
  <2>4. WorkIsAttended'
    BY <2>1 DEF WorkIsAttended
  <2> QED
    BY <2>2, <2>3, <2>4 DEF QueueInv
<1>2. CASE Live # {}
  <2> DEFINE n == Len(stack)
             j == stack[n]
  <2>1. /\ pc[f] = "top"
        /\ stack' = SubSeq(stack, 1, n - 1)
        /\ queued' = queued \ {j}
        /\ drawing' = [drawing EXCEPT ![f] = j]
        /\ pc' = [pc EXCEPT ![f] = "drawing"]
    BY <1>2, LiveIsAll DEF Turn
  <2>2. /\ j \in queued /\ j \in Jobs
        /\ stack' \in Seq(Jobs)
        /\ IsInjective(stack')
        /\ ToSet(stack') = queued'
    BY <1>2, <2>1, LiveIsAll, PopFacts DEF QueueInv, PlacesTyped, OnePlace
  <2> HIDE DEF j
  <2>3. PlacesTyped'
    <3>1. j # None
      BY <2>2, PlotQueueAssumption
    <3> QED
      BY <3>1, <2>1, <2>2 DEF QueueInv, PlacesTyped, States
  <2>4. \A g \in Flights : pc[g] = "drawing" => g # f /\ drawing[g] # j
    BY <2>1, <2>2, DrawingFacts
  <2>5. \A g \in Flights : /\ pc'[g] = IF g = f THEN "drawing" ELSE pc[g]
                           /\ drawing'[g] = IF g = f THEN j ELSE drawing[g]
    BY <2>1 DEF QueueInv, PlacesTyped
  <2>6. OnePlace'
    <3>1. ASSUME NEW g \in Flights, pc'[g] = "drawing"
          PROVE  drawing'[g] \notin queued'
      BY <3>1, <2>1, <2>5, DrawingFacts
    <3>2. ASSUME NEW g \in Flights, NEW h \in Flights,
                 pc'[g] = "drawing", HeldBy(h, drawing[g])'
          PROVE  g = h
      <4>1. pc'[h] = "drawing" /\ drawing'[h] = drawing'[g]
        BY <3>2 DEF HeldBy
      <4> QED
        BY <4>1, <3>2, <2>4, <2>5, DrawingFacts
    <3>3. \A g, h \in Flights : pc'[g] = "drawing" /\ HeldBy(h, drawing[g])' => g = h
      BY <3>2
    <3> QED
      BY <2>2, <3>1, <3>3 DEF OnePlace
  <2>7. WorkIsAttended'
    BY <2>5 DEF WorkIsAttended
  <2> QED
    BY <2>3, <2>6, <2>7 DEF QueueInv
<1> QED
  BY <1>1, <1>2

\* A drain that lets go of its job and goes back to the top of its loop.
LEMMA ReleaseKeeps ==
    ASSUME QueueInv, NEW f \in Flights,
           drawing' = [drawing EXCEPT ![f] = None],
           pc' = [pc EXCEPT ![f] = "top"],
           UNCHANGED <<stack, queued>>
    PROVE  QueueInv'
<1>1. \A g \in Flights : /\ pc'[g] = IF g = f THEN "top" ELSE pc[g]
                         /\ drawing'[g] = IF g = f THEN None ELSE drawing[g]
  BY DEF QueueInv, PlacesTyped
<1>2. PlacesTyped'
  BY <1>1 DEF QueueInv, PlacesTyped, States
<1>3. OnePlace'
  <2>1. ASSUME NEW g \in Flights, NEW h \in Flights,
               pc'[g] = "drawing", HeldBy(h, drawing[g])'
        PROVE  g = h
    <3>1. pc'[h] = "drawing" /\ drawing'[h] = drawing'[g]
      BY <2>1 DEF HeldBy
    <3> QED
      BY <3>1, <2>1, <1>1, DrawingFacts
  <2>2. \A g, h \in Flights : pc'[g] = "drawing" /\ HeldBy(h, drawing[g])' => g = h
    BY <2>1
  <2>3. \A g \in Flights : pc'[g] = "drawing" => drawing'[g] \notin queued'
    BY <1>1, DrawingFacts
  <2> QED
    BY <2>2, <2>3 DEF QueueInv, OnePlace
<1>4. WorkIsAttended'
  BY <1>1 DEF WorkIsAttended
<1> QED
  BY <1>2, <1>3, <1>4 DEF QueueInv

\* A job put back by a flight without a child was in no other place, and the
\* flight that put it back is not waiting.
LEMMA UnusableKeeps ==
    ASSUME QueueInv, NEW f \in Flights, Unusable(f)
    PROVE  QueueInv'
<1> DEFINE j == drawing[f]
<1>1. /\ pc[f] = "drawing"
      /\ pc' = [pc EXCEPT ![f] = "sleep"]
      /\ drawing' = drawing
      /\ \/ UNCHANGED <<stack, queued>>
         \/ queued' = queued \cup {j} /\ stack' = Append(stack, j)
  BY DEF Unusable
<1>2. j \in Jobs /\ j \notin queued
  BY <1>1, DrawingFacts
<1>3. /\ stack' \in Seq(Jobs) /\ IsInjective(stack') /\ ToSet(stack') = queued'
      /\ queued' \in {queued, queued \cup {j}}
  BY <1>1, <1>2, PushFacts DEF QueueInv, PlacesTyped, OnePlace
<1>4. \A g \in Flights : pc'[g] = IF g = f THEN "sleep" ELSE pc[g]
  BY <1>1 DEF QueueInv, PlacesTyped
<1>5. PlacesTyped'
  BY <1>1, <1>2, <1>3 DEF QueueInv, PlacesTyped, States
<1>6. OnePlace'
  <2>1. ASSUME NEW g \in Flights, pc'[g] = "drawing"
        PROVE  drawing'[g] \notin queued'
    <3>1. g # f /\ pc[g] = "drawing"
      BY <2>1, <1>4
    <3>2. drawing[g] # j /\ drawing[g] \notin queued
      BY <3>1, <1>1, DrawingFacts
    <3> QED
      BY <3>2, <1>1, <1>3
  <2>2. ASSUME NEW g \in Flights, NEW h \in Flights,
               pc'[g] = "drawing", HeldBy(h, drawing[g])'
        PROVE  g = h
    <3>1. pc[g] = "drawing" /\ pc[h] = "drawing" /\ drawing[h] = drawing[g]
      BY <2>2, <1>1, <1>4 DEF HeldBy
    <3> QED
      BY <3>1, DrawingFacts
  <2>3. \A g, h \in Flights : pc'[g] = "drawing" /\ HeldBy(h, drawing[g])' => g = h
    BY <2>2
  <2> QED
    BY <1>3, <2>1, <2>3 DEF OnePlace
<1>7. WorkIsAttended'
  BY <1>4 DEF WorkIsAttended
<1> QED
  BY <1>5, <1>6, <1>7 DEF QueueInv

\* The draws that a shutdown cuts short are put back, each once.
LEMMA AcloseKeeps ==
    ASSUME QueueInv, Aclose
    PROVE  QueueInv'
<1> DEFINE busy == {g \in Flights : pc[g] = "drawing"}
           taken == {drawing[f] : f \in busy}
<1>1. /\ queued' = queued \cup taken
      /\ drawing' = [f \in Flights |-> None]
      /\ pc' = [f \in Flights |-> "ended"]
  BY DEF Aclose
<1>2. PICK back \in SetToSeqs(taken) : stack' = stack \o back
  BY DEF Aclose
<1>3. taken \in SUBSET Jobs /\ taken \cap queued = {}
  BY DrawingFacts
<1>4. IsFiniteSet(taken)
  <2>1. IsFiniteSet(busy)
    BY PlotQueueAssumption, FS_Subset
  <2>2. [f \in busy |-> drawing[f]] \in Surjection(busy, taken)
    BY DEF Surjection
  <2> QED
    BY <2>1, <2>2, FS_Surjection
<1> HIDE DEF taken
<1>5. stack' \in Seq(Jobs) /\ IsInjective(stack') /\ ToSet(stack') = queued'
  BY <1>1, <1>2, <1>3, <1>4, PutBackFacts DEF QueueInv, PlacesTyped, OnePlace
<1>6. PlacesTyped'
  BY <1>1, <1>3, <1>5 DEF QueueInv, PlacesTyped, States
<1>7. OnePlace'
  BY <1>1, <1>5 DEF OnePlace
<1>8. WorkIsAttended'
  BY <1>1 DEF WorkIsAttended, Open
<1> QED
  BY <1>6, <1>7, <1>8 DEF QueueInv

\* Every step keeps the invariant.
LEMMA StepKeepsQueue ==
    QueueInv /\ [Next]_vars => QueueInv'
<1> SUFFICES ASSUME QueueInv, [Next]_vars PROVE QueueInv'
  OBVIOUS
<1>1. ASSUME NEW j \in Jobs, Enqueue(j) PROVE QueueInv'
  BY <1>1, EnqueueKeeps
<1>2. ASSUME NEW f \in Flights, Turn(f) PROVE QueueInv'
  BY <1>2, TurnKeeps
<1>3. ASSUME NEW f \in Flights, Drawn(f) PROVE QueueInv'
  BY <1>3, ReleaseKeeps DEF Drawn
<1>4. ASSUME NEW f \in Flights, Unusable(f) PROVE QueueInv'
  BY <1>4, UnusableKeeps
<1>5. ASSUME NEW f \in Flights, SleepOver(f) PROVE QueueInv'
  BY <1>5, ReleaseKeeps DEF SleepOver
<1>6. CASE Aclose
  BY <1>6, AcloseKeeps
<1>7. CASE UNCHANGED vars
  BY <1>7 DEF vars, QueueInv, PlacesTyped, OnePlace, WorkIsAttended, HeldBy, Open
<1> QED
  BY <1>1, <1>2, <1>3, <1>4, <1>5, <1>6, <1>7 DEF Next, Drain

-----------------------------------------------------------------------------
\* The inductive invariant of the queue (enqueue, _take, _drain, aclose).
THEOREM QueueInvariant ==
    Spec => []QueueInv
<1>1. Init => QueueInv
  BY InitQueue
<1>2. QueueInv /\ [Next]_vars => QueueInv'
  BY StepKeepsQueue
<1> QED
  BY <1>1, <1>2, PTL DEF Spec

\* A job has one place in the queue, with any number of flights: it is waiting
\* once or is being drawn by one flight, however retries and new requests for it
\* fall (enqueue's dedupe, the put-backs of _drain and aclose).
THEOREM JobsHaveOnePlace ==
    Spec => []OnePlace
<1>1. QueueInv => OnePlace
  BY DEF QueueInv
<1> QED
  BY <1>1, QueueInvariant, PTL

\* No wakeup is lost: beside a waiting job some drain is awake, with any number
\* of flights (the clear-then-look-again of _drain).
THEOREM NoLostWakeup ==
    Spec => []WorkIsAttended
<1>1. QueueInv => WorkIsAttended
  BY DEF QueueInv
<1> QED
  BY <1>1, QueueInvariant, PTL

-----------------------------------------------------------------------------
(* The errors and the retry counts.                                        *)

\* The errors are a dictionary: a job is in it once.  With OutcomesAreOver this is
\* what each step keeps of them.
OutcomesInv ==
    /\ Lists(errors, ToSet(errors)) /\ ToSet(errors) \subseteq Jobs
    /\ retries \in [Jobs -> 0..(PLOT_MAX_RETRIES - 1)]
    /\ OutcomesAreOver

\* A job that leaves the queue was drawn or has an error.
Accounted ==
    \A j \in Jobs : Pending(j) /\ ~Pending(j)' =>
       \/ j \in ToSet(errors')
       \/ \E f \in Flights : HeldBy(f, j) /\ pc'[f] = "top"

\* Forgetting the error of a job leaves the others (errors.pop).
LEMMA ForgetFacts ==
    ASSUME OutcomesInv, NEW j, errors' = Forget(errors, j)
    PROVE  /\ Lists(errors', ToSet(errors')) /\ ToSet(errors') = ToSet(errors) \ {j}
           /\ Len(errors') <= PLOT_ERROR_CAP
<1>1. Lists(errors, ToSet(errors)) /\ Len(errors) <= PLOT_ERROR_CAP
  BY DEF OutcomesInv, OutcomesAreOver
<1>2. Lists(errors', ToSet(errors) \ {j}) /\ Len(errors') <= Len(errors)
  BY <1>1, QueueWithout DEF Forget
<1>3. Len(errors') \in Nat /\ Len(errors) \in Nat
  BY <1>1, <1>2, LenProperties DEF Lists
<1> QED
  BY <1>1, <1>2, <1>3, QueueSet, PlotQueueAssumption

\* A recorded error is there, and at most others have made room for it
\* (_record_error).
LEMMA RecordFacts ==
    ASSUME OutcomesInv, NEW j \in Jobs, errors' = RecordError(j)
    PROVE  /\ Lists(errors', ToSet(errors')) /\ j \in ToSet(errors')
           /\ ToSet(errors') \subseteq ToSet(errors) \cup {j}
           /\ Len(errors') <= PLOT_ERROR_CAP
<1> DEFINE E == ToSet(errors) \ {j}
           rest == Forget(errors, j)
           all == Append(rest, j)
<1>1. Lists(errors, ToSet(errors)) /\ Len(errors) <= PLOT_ERROR_CAP
  BY DEF OutcomesInv, OutcomesAreOver
<1>2. Lists(rest, E) /\ Len(rest) <= Len(errors)
  BY <1>1, QueueWithout DEF Forget
<1>3. errors' = IF Len(all) > PLOT_ERROR_CAP THEN Tail(all) ELSE all
  BY DEF RecordError
<1> HIDE DEF rest
<1>4. /\ Lists(all, E \cup {j})
      /\ E = {} => rest = << >>
      /\ E # {} => all[1] \in E
  BY <1>2, QueueAppend, QueueHead
<1>5. Len(all) = Len(rest) + 1 /\ Len(rest) \in Nat /\ Len(errors) \in Nat
  BY <1>1, <1>2, AppendProperties, LenProperties DEF Lists
<1> HIDE DEF all
<1>6. CASE Len(all) > PLOT_ERROR_CAP
  <2>1. E # {}
    <3>1. E = {} => Len(rest) = 0
      BY <1>4, EmptySeq
    <3> QED
      BY <1>5, <1>6, <3>1, PlotQueueAssumption
  <2>2. all[1] # j /\ Lists(errors', (E \cup {j}) \ {all[1]})
    BY <1>3, <1>4, <1>6, <2>1, QueueTail
  <2>3. ToSet(errors') = (E \cup {j}) \ {all[1]}
    BY <2>2, QueueSet
  <2>4. Len(errors') = Len(all) - 1
    <3>1. all \in Seq(E \cup {j}) /\ all # << >>
      BY <1>4, <1>5, EmptySeq DEF Lists
    <3>2. errors' = Tail(all)
      BY <1>3, <1>6
    <3> QED
      BY <3>1, <3>2, HeadTailProperties
  <2> QED
    BY <1>1, <1>2, <1>5, <2>2, <2>3, <2>4, PlotQueueAssumption
<1>7. CASE ~(Len(all) > PLOT_ERROR_CAP)
  <2>1. Lists(errors', E \cup {j})
    BY <1>3, <1>4, <1>7
  <2>2. ToSet(errors') = E \cup {j}
    BY <2>1, QueueSet
  <2>3. errors' = all /\ Len(errors') <= PLOT_ERROR_CAP
    BY <1>3, <1>5, <1>7, PlotQueueAssumption
  <2>4. j \in ToSet(errors') /\ ToSet(errors') \subseteq ToSet(errors) \cup {j}
    BY <2>2
  <2> QED
    BY <2>1, <2>2, <2>3, <2>4
<1> QED
  BY <1>6, <1>7

\* There are no errors and no retries at first.
LEMMA InitOutcomes ==
    Init => OutcomesInv
<1> SUFFICES ASSUME Init PROVE OutcomesInv
  OBVIOUS
<1>1. errors = << >> /\ Lists(errors, {}) /\ Len(errors) = 0
  BY QueueOfNobody, EmptySeq DEF Init
<1>2. ToSet(errors) = {}
  BY <1>1, QueueSet
<1>3. /\ retries \in [Jobs -> 0..(PLOT_MAX_RETRIES - 1)]
      /\ \A j \in Jobs : ~(retries[j] > 0)
  BY PlotQueueAssumption DEF Init
<1>4. Len(errors) <= PLOT_ERROR_CAP
  BY <1>1, PlotQueueAssumption
<1> QED
  BY <1>1, <1>2, <1>3, <1>4, Zenon DEF OutcomesInv, OutcomesAreOver

\* A step that leaves errors and counts alone keeps them if it leaves a job pending
\* that was, and no other.
LEMMA OutcomesUntouched ==
    ASSUME OutcomesInv, UNCHANGED <<errors, retries>>,
           \A j \in Jobs : Pending(j)' <=> Pending(j)
    PROVE  OutcomesInv' /\ Accounted
BY DEF OutcomesInv, OutcomesAreOver, Accounted

\* The job asked for has no error any more (enqueue).
LEMMA EnqueueOutcomes ==
    ASSUME QueueInv, OutcomesInv, NEW j \in Jobs, Enqueue(j)
    PROVE  OutcomesInv' /\ Accounted
<1>1. /\ errors' = Forget(errors, j) /\ retries' = retries
      /\ queued' = queued \cup {j} /\ drawing' = drawing
      /\ \A f \in Flights : pc'[f] = "drawing" <=> pc[f] = "drawing"
  BY DEF Enqueue, WakeAll
<1>2. \A k \in Jobs : Pending(k)' <=> Pending(k) \/ k = j
  BY <1>1 DEF Pending, HeldBy
<1> QED
  BY <1>1, <1>2, ForgetFacts DEF OutcomesInv, OutcomesAreOver, Accounted

\* What is taken is still to be drawn (_take).
LEMMA TurnOutcomes ==
    ASSUME QueueInv, OutcomesInv, NEW f \in Flights, Turn(f)
    PROVE  OutcomesInv' /\ Accounted
<1>1. pc[f] = "top" /\ UNCHANGED <<errors, retries>>
  BY DEF Turn
<1>2. CASE Live = {}
  <2>1. queued = {} /\ queued' = queued /\ drawing' = drawing /\ pc' = [pc EXCEPT ![f] = "wait"]
    BY <1>2, LiveIsAll DEF Turn
  <2>2. \A k \in Jobs : Pending(k)' <=> Pending(k)
    BY <1>1, <2>1 DEF Pending, HeldBy, QueueInv, PlacesTyped
  <2> QED
    BY <1>1, <2>2, OutcomesUntouched
<1>3. CASE Live # {}
  <2> DEFINE j == stack[Len(stack)]
  <2>1. /\ queued' = queued \ {j} /\ drawing' = [drawing EXCEPT ![f] = j]
        /\ pc' = [pc EXCEPT ![f] = "drawing"] /\ j \in queued
    BY <1>3, LiveIsAll, PopFacts DEF Turn, QueueInv, PlacesTyped, OnePlace
  <2> HIDE DEF j
  <2>2. /\ pc'[f] = "drawing" /\ drawing'[f] = j /\ ~(pc[f] = "drawing")
        /\ \A g \in Flights \ {f} : pc'[g] = pc[g] /\ drawing'[g] = drawing[g]
    BY <1>1, <2>1 DEF QueueInv, PlacesTyped
  <2>3. \A k \in Jobs : Pending(k)' <=> Pending(k)
    BY <2>1, <2>2 DEF Pending, HeldBy
  <2> QED
    BY <1>1, <2>3, OutcomesUntouched
<1> QED
  BY <1>2, <1>3

\* A flight that lets go of its job, which is in no other place, ends its waiting.
LEMMA LetGo ==
    ASSUME QueueInv, NEW f \in Flights, pc[f] = "drawing", queued' = queued,
           NEW w, w # "drawing", pc' = [pc EXCEPT ![f] = w],
           \A g \in Flights \ {f} : drawing'[g] = drawing[g]
    PROVE  \A k \in Jobs : Pending(k)' <=> Pending(k) /\ k # drawing[f]
<1>1. \A g \in Flights : pc'[g] = IF g = f THEN w ELSE pc[g]
  BY DEF QueueInv, PlacesTyped
<1>2. /\ drawing[f] \notin queued
      /\ \A g \in Flights : pc[g] = "drawing" /\ drawing[g] = drawing[f] => g = f
  BY DrawingFacts
<1> QED
  BY <1>1, <1>2 DEF Pending, HeldBy

\* A job is over, with an error or without (_drain).
LEMMA DrawnOutcomes ==
    ASSUME QueueInv, OutcomesInv, NEW f \in Flights, Drawn(f)
    PROVE  OutcomesInv' /\ Accounted
<1> DEFINE j == drawing[f]
<1>1. /\ pc[f] = "drawing" /\ retries' = [retries EXCEPT ![j] = 0]
      /\ errors' = errors \/ errors' = RecordError(j)
      /\ drawing' = [drawing EXCEPT ![f] = None] /\ pc' = [pc EXCEPT ![f] = "top"]
      /\ queued' = queued
  BY DEF Drawn
<1>2. /\ j \in Jobs /\ HeldBy(f, j) /\ pc'[f] = "top"
      /\ \A g \in Flights \ {f} : drawing'[g] = drawing[g]
  BY <1>1, DrawingFacts DEF QueueInv, PlacesTyped, HeldBy
<1>3. \A k \in Jobs : Pending(k)' <=> Pending(k) /\ k # j
  BY <1>1, <1>2, LetGo
<1>4. /\ Lists(errors', ToSet(errors')) /\ ToSet(errors') \subseteq ToSet(errors) \cup {j}
      /\ Len(errors') <= PLOT_ERROR_CAP
  BY <1>1, <1>2, RecordFacts DEF OutcomesInv, OutcomesAreOver
<1>5. /\ retries' \in [Jobs -> 0..(PLOT_MAX_RETRIES - 1)] /\ retries'[j] = 0
      /\ \A k \in Jobs : k # j => retries'[k] = retries[k]
  BY <1>1, <1>2, PlotQueueAssumption DEF OutcomesInv
<1> HIDE DEF j
<1>6. OutcomesInv'
  BY <1>2, <1>3, <1>4, <1>5 DEF OutcomesInv, OutcomesAreOver
<1>7. Accounted
  BY <1>2, <1>3 DEF Accounted
<1> QED
  BY <1>6, <1>7

\* A job whose flight has no child is put back and counted, or given up with an
\* error and counted no more (_drain).
LEMMA UnusableOutcomes ==
    ASSUME QueueInv, OutcomesInv, NEW f \in Flights, Unusable(f)
    PROVE  OutcomesInv' /\ Accounted
<1> DEFINE j == drawing[f]
           tries == retries[j] + 1
<1>1. /\ pc[f] = "drawing" /\ pc' = [pc EXCEPT ![f] = "sleep"] /\ drawing' = drawing
      /\ \/ /\ tries >= PLOT_MAX_RETRIES /\ retries' = [retries EXCEPT ![j] = 0]
            /\ errors' = RecordError(j) /\ queued' = queued
         \/ /\ tries < PLOT_MAX_RETRIES /\ retries' = [retries EXCEPT ![j] = tries]
            /\ errors' = Forget(errors, j) /\ queued' = queued \cup {j}
  BY DEF Unusable
<1>2. /\ j \in Jobs /\ HeldBy(f, j) /\ retries[j] \in 0..(PLOT_MAX_RETRIES - 1)
      /\ retries \in [Jobs -> 0..(PLOT_MAX_RETRIES - 1)]
  BY <1>1, DrawingFacts DEF HeldBy, OutcomesInv
<1> HIDE DEF j
<1>3. CASE /\ retries' = [retries EXCEPT ![j] = 0]
           /\ errors' = RecordError(j) /\ queued' = queued
  <2>1. \A k \in Jobs : Pending(k)' <=> Pending(k) /\ k # j
    BY <1>1, <1>3, LetGo DEF j
  <2>2. /\ Lists(errors', ToSet(errors')) /\ j \in ToSet(errors')
        /\ ToSet(errors') \subseteq ToSet(errors) \cup {j}
        /\ Len(errors') <= PLOT_ERROR_CAP
    BY <1>2, <1>3, RecordFacts
  <2>3. /\ retries' \in [Jobs -> 0..(PLOT_MAX_RETRIES - 1)] /\ retries'[j] = 0
        /\ \A k \in Jobs : k # j => retries'[k] = retries[k]
    BY <1>2, <1>3, PlotQueueAssumption
  <2> QED
    BY <1>2, <2>1, <2>2, <2>3 DEF OutcomesInv, OutcomesAreOver, Accounted
<1>4. CASE /\ tries < PLOT_MAX_RETRIES /\ retries' = [retries EXCEPT ![j] = tries]
           /\ errors' = Forget(errors, j) /\ queued' = queued \cup {j}
  <2>1. \A g \in Flights : pc'[g] = "drawing" => pc[g] = "drawing"
    BY <1>1 DEF QueueInv, PlacesTyped
  <2>2. \A g \in Flights : pc[g] = "drawing" => pc'[g] = "drawing" \/ g = f
    BY <1>1 DEF QueueInv, PlacesTyped
  <2>3. Pending(j) /\ drawing[f] = j
    BY <1>2 DEF Pending, HeldBy
  <2>4. \A k \in Jobs : Pending(k)' <=> Pending(k)
    BY <1>1, <1>4, <2>1, <2>2, <2>3 DEF Pending, HeldBy
  <2>5. tries \in 0..(PLOT_MAX_RETRIES - 1)
    BY <1>2, <1>4, PlotQueueAssumption
  <2> HIDE DEF tries
  <2>6. /\ retries' \in [Jobs -> 0..(PLOT_MAX_RETRIES - 1)]
        /\ \A k \in Jobs : k # j => retries'[k] = retries[k]
    BY <1>2, <1>4, <2>5
  <2>7. /\ Lists(errors', ToSet(errors')) /\ ToSet(errors') = ToSet(errors) \ {j}
        /\ Len(errors') <= PLOT_ERROR_CAP
    BY <1>4, ForgetFacts
  <2> QED
    BY <2>3, <2>4, <2>6, <2>7 DEF OutcomesInv, OutcomesAreOver, Accounted
<1> QED
  BY <1>1, <1>3, <1>4

\* Waiting for the retry to come is no part of drawing.
LEMMA SleepOverOutcomes ==
    ASSUME QueueInv, OutcomesInv, NEW f \in Flights, SleepOver(f)
    PROVE  OutcomesInv' /\ Accounted
<1>1. /\ pc[f] = "sleep" /\ pc' = [pc EXCEPT ![f] = "top"]
      /\ drawing' = [drawing EXCEPT ![f] = None]
      /\ queued' = queued /\ UNCHANGED <<errors, retries>>
  BY DEF SleepOver
<1>2. \A g \in Flights : HeldBy(g, drawing[g]) => g # f
  BY <1>1 DEF HeldBy
<1>3. \A g \in Flights \ {f} : pc'[g] = pc[g] /\ drawing'[g] = drawing[g]
  BY <1>1 DEF QueueInv, PlacesTyped
<1>4. pc'[f] # "drawing"
  BY <1>1 DEF QueueInv, PlacesTyped
<1>5. \A k \in Jobs : Pending(k)' <=> Pending(k)
  BY <1>1, <1>3, <1>4 DEF Pending, HeldBy
<1> QED
  BY <1>1, <1>5, OutcomesUntouched

\* What a shutdown cuts short waits again (aclose).
LEMMA AcloseOutcomes ==
    ASSUME QueueInv, OutcomesInv, Aclose
    PROVE  OutcomesInv' /\ Accounted
<1>1. /\ queued' = queued \cup {drawing[f] : f \in {g \in Flights : pc[g] = "drawing"}}
      /\ pc' = [f \in Flights |-> "ended"] /\ UNCHANGED <<errors, retries>>
  BY DEF Aclose
<1>2. \A k \in Jobs : Pending(k)' <=> Pending(k)
  BY <1>1 DEF Pending, HeldBy
<1> QED
  BY <1>1, <1>2, OutcomesUntouched

\* Every step keeps the outcomes, and accounts for a job that leaves.
LEMMA StepKeepsOutcomes ==
    ASSUME QueueInv, OutcomesInv, [Next]_vars
    PROVE  OutcomesInv' /\ (Next => Accounted)
<1>1. CASE Next
  BY <1>1, EnqueueOutcomes, TurnOutcomes, DrawnOutcomes, UnusableOutcomes, SleepOverOutcomes,
     AcloseOutcomes DEF Next, Drain
<1>2. CASE UNCHANGED vars
  BY <1>2, OutcomesUntouched DEF vars, Pending, HeldBy
<1> QED
  BY <1>1, <1>2

\* The inductive invariant with the errors and the counts (_record_error, _drain).
THEOREM OutcomesInvariant ==
    Spec => [](QueueInv /\ OutcomesInv)
<1>1. Init => OutcomesInv
  BY InitOutcomes
<1>2. QueueInv /\ OutcomesInv /\ [Next]_vars => OutcomesInv'
  BY StepKeepsOutcomes
<1> QED
  BY <1>1, <1>2, QueueInvariant, PTL DEF Spec

\* The variables have the types the code gives them.
THEOREM QueueTyped ==
    Spec => []TypeOK
<1>1. QueueInv /\ OutcomesInv => TypeOK
  <2>1. OutcomesInv => errors \in Seq(Jobs)
    BY SeqMonotonic DEF OutcomesInv, Lists
  <2> QED
    BY <2>1 DEF QueueInv, PlacesTyped, States, OutcomesInv, TypeOK
<1> QED
  BY <1>1, OutcomesInvariant, PTL

\* No error and no retry count outlives its occasion, for any jobs, flights and
\* limits, however requests, retries and failures of a job fall (enqueue,
\* _record_error, _drain).
THEOREM OutcomesStayOver ==
    Spec => []OutcomesAreOver
<1>1. OutcomesInv => OutcomesAreOver
  BY DEF OutcomesInv
<1> QED
  BY <1>1, OutcomesInvariant, PTL

\* No job falls out of the queue: it leaves drawn, with an error, or not at all
\* (_drain, aclose).
THEOREM NoJobIsDropped ==
    Spec => NothingDropped
<1>1. QueueInv /\ OutcomesInv /\ [Next]_vars => [Accounted]_vars
  BY StepKeepsOutcomes
<1>2. [][Accounted]_vars => NothingDropped
  BY DEF NothingDropped, Accounted
<1> QED
  BY <1>1, <1>2, OutcomesInvariant, PTL DEF Spec
=============================================================================
