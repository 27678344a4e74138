------------------------ MODULE FiberScheduler_proofs ------------------------
(* Theorems about FiberScheduler, for every set of fibers *)
EXTENDS FiberScheduler, Integers, Sequences, FiniteSetTheorems, SequenceTheorems, TLAPS

IInv == TypeOK /\ ListClosed /\ JumpsLandAlive

-----------------------------------------------------------------------------
(* One lemma for each operation on the list *)

LEMMA StartStep ==
    ASSUME IInv, NEW f \in Fibers, start(f)
    PROVE  IInv'
<1> USE FibersAssumption DEF IInv, Task
<1>1. f \notin running /\ running' = running \cup {f} /\ UNCHANGED <<current, joins>>
  BY DEF start, add, isRunning
<1>2. context' = [context EXCEPT ![f] = "entry"]
  BY DEF start
<1>3. JumpsLandAlive'
  BY <1>1, <1>2 DEF JumpsLandAlive, TypeOK, ListClosed
<1>4. CASE last = NULL
  <2>1. running = {} /\ running' = {f} /\ current = NULL /\ last' = f
    BY <1>1, <1>4 DEF ListClosed, start, add
  <2>2. next' = [next EXCEPT ![f] = f]
    BY <1>4 DEF start, add
  <2>3. next'[f] = f /\ \A g \in Fibers \ {f} : next'[g] = NULL
    BY <2>1, <2>2 DEF TypeOK, ListClosed
  <2>4. TypeOK'
    BY <1>1, <1>2, <2>1, <2>2 DEF TypeOK
  <2>5. OneRing'
    BY <2>1 DEF OneRing
  <2>6. ListClosed'
    BY <1>1, <2>1, <2>3, <2>5 DEF ListClosed
  <2> QED BY <1>3, <2>4, <2>6
<1>5. CASE last # NULL
  <2>1. last \in running /\ last' = f /\ last # f /\ last \in Fibers
    BY <1>1, <1>5 DEF ListClosed, start, add, runLast, TypeOK
  <2>2. next' = [next EXCEPT ![f] = next[last], ![last] = f]
    BY <1>5 DEF start, add, runLast
  <2>3. /\ next'[f] = next[last] /\ next'[last] = f
        /\ \A g \in Fibers \ {f, last} : next'[g] = next[g]
    BY <2>1, <2>2 DEF TypeOK
  <2>4. TypeOK'
    BY <1>1, <1>2, <2>1, <2>2 DEF TypeOK
  <2>5. \A g \in running' : next'[g] \in running'
    BY <1>1, <2>1, <2>3 DEF ListClosed, TypeOK
  <2>6. \A g, h \in running' : next'[g] = next'[h] => g = h
    BY <1>1, <2>1, <2>3 DEF ListClosed, TypeOK
  <2>7. \A g \in Fibers \ running' : next'[g] = NULL
    BY <1>1, <2>1, <2>3 DEF ListClosed, TypeOK
  <2>8. OneRing'
    <3> SUFFICES ASSUME NEW S \in SUBSET running', S # {}, \A g \in S : next'[g] \in S
                 PROVE  S = running'
      BY DEF OneRing
    <3>1. CASE last \notin S
      <4>1. f \notin S => S \in SUBSET running /\ \A g \in S : next[g] \in S
        BY <1>1, <2>3, <3>1 DEF TypeOK
      <4>2. f \notin S => S = running
        BY <4>1 DEF ListClosed, OneRing
      <4>3. f \in S
        BY <2>1, <3>1, <4>2
      <4> DEFINE R == S \ {f}
      <4>4. R \in SUBSET running /\ next[last] \in R
        BY <1>1, <2>1, <2>3, <4>3 DEF ListClosed
      <4>5. \A g \in R : next[g] \in R
        BY <1>1, <2>1, <2>3, <3>1, <4>4 DEF ListClosed, TypeOK
      <4>6. R = running
        BY <4>4, <4>5 DEF ListClosed, OneRing
      <4> QED BY <2>1, <3>1, <4>6
    <3>2. CASE last \in S
      <4> DEFINE R == S \ {f}
      <4>1. f \in S /\ next[last] \in R
        BY <1>1, <2>1, <2>3, <3>2 DEF ListClosed
      <4>2. R \in SUBSET running
        BY <1>1
      <4>3. \A g \in R : next[g] \in R
        BY <1>1, <2>1, <2>3, <4>1, <4>2 DEF ListClosed, TypeOK
      <4>4. R = running
        BY <4>1, <4>2, <4>3 DEF ListClosed, OneRing
      <4> QED BY <1>1, <4>1, <4>4
    <3> QED BY <3>1, <3>2
  <2>9. ListClosed'
    BY <1>1, <2>1, <2>3, <2>5, <2>6, <2>7, <2>8 DEF ListClosed
  <2> QED BY <1>3, <2>4, <2>9
<1> QED BY <1>4, <1>5

LEMMA RunStep ==
    ASSUME IInv, run
    PROVE  IInv'
<1> USE FibersAssumption DEF IInv, Task, run
<1>1. next[last] \in running /\ last \in Fibers /\ next[last] \in Fibers
  BY DEF ListClosed, TypeOK
<1>2. TypeOK'
  BY <1>1 DEF TypeOK
<1>3. ListClosed'
  BY <1>1 DEF ListClosed, OneRing
<1>4. JumpsLandAlive'
  BY <1>1 DEF JumpsLandAlive, TypeOK
<1> QED BY <1>2, <1>3, <1>4

LEMMA YieldStep ==
    ASSUME IInv, current # NULL, yield, UNCHANGED joins
    PROVE  IInv'
<1> USE FibersAssumption DEF IInv, Task
<1>1. current \in running /\ next[current] \in running /\ running \subseteq Fibers
  BY DEF ListClosed, TypeOK
<1>2. /\ last' = current /\ current' = next[current]
      /\ context' = [[context EXCEPT ![current] = "yield"] EXCEPT ![next[current]] = "runs"]
      /\ UNCHANGED <<next, running>>
  BY DEF yield, jump
<1>3. TypeOK'
  BY <1>1, <1>2 DEF TypeOK
<1>4. ListClosed'
  BY <1>1, <1>2 DEF ListClosed, OneRing
<1>5. JumpsLandAlive'
  BY <1>1, <1>2 DEF JumpsLandAlive, TypeOK
<1> QED BY <1>3, <1>4, <1>5

LEMMA ReturnStep ==
    ASSUME IInv, Return
    PROVE  IInv'
<1> USE FibersAssumption DEF IInv, Task
<1>1. /\ current \in running /\ last \in running /\ next[current] \in running
      /\ next[last] = current /\ running \subseteq Fibers
  BY DEF Return, ListClosed, TypeOK
<1>2. running' = running \ {current} /\ joins' = joins
  BY DEF Return, removeCurrent
<1>3. CASE current = last
  <2>1. running = {current}
    <3>1. {current} \in SUBSET running /\ next[current] = current
      BY <1>1, <1>3
    <3>2. \A f \in {current} : next[f] \in {current}
      BY <3>1
    <3> QED BY <3>1, <3>2 DEF ListClosed, OneRing
  <2>2. running' = {} /\ last' = NULL /\ current' = NULL
    BY <1>2, <1>3, <2>1 DEF Return, removeCurrent
  <2>3. /\ next' = [next EXCEPT ![current] = NULL]
        /\ context' = [context EXCEPT ![current] = "ended"]
    BY <1>3, <2>2 DEF Return, removeCurrent
  <2>4. TypeOK'
    BY <1>1, <1>2, <2>2, <2>3 DEF TypeOK
  <2>5. OneRing'
    BY <2>2 DEF OneRing
  <2>6. \A f \in Fibers : next'[f] = NULL
    BY <1>1, <2>1, <2>3 DEF ListClosed, TypeOK
  <2>7. ListClosed'
    BY <2>2, <2>5, <2>6 DEF ListClosed
  <2>8. JumpsLandAlive'
    BY <1>1, <2>1, <2>2, <2>3 DEF JumpsLandAlive, TypeOK
  <2> QED BY <2>4, <2>7, <2>8
<1>4. CASE current # last
  <2>1. /\ last' = last /\ current' = next[current]
        /\ next' = [next EXCEPT ![last] = next[current], ![current] = NULL]
        /\ context' = [[context EXCEPT ![current] = "ended"] EXCEPT ![next[current]] = "runs"]
    BY <1>1, <1>4 DEF Return, removeCurrent, jump, TypeOK
  <2>2. next[current] # current
    BY <1>1, <1>4 DEF ListClosed
  <2>3. /\ next'[last] = next[current] /\ next'[current] = NULL
        /\ \A g \in Fibers \ {last, current} : next'[g] = next[g]
    BY <1>1, <1>4, <2>1 DEF TypeOK
  <2>4. TypeOK'
    BY <1>1, <1>2, <2>1 DEF TypeOK
  <2>5. \A g \in running' : next'[g] \in running'
    BY <1>1, <1>2, <2>2, <2>3 DEF ListClosed
  <2>6. \A g, h \in running' : next'[g] = next'[h] => g = h
    BY <1>1, <1>2, <2>3 DEF ListClosed
  <2>7. \A g \in Fibers \ running' : next'[g] = NULL
    BY <1>1, <1>2, <2>3 DEF ListClosed
  <2>8. OneRing'
    <3> SUFFICES ASSUME NEW S \in SUBSET running', S # {}, \A g \in S : next'[g] \in S
                 PROVE  S = running'
      BY DEF OneRing
    <3>1. CASE last \in S
      <4> DEFINE R == S \cup {current}
      <4>1. R \in SUBSET running
        BY <1>1, <1>2
      <4>2. \A g \in R : next[g] \in R
        BY <1>1, <1>2, <2>3, <3>1
      <4>3. R = running
        BY <4>1, <4>2 DEF ListClosed, OneRing
      <4> QED BY <1>2, <4>3
    <3>2. CASE last \notin S
      <4>1. S \in SUBSET running /\ \A g \in S : next[g] \in S
        BY <1>1, <1>2, <2>3, <3>2
      <4>2. S = running
        BY <4>1 DEF ListClosed, OneRing
      <4> QED BY <1>1, <3>2, <4>2
    <3> QED BY <3>1, <3>2
  <2>9. ListClosed'
    BY <1>1, <1>2, <1>4, <2>1, <2>2, <2>3, <2>5, <2>6, <2>7, <2>8 DEF ListClosed
  <2>10. JumpsLandAlive'
    BY <1>1, <1>2, <2>1, <2>2 DEF JumpsLandAlive, TypeOK
  <2> QED BY <2>4, <2>9, <2>10
<1> QED BY <1>3, <1>4

LEMMA JoinStep ==
    ASSUME IInv, UNCHANGED <<next, running, last, current, context>>, joins' \in [Fibers -> Task]
    PROVE  IInv'
BY DEF IInv, TypeOK, ListClosed, OneRing, JumpsLandAlive

LEMMA Inductive == Spec => []IInv
<1> USE FibersAssumption
<1>1. Init => IInv
  <2> SUFFICES ASSUME Init PROVE IInv
    OBVIOUS
  <2>1. TypeOK
    BY DEF Init, TypeOK, Task
  <2>2. ListClosed
    BY DEF Init, ListClosed, OneRing
  <2>3. JumpsLandAlive
    BY DEF Init, JumpsLandAlive
  <2> QED BY <2>1, <2>2, <2>3 DEF IInv
<1>2. IInv /\ [Next]_schedVars => IInv'
  <2> SUFFICES ASSUME IInv, [Next]_schedVars PROVE IInv'
    OBVIOUS
  <2>1. CASE \E f \in Fibers : start(f)
    BY <2>1, StartStep
  <2>2. CASE \E f \in Fibers : Join(f)
    <3>1. PICK f \in Fibers : Join(f)
      BY <2>2
    <3>2. joins' \in [Fibers -> Task]
      BY <3>1 DEF Join, IInv, TypeOK, Task
    <3> QED BY <3>1, <3>2, JoinStep DEF Join
  <2>3. CASE run
    BY <2>3, RunStep
  <2>4. CASE Yield \/ JoinYields
    BY <2>4, YieldStep DEF Yield, JoinYields, Joining
  <2>5. CASE Return
    BY <2>5, ReturnStep
  <2>6. CASE JoinReturns
    <3>1. joins' \in [Fibers -> Task]
      BY <2>6 DEF JoinReturns, IInv, TypeOK, Task
    <3> QED BY <2>6, <3>1, JoinStep DEF JoinReturns
  <2>7. CASE UNCHANGED schedVars
    BY <2>7 DEF schedVars, IInv, TypeOK, ListClosed, OneRing, JumpsLandAlive
  <2> QED BY <2>1, <2>2, <2>3, <2>4, <2>5, <2>6, <2>7 DEF Next, Switch
<1> QED BY <1>1, <1>2, PTL DEF Spec

-----------------------------------------------------------------------------
(* The pointers always are tasks or null *)
THEOREM TypeCorrect == Spec => []TypeOK
BY Inductive, PTL DEF IInv

(* However fibers start, yield, join and return, the list stays one ring of *)
(* exactly the running tasks.                                                *)
THEOREM ListStaysClosed == Spec => []ListClosed
BY Inductive, PTL DEF IInv

(* The processor is never given to a fiber that has returned *)
THEOREM JumpsStayAlive == Spec => []JumpsLandAlive
BY Inductive, PTL DEF IInv

-----------------------------------------------------------------------------
(* The list as a queue *)

(* q goes along nxt from first through tasks of R, meets none twice, and   *)
(* comes back to its beginning.                                            *)
RingOf(q, R, nxt, first) ==
    /\ q \in Seq(R)
    /\ \A i, j \in 1..Len(q) : q[i] = q[j] => i = j
    /\ \A i \in 1..Len(q) : i + 1 \in 1..Len(q) => q[i + 1] = nxt[q[i]]
    /\ Len(q) # 0 => q[1] = first /\ nxt[q[Len(q)]] = first

(* Where R is one ring, there is no other walk than q: the tasks that two   *)
(* walks reach at the same place are closed under nxt.  With this for an    *)
(* induction, the definition of Walk has a meaning wherever a ring exists.  *)
LEMMA WalkUnique ==
    ASSUME NEW R, NEW nxt, NEW first, NEW q, RingOf(q, R, nxt, first),
           \A S \in SUBSET R : (S # {} /\ \A f \in S : nxt[f] \in S) => S = R,
           NEW w, w = [i \in 1..Len(q) |-> IF i = 1 THEN first ELSE nxt[w[i - 1]]]
    PROVE  w = q
<1>1. /\ Len(q) \in Nat /\ q = [i \in 1..Len(q) |-> q[i]]
      /\ \A i \in 1..Len(q) : q[i] \in R
  BY DEF RingOf
<1>2. \A i \in 1..Len(q) : w[i] = IF i = 1 THEN first ELSE nxt[w[i - 1]]
  OBVIOUS
<1> DEFINE Agree == {i \in 1..Len(q) : w[i] = q[i]}
           S == {q[i] : i \in Agree}
<1>3. CASE Len(q) # 0
  <2>1. 1 \in Agree
    BY <1>1, <1>2, <1>3 DEF RingOf
  <2>2. ASSUME NEW i \in Agree PROVE nxt[q[i]] \in S
    <3>1. CASE i = Len(q)
      <4>1. nxt[q[i]] = q[1]
        BY <1>3, <3>1 DEF RingOf
      <4> QED BY <2>1, <4>1
    <3>2. CASE i # Len(q)
      <4>1. i + 1 \in 1..Len(q) /\ i + 1 # 1 /\ (i + 1) - 1 = i
        BY <1>1, <2>2, <3>2
      <4>2. q[i + 1] = nxt[q[i]] /\ w[i + 1] = nxt[w[i]] /\ w[i] = q[i]
        BY <1>2, <2>2, <4>1 DEF RingOf
      <4>3. i + 1 \in Agree
        BY <4>1, <4>2
      <4> QED BY <4>2, <4>3
    <3> QED BY <3>1, <3>2
  <2>3. S \in SUBSET R /\ S # {}
    BY <1>1, <2>1
  <2>4. S = R
    <3>1. \A f \in S : nxt[f] \in S
      BY <2>2
    <3> HIDE DEF S
    <3> QED BY <2>3, <3>1
  <2>5. ASSUME NEW i \in 1..Len(q) PROVE w[i] = q[i]
    <3>1. q[i] \in S
      BY <1>1, <2>4
    <3>2. PICK k \in Agree : q[i] = q[k]
      BY <3>1
    <3>3. i = k
      BY <3>2 DEF RingOf
    <3> QED BY <3>2, <3>3
  <2> QED BY <1>1, <2>5
<1>4. CASE Len(q) = 0
  <2>1. 1..Len(q) = {}
    BY <1>4
  <2> QED BY <1>1, <2>1
<1> QED BY <1>3, <1>4

LEMMA WalkIs ==
    ASSUME OneRing, NEW q, RingOf(q, running, next, First), Len(q) = Cardinality(running)
    PROVE  Walk = q
<1> DEFINE step(w) == [i \in 1..Cardinality(running) |-> IF i = 1 THEN First ELSE next[w[i - 1]]]
<1>1. q = step(q)
  BY DEF RingOf
<1>2. Walk = step(Walk)
  BY <1>1, Zenon DEF Walk
<1> QED BY <1>2, WalkUnique DEF OneRing

LEMMA WalkIsNext ==
    ASSUME OneRing', NEW q, RingOf(q, running', next', First'), Len(q) = Cardinality(running')
    PROVE  Walk' = q
<1> DEFINE step(w) == [i \in 1..Cardinality(running') |-> IF i = 1 THEN First' ELSE next'[w[i - 1]]]
<1>1. q = step(q)
  BY DEF RingOf
<1>2. Walk' = step(Walk')
  BY <1>1, Zenon DEF Walk
<1> QED BY <1>2, WalkUnique DEF OneRing

(* The first task goes to the end *)
LEMMA RingRotates ==
    ASSUME NEW R, NEW nxt, NEW first, NEW q, RingOf(q, R, nxt, first), Len(q) # 0
    PROVE  RingOf(Append(Tail(q), Head(q)), R, nxt, nxt[first])
<1> DEFINE p == Append(Tail(q), Head(q))
           n == Len(q)
<1>1. n \in Nat \ {0} /\ q \in [1..n -> R] /\ q[1] = first /\ q # << >>
  BY DEF RingOf
<1>2. /\ Tail(q) \in Seq(R) /\ Len(Tail(q)) = n - 1 /\ Head(q) = q[1] /\ Head(q) \in R
      /\ \A i \in 1..n - 1 : Tail(q)[i] = q[i + 1]
  BY <1>1, HeadTailProperties DEF RingOf
<1>3. /\ Len(p) = n /\ p \in Seq(R) /\ p[n] = q[1]
      /\ \A i \in 1..n - 1 : p[i] = q[i + 1]
  BY <1>1, <1>2, AppendProperties
<1>4. ASSUME NEW i \in 1..n, NEW j \in 1..n, p[i] = p[j] PROVE i = j
  <2> DEFINE at(k) == IF k = n THEN 1 ELSE k + 1
  <2>0. n \in Nat \ {0}
    BY <1>1
  <2>1. \A k \in 1..n : at(k) \in 1..n /\ (k # n => k \in 1..n - 1)
    <3> HIDE DEF n
    <3> QED BY <2>0
  <2>2. \A k \in 1..n : p[k] = q[at(k)]
    <3> HIDE DEF n, p
    <3> QED BY <1>3, <2>1
  <2>3. at(i) = at(j)
    <3>1. at(i) \in 1..Len(q) /\ at(j) \in 1..Len(q) /\ q[at(i)] = q[at(j)]
      BY <1>4, <2>1, <2>2
    <3> HIDE DEF at
    <3> QED BY <3>1 DEF RingOf
  <2> HIDE DEF n
  <2> QED BY <2>0, <2>3
<1>5. ASSUME NEW i \in 1..n, i + 1 \in 1..n PROVE p[i + 1] = nxt[p[i]]
  <2>1. i + 1 \in 1..n /\ p[i] = q[i + 1]
    BY <1>1, <1>3, <1>5
  <2>2. CASE i + 1 = n
    BY <1>1, <1>3, <2>1, <2>2 DEF RingOf
  <2>3. CASE i + 1 # n
    <3>1. i + 1 \in 1..n - 1 /\ (i + 1) + 1 \in 1..n
      <4>1. n \in Nat \ {0}
        BY <1>1
      <4> HIDE DEF n
      <4> QED BY <2>1, <2>3, <4>1
    <3>2. p[i + 1] = q[(i + 1) + 1] /\ q[(i + 1) + 1] = nxt[q[i + 1]]
      BY <1>3, <2>1, <3>1 DEF RingOf
    <3> QED BY <2>1, <3>2
  <2> QED BY <2>2, <2>3
<1>6. p[1] = nxt[first] /\ nxt[p[n]] = nxt[first]
  <2>1. CASE n = 1
    BY <1>1, <1>3, <2>1 DEF RingOf
  <2>2. CASE n # 1
    <3>1. 1 \in 1..n - 1 /\ 1 \in 1..n /\ 1 + 1 \in 1..n
      BY <1>1, <2>2
    <3>2. p[1] = q[1 + 1] /\ q[1 + 1] = nxt[q[1]]
      BY <1>3, <3>1 DEF RingOf
    <3> QED BY <1>1, <1>3, <3>2
  <2> QED BY <2>1, <2>2
<1>7. n = Len(p)
  BY <1>3
<1> HIDE DEF p, n
<1>8. \A i, j \in 1..Len(p) : p[i] = p[j] => i = j
  BY <1>4, <1>7
<1>9. \A i \in 1..Len(p) : i + 1 \in 1..Len(p) => p[i + 1] = nxt[p[i]]
  BY <1>5, <1>7
<1>10. RingOf(p, R, nxt, nxt[first])
  BY <1>3, <1>6, <1>7, <1>8, <1>9 DEF RingOf
<1> QED BY <1>10 DEF p

(* A new task comes after the last *)
LEMMA RingGrows ==
    ASSUME NEW R, NEW nxt, NEW first, NEW q, RingOf(q, R, nxt, first), Len(q) # 0,
           NEW f, f \notin R, NEW nxt2, nxt2[f] = first, nxt2[q[Len(q)]] = f,
           \A g \in R \ {q[Len(q)]} : nxt2[g] = nxt[g]
    PROVE  RingOf(Append(q, f), R \cup {f}, nxt2, first)
<1> DEFINE p == Append(q, f)
           n == Len(q)
<1>1. n \in Nat \ {0} /\ q \in [1..n -> R] /\ q[1] = first
  BY DEF RingOf
<1>2. Len(p) = n + 1 /\ p \in Seq(R \cup {f})
  BY <1>1 DEF RingOf
<1>3. \A i \in 1..n + 1 : p[i] = IF i = n + 1 THEN f ELSE q[i]
  BY <1>1 DEF RingOf
<1>4. \A i, j \in 1..n + 1 : p[i] = p[j] => i = j
  BY <1>1, <1>3 DEF RingOf
<1>5. ASSUME NEW i \in 1..n + 1, i + 1 \in 1..n + 1 PROVE p[i + 1] = nxt2[p[i]]
  <2>1. CASE i = n
    BY <1>1, <1>3, <2>1
  <2>2. CASE i # n
    <3>1. i \in 1..n /\ i + 1 \in 1..n /\ q[i] # q[n] /\ q[i] \in R
      BY <1>1, <1>5, <2>2 DEF RingOf
    <3> QED BY <1>1, <1>3, <3>1 DEF RingOf
  <2> QED BY <2>1, <2>2
<1>6. p[1] = first /\ nxt2[p[n + 1]] = first
  BY <1>1, <1>3
<1> HIDE DEF p, n
<1>7. Len(p) = n + 1 /\ Len(p) # 0
  BY <1>1, <1>2
<1>8. \A i, j \in 1..Len(p) : p[i] = p[j] => i = j
  BY <1>4, <1>7
<1>9. \A i \in 1..Len(p) : i + 1 \in 1..Len(p) => p[i + 1] = nxt2[p[i]]
  BY <1>5, <1>7
<1>10. p[1] = first /\ nxt2[p[Len(p)]] = first
  BY <1>6, <1>7
<1> DEFINE T == R \cup {f}
<1>11. p \in Seq(T)
  BY <1>2
<1> HIDE DEF T
<1>12. RingOf(p, T, nxt2, first)
  BY <1>7, <1>8, <1>9, <1>10, <1>11 DEF RingOf
<1> QED BY <1>12 DEF p, T

(* The first task is taken out *)
LEMMA RingShrinks ==
    ASSUME NEW R, NEW nxt, NEW first, NEW q, RingOf(q, R, nxt, first), Len(q) # 0, Len(q) # 1,
           NEW nxt2, nxt2[q[Len(q)]] = nxt[first],
           \A g \in R \ {q[Len(q)], first} : nxt2[g] = nxt[g]
    PROVE  RingOf(Tail(q), R \ {first}, nxt2, nxt[first])
<1> DEFINE p == Tail(q)
           n == Len(q)
<1>1. n \in Nat \ {0, 1} /\ q \in [1..n -> R] /\ q[1] = first /\ q # << >>
  BY DEF RingOf
<1>2. \A i \in 2..n : q[i] # first /\ q[i] \in R
  <2>1. \A i \in 2..n : i \in 1..n /\ 1 \in 1..n /\ i # 1
    BY <1>1
  <2> QED BY <1>1, <2>1 DEF RingOf
<1>3. p \in Seq(R) /\ Len(p) = n - 1 /\ \A i \in 1..n - 1 : p[i] = q[i + 1]
  BY <1>1, HeadTailProperties DEF RingOf
<1>4. p \in Seq(R \ {first})
  <2>1. \A i \in 1..n - 1 : p[i] \in R \ {first}
    <3>1. \A i \in 1..n - 1 : i + 1 \in 2..n
      BY <1>1
    <3> QED BY <1>2, <1>3, <3>1
  <2>2. p \in [1..n - 1 -> R \ {first}] /\ n - 1 \in Nat
    <3>1. p = [i \in 1..n - 1 |-> p[i]] /\ n - 1 \in Nat
      <4>1. p \in [1..Len(p) -> R] /\ Len(p) = n - 1 /\ Len(p) \in Nat
        BY <1>3, LenProperties
      <4> HIDE DEF p, n
      <4> QED BY <4>1
    <3> QED BY <2>1, <3>1
  <2> HIDE DEF p, n
  <2> QED BY <2>2, SeqDef
<1>5. ASSUME NEW i \in 1..n - 1, NEW j \in 1..n - 1, p[i] = p[j] PROVE i = j
  <2>1. i + 1 \in 1..n /\ j + 1 \in 1..n /\ q[i + 1] = q[j + 1]
    BY <1>1, <1>3, <1>5
  <2>2. i + 1 = j + 1
    BY <2>1 DEF RingOf
  <2> QED BY <1>1, <2>2
<1>6. ASSUME NEW i \in 1..n - 1, i + 1 \in 1..n - 1 PROVE p[i + 1] = nxt2[p[i]]
  <2>1. /\ i + 1 \in 2..n /\ i + 1 # n /\ i + 1 \in 1..n /\ (i + 1) + 1 \in 1..n /\ n \in 1..n
    BY <1>1, <1>6
  <2>2. q[i + 1] # q[n]
    BY <2>1 DEF RingOf
  <2>3. q[i + 1] \in R \ {q[n], first}
    BY <1>2, <2>1, <2>2
  <2>4. q[(i + 1) + 1] = nxt[q[i + 1]]
    BY <2>1 DEF RingOf
  <2> QED BY <1>3, <1>6, <2>3, <2>4
<1>7. p[1] = nxt[first] /\ nxt2[p[n - 1]] = nxt[first]
  <2>1. 1 \in 1..n - 1 /\ n - 1 \in 1..n - 1 /\ (n - 1) + 1 = n /\ 1 \in 1..n /\ 1 + 1 \in 1..n
    BY <1>1
  <2>2. p[1] = q[1 + 1] /\ q[1 + 1] = nxt[q[1]] /\ p[n - 1] = q[n]
    BY <1>3, <2>1 DEF RingOf
  <2> QED BY <1>1, <2>2
<1>8. n - 1 = Len(p)
  BY <1>3
<1> HIDE DEF p, n
<1>9. \A i, j \in 1..Len(p) : p[i] = p[j] => i = j
  BY <1>5, <1>8
<1>10. \A i \in 1..Len(p) : i + 1 \in 1..Len(p) => p[i + 1] = nxt2[p[i]]
  BY <1>6, <1>8
<1>11. RingOf(p, R \ {first}, nxt2, nxt[first])
  BY <1>4, <1>7, <1>8, <1>9, <1>10 DEF RingOf
<1> QED BY <1>11 DEF p

(* Walk goes round the running tasks once *)
WalkOK ==
    /\ IsFiniteSet(running) /\ Cardinality(running) = Len(Walk)
    /\ RingOf(Walk, running, next, First)

(* The queue ends with the last task *)
LEMMA WalkEndsWithLast ==
    ASSUME IInv, WalkOK, last # NULL
    PROVE  /\ Len(Walk) # 0 /\ Walk[Len(Walk)] = last /\ First \in running
           /\ next[last] = First /\ Walk[1] = First /\ last \in running
<1>1. last \in running /\ next[last] = First /\ First \in running
  BY DEF IInv, ListClosed, First
<1>2. Len(Walk) # 0
  BY <1>1, FS_EmptySet DEF WalkOK
<1>3. Walk[Len(Walk)] \in running /\ next[Walk[Len(Walk)]] = First /\ Walk[1] = First
  BY <1>2 DEF WalkOK, RingOf
<1> QED BY <1>1, <1>2, <1>3 DEF IInv, ListClosed

LEMMA QueueStarts ==
    ASSUME IInv, IInv', WalkOK, NEW f \in Fibers, start(f)
    PROVE  WalkOK' /\ Queue!Start(f)
<1>1. /\ f \notin running /\ running' = running \cup {f} /\ current' = current
      /\ running \subseteq Fibers /\ next \in [Fibers -> Task]
  BY DEF start, add, isRunning, IInv, TypeOK
<1>2. IsFiniteSet(running') /\ Cardinality(running') = Len(Walk) + 1
  BY <1>1, FS_AddElement DEF WalkOK
<1>3. Walk \in Seq(running)
  BY DEF WalkOK, RingOf
<1>4. Len(Append(Walk, f)) = Len(Walk) + 1
  BY <1>3
<1>5. RingOf(Append(Walk, f), running', next', First')
  <2>1. CASE last = NULL
    <3>1. running = {} /\ current = NULL /\ last' = f /\ next' = [next EXCEPT ![f] = f]
      BY <1>1, <2>1 DEF start, add, IInv, ListClosed
    <3>2. next'[f] = f /\ First' = f
      BY <1>1, <3>1 DEF First
    <3>3. Walk = << >>
      BY <1>3, <3>1
    <3>4. Append(Walk, f) = <<f>> /\ running' = {f}
      BY <1>1, <3>1, <3>3
    <3> QED BY <3>2, <3>4 DEF RingOf
  <2>2. CASE last # NULL
    <3>1. /\ last' = f /\ last # f /\ last \in Fibers
          /\ next' = [next EXCEPT ![f] = next[last], ![last] = f]
      BY <1>1, <2>2, WalkEndsWithLast DEF start, add, runLast
    <3>2. /\ next'[f] = next[last] /\ next'[last] = f
          /\ \A g \in Fibers \ {f, last} : next'[g] = next[g]
      BY <1>1, <3>1
    <3>3. First' = First /\ next[last] = First
      BY <1>1, <2>2, <3>1, <3>2, WalkEndsWithLast DEF First
    <3>4. Len(Walk) # 0 /\ Walk[Len(Walk)] = last
      BY <2>2, WalkEndsWithLast
    <3>5. RingOf(Append(Walk, f), running \cup {f}, next', First)
      BY <1>1, <3>2, <3>3, <3>4, RingGrows DEF WalkOK
    <3> QED BY <1>1, <3>3, <3>5
  <2> QED BY <2>1, <2>2
<1>6. Walk' = Append(Walk, f)
  BY <1>2, <1>4, <1>5, WalkIsNext DEF IInv, ListClosed
<1>7. ~Queue!Contains(Walk, f)
  BY <1>1, <1>3 DEF Queue!Contains
<1> QED BY <1>1, <1>2, <1>4, <1>5, <1>6, <1>7 DEF WalkOK, Queue!Start

LEMMA QueueRuns ==
    ASSUME IInv, IInv', WalkOK, run
    PROVE  WalkOK' /\ Queue!Run
<1>1. /\ current = NULL /\ last # NULL /\ current' = next[last]
      /\ UNCHANGED <<next, running, last>>
  BY DEF run
<1>2. Len(Walk) # 0 /\ next[last] = First /\ First \in running
  BY <1>1, WalkEndsWithLast
<1>3. First' = First /\ current' # NULL
  BY <1>1, <1>2, FibersAssumption DEF First, IInv, TypeOK
<1>4. Walk' = Walk
  BY <1>1, <1>3, WalkIsNext DEF WalkOK, IInv, ListClosed
<1> QED BY <1>1, <1>2, <1>3, <1>4 DEF WalkOK, Queue!Run

LEMMA QueueYields ==
    ASSUME IInv, IInv', WalkOK, current # NULL, yield
    PROVE  WalkOK' /\ Queue!Yield
<1>1. current' = next[current] /\ UNCHANGED <<next, running>>
  BY DEF yield, jump
<1>2. current \in running /\ next[current] \in running /\ last # NULL
  BY DEF IInv, ListClosed
<1>3. First = current /\ First' = next[First] /\ current' # NULL
  BY <1>1, <1>2, FibersAssumption DEF First, IInv, TypeOK
<1>4. Len(Walk) # 0
  BY <1>2, WalkEndsWithLast
<1> DEFINE q == Append(Tail(Walk), Head(Walk))
<1>5. RingOf(q, running', next', First')
  BY <1>1, <1>3, <1>4, RingRotates DEF WalkOK
<1>6. Len(q) = Len(Walk)
  BY <1>4 DEF WalkOK, RingOf
<1>7. Walk' = q
  BY <1>1, <1>5, <1>6, WalkIsNext DEF WalkOK, IInv, ListClosed
<1> QED BY <1>1, <1>3, <1>5, <1>6, <1>7 DEF WalkOK, Queue!Yield

LEMMA QueueReturns ==
    ASSUME IInv, IInv', WalkOK, Return
    PROVE  WalkOK' /\ Queue!Return
<1>1. /\ current \in running /\ last \in running /\ next[current] \in running
      /\ next[last] = current /\ running \subseteq Fibers /\ current # NULL /\ last # NULL
      /\ next \in [Fibers -> Task]
  BY FibersAssumption DEF Return, IInv, ListClosed, TypeOK
<1>2. running' = running \ {current}
  BY DEF Return, removeCurrent
<1>3. First = current /\ Len(Walk) # 0 /\ Walk[Len(Walk)] = last /\ Walk[1] = current
  BY <1>1, WalkEndsWithLast DEF First
<1>4. Walk \in Seq(running)
  BY DEF WalkOK, RingOf
<1>5. /\ IsFiniteSet(running') /\ Cardinality(running') = Len(Walk) - 1
  BY <1>1, <1>2, FS_RemoveElement DEF WalkOK
<1>6. Len(Tail(Walk)) = Len(Walk) - 1
  BY <1>3, <1>4
<1>7. (Len(Walk) = 1) <=> (current = last)
  BY <1>3, <1>4 DEF WalkOK, RingOf
<1>8. RingOf(Tail(Walk), running', next', First') /\ ((current' # NULL) <=> (Tail(Walk) # << >>))
  <2>1. CASE current = last
    <3>1. Len(Tail(Walk)) = 0 /\ Tail(Walk) \in Seq(running)
      <4>1. Len(Tail(Walk)) = 0
        BY <1>6, <1>7, <2>1
      <4>2. Walk # << >>
        BY <1>3, EmptySeq
      <4> QED BY <1>4, <4>1, <4>2, HeadTailProperties
    <3>2. Tail(Walk) = << >>
      BY <3>1, EmptySeq
    <3>3. current' = NULL
      BY <2>1 DEF Return, removeCurrent
    <3>4. << >> \in Seq(running') /\ Len(<< >>) = 0
      OBVIOUS
    <3>5. RingOf(<< >>, running', next', First')
      BY <3>4 DEF RingOf
    <3> QED BY <3>2, <3>3, <3>5
  <2>2. CASE current # last
    <3>1. /\ current' = next[current]
          /\ next' = [next EXCEPT ![last] = next[current], ![current] = NULL]
      BY <1>1, <2>2 DEF Return, removeCurrent, jump
    <3>2. /\ next'[last] = next[current]
          /\ \A g \in Fibers \ {last, current} : next'[g] = next[g]
      BY <1>1, <2>2, <3>1
    <3>3. First' = next[current] /\ current' # NULL
      BY <1>1, <3>1, FibersAssumption DEF First
    <3>4. RingOf(Tail(Walk), running \ {current}, next', next[current])
      BY <1>1, <1>3, <1>7, <2>2, <3>2, RingShrinks DEF WalkOK
    <3>5. Tail(Walk) # << >>
      BY <1>3, <1>4, <1>6, <1>7, <2>2
    <3> QED BY <1>2, <3>3, <3>4, <3>5
  <2> QED BY <2>1, <2>2
<1>9. Walk' = Tail(Walk)
  BY <1>5, <1>6, <1>8, WalkIsNext DEF IInv, ListClosed
<1> QED BY <1>1, <1>5, <1>6, <1>8, <1>9 DEF WalkOK, Queue!Return

(* What does not touch the list leaves the queue *)
LEMMA QueueStays ==
    ASSUME IInv, IInv', WalkOK, UNCHANGED <<next, running, last, current>>
    PROVE  WalkOK' /\ UNCHANGED Queue!vars
<1>1. First' = First
  BY DEF First
<1>2. Walk' = Walk
  BY <1>1, WalkIsNext DEF WalkOK, IInv, ListClosed
<1> QED BY <1>1, <1>2 DEF WalkOK, Queue!vars

LEMMA QueueInit == Init => WalkOK /\ Queue!Init
<1> SUFFICES ASSUME Init PROVE WalkOK /\ Queue!Init
  OBVIOUS
<1>1. running = {} /\ current = NULL /\ last = NULL
  BY DEF Init
<1>2. IsFiniteSet(running) /\ Cardinality(running) = 0
  BY <1>1, FS_EmptySet
<1>3. RingOf(<< >>, running, next, First)
  BY <1>1 DEF RingOf
<1>4. Walk = << >>
  BY <1>1, <1>2, <1>3, WalkIs DEF OneRing
<1> QED BY <1>1, <1>2, <1>3, <1>4 DEF WalkOK, Queue!Init

LEMMA QueueNext ==
    IInv /\ IInv' /\ WalkOK /\ [Next]_schedVars => WalkOK' /\ [Queue!Next]_Queue!vars
<1> SUFFICES ASSUME IInv, IInv', WalkOK, [Next]_schedVars
             PROVE  WalkOK' /\ [Queue!Next]_Queue!vars
  OBVIOUS
<1>1. ASSUME NEW f \in Fibers, start(f) PROVE WalkOK' /\ [Queue!Next]_Queue!vars
  BY <1>1, QueueStarts DEF Queue!Next
<1>2. CASE run
  BY <1>2, QueueRuns DEF Queue!Next
<1>3. CASE Yield \/ JoinYields
  BY <1>3, QueueYields DEF Yield, JoinYields, Joining, Queue!Next
<1>4. CASE Return
  BY <1>4, QueueReturns DEF Queue!Next
<1>5. CASE (\E f \in Fibers : Join(f)) \/ JoinReturns \/ UNCHANGED schedVars
  BY <1>5, QueueStays DEF Join, JoinReturns, schedVars
<1> QED BY <1>1, <1>2, <1>3, <1>4, <1>5 DEF Next, Switch

(* The safety half of ImplementsRoundRobin: with the circular list read as *)
(* a queue, every step of the scheduler starts a fiber at the end of the    *)
(* queue, rotates it, drops its head, or leaves it alone.                    *)
THEOREM RunsInTurns == Spec => Queue!Init /\ [][Queue!Next]_Queue!vars
<1>1. Init => WalkOK /\ Queue!Init
  BY QueueInit
<1>2. IInv /\ IInv' /\ WalkOK /\ [Next]_schedVars => WalkOK' /\ [Queue!Next]_Queue!vars
  BY QueueNext
<1> QED BY <1>1, <1>2, Inductive, PTL DEF Spec
=============================================================================
