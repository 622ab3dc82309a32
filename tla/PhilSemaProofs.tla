--------------------------- MODULE PhilSemaProofs ---------------------------
(***************************************************************************)
(* Neighbours never eat at the same time, for every number of philosophers *)
(* and meals.                                                              *)
(***************************************************************************)
EXTENDS PhilSema, SeqLemmas

(* Who waits where.  Mutex is asked for on the way to "hungry" and "put", the
   private semaphore on the way to "eat", by its owner only. *)
Waiting(i) ==
    \/ pc[i] \in {"hungry", "put"} /\ i \in ToSet(queue[Mutex]) /\ queue[i] = <<>>
    \/ pc[i] = "eat" /\ i \notin ToSet(queue[Mutex]) /\ queue[i] = <<i>>

Queues ==
    /\ IsInjective(queue[Mutex])
    /\ \A i \in Phils :
         /\ blocked[i] => Waiting(i)
         /\ ~blocked[i] => i \notin ToSet(queue[Mutex]) /\ queue[i] = <<>>
    /\ \A s \in Phils \cup {Mutex} : value[s] > 0 => queue[s] = <<>>

(* The mutex is held by at most one philosopher, and free if it is held by none. *)
Holder ==
    /\ \A i, j \in Phils : InSection(i) /\ InSection(j) => i = j
    /\ value[Mutex] > 0 => \A i \in Phils : ~InSection(i)

(* Where a philosopher in each state is, and whether it has been granted the forks
   without having noticed (value[i] = 1). *)
Place(i) ==
    \/ /\ state_sema[i] = "THINKING" /\ value[i] = 0
       /\ pc[i] \in {"loop", "take", "hungry", "testL", "grantL", "testR", "grantR", "done", "quit"}
    \/ /\ state_sema[i] = "HUNGRY" /\ value[i] = 0
       /\ (pc[i] \in {"test", "grant", "taken", "wait"} \/ (pc[i] = "eat" /\ blocked[i]))
    \/ /\ state_sema[i] = "EATING" /\ value[i] = 1
       /\ pc[i] \in {"taken", "wait"}
    \/ /\ state_sema[i] = "EATING" /\ value[i] = 0
       /\ Eating(i)

(* What phi_test_sema has seen is still true when it acts on it. *)
Granting ==
    \A i \in Phils :
        /\ pc[i] = "grant" => MayEat(i)
        /\ pc[i] = "grantL" => MayEat(LEFT(i))
        /\ pc[i] = "grantR" => MayEat(RIGHT(i))

Apart == \A i \in Phils : ~(state_sema[i] = "EATING" /\ state_sema[RIGHT(i)] = "EATING")

PhilInv ==
    /\ TypeOK
    /\ Queues
    /\ Holder
    /\ \A i \in Phils : Place(i)
    /\ Granting
    /\ Apart

-----------------------------------------------------------------------------
(* LEFT and RIGHT are inverse to each other. *)
LEMMA Ring ==
    ASSUME NEW i \in Phils
    PROVE  /\ LEFT(i) \in Phils /\ RIGHT(i) \in Phils
           /\ LEFT(RIGHT(i)) = i /\ RIGHT(LEFT(i)) = i
           /\ LEFT(i) # i /\ RIGHT(i) # i
<1>1. N \in Nat /\ N >= 3 /\ i \in 0..(N - 1)
  BY PhilAssumption DEF Phils
<1>2. RIGHT(i) = IF i = N - 1 THEN 0 ELSE i + 1
  BY <1>1 DEF RIGHT
<1>3. LEFT(i) = IF i = 0 THEN N - 1 ELSE i - 1
  BY <1>1 DEF LEFT
<1> QED BY <1>1, <1>2, <1>3 DEF LEFT, RIGHT, Phils

Sems == Phils \cup {Mutex}

SemsOK == SemTypeOK /\ \A s \in DOMAIN value : value[s] <= 1

LEMMA MutexApart == \A i \in Phils : i # Mutex
BY PhilAssumption DEF Phils

-----------------------------------------------------------------------------
(* The four uses of the semaphores. *)

LEMMA DownMutex ==
    ASSUME TypeOK, Queues, NEW i \in Phils, ~blocked[i], NEW there \in {"hungry", "put"},
           pc' = [pc EXCEPT ![i] = there], down(i, Mutex)
    PROVE  /\ SemsOK' /\ Queues'
           /\ \A k \in Phils : value'[k] = value[k]
           /\ \/ value[Mutex] = 1 /\ value'[Mutex] = 0 /\ blocked' = blocked
              \/ value[Mutex] = 0 /\ value'[Mutex] = 0 /\ blocked' = [blocked EXCEPT ![i] = TRUE]
<1>0. /\ value \in [Sems -> Nat] /\ queue \in [Sems -> Seq(Phils)] /\ blocked \in [Phils -> BOOLEAN]
      /\ pc \in [Phils -> Points] /\ \A s \in Sems : value[s] <= 1
      /\ Mutex \in Sems /\ Mutex \notin Phils
  BY MutexApart DEF TypeOK, SemTypeOK, Sems
<1>1. CASE value[Mutex] > 0
  <2>1. /\ value' = [value EXCEPT ![Mutex] = @ - 1] /\ queue' = queue /\ blocked' = blocked
    BY <1>0, <1>1 DEF down
  <2>2. value[Mutex] = 1 /\ value'[Mutex] = 0 /\ \A k \in Phils : value'[k] = value[k]
    BY <1>0, <1>1, <2>1
  <2>3. SemsOK'
    BY <1>0, <2>1, <2>2 DEF SemsOK, SemTypeOK, Sems
  <2>4. Queues'
    BY <1>0, <2>1, <2>2 DEF Queues, Waiting
  <2> QED BY <2>1, <2>2, <2>3, <2>4
<1>2. CASE value[Mutex] = 0
  <2>1. /\ queue' = [queue EXCEPT ![Mutex] = Append(@, i)]
        /\ blocked' = [blocked EXCEPT ![i] = TRUE] /\ value' = value
    BY <1>2 DEF down
  <2> DEFINE q == queue[Mutex]
             one == <<i>>
  <2>2. q \in Seq(Phils) /\ IsInjective(q) /\ i \notin ToSet(q) /\ queue[i] = <<>>
    BY <1>0 DEF Queues
  <2>3. one \in Seq(Phils) /\ ToSet(one) = {i} /\ IsInjective(one)
    BY OneElement
  <2>4. queue'[Mutex] = q \o one /\ \A k \in Phils : queue'[k] = queue[k]
    BY <1>0, <2>1, <2>2, AppendIsConcat
  <2> HIDE DEF q, one
  <2>5. q \o one \in Seq(Phils) /\ ToSet(q \o one) = ToSet(q) \cup {i} /\ IsInjective(q \o one)
    BY <2>2, <2>3, ConcatSet, ConcatNoDup
  <2>6. SemsOK'
    BY <1>0, <2>1, <2>4, <2>5 DEF SemsOK, SemTypeOK, Sems
  <2>7. \A k \in Phils : k \in ToSet(queue'[Mutex]) <=> k = i \/ k \in ToSet(queue[Mutex])
    BY <2>4, <2>5 DEF q
  <2>8. ASSUME NEW k \in Phils
        PROVE  /\ blocked'[k] => Waiting(k)'
               /\ ~blocked'[k] => k \notin ToSet(queue'[Mutex]) /\ queue'[k] = <<>>
    <3>1. CASE k = i
      BY <1>0, <2>1, <2>2, <2>4, <2>7, <3>1, SMTT(30) DEF Waiting
    <3>2. CASE k # i
      BY <1>0, <2>1, <2>4, <2>7, <3>2, SMTT(30) DEF Queues, Waiting
    <3> QED BY <3>1, <3>2
  <2>9. \A s \in Sems : value'[s] > 0 => queue'[s] = <<>>
    BY <1>2, <2>1, <2>4 DEF Queues, Sems
  <2>10. IsInjective(queue'[Mutex])
    BY <2>4, <2>5
  <2>11. Queues'
    BY <2>8, <2>9, <2>10 DEF Queues, Sems
  <2> QED BY <1>2, <2>1, <2>6, <2>11
<1> QED BY <1>0, <1>1, <1>2

LEMMA UpMutex ==
    ASSUME TypeOK, Queues, NEW i \in Phils, ~blocked[i], value[Mutex] = 0,
           NEW there \in {"wait", "loop"}, pc' = [pc EXCEPT ![i] = there], up(Mutex)
    PROVE  /\ SemsOK' /\ Queues'
           /\ \A k \in Phils : value'[k] = value[k]
           /\ \/ value'[Mutex] = 1 /\ blocked' = blocked
              \/ /\ value'[Mutex] = 0
                 /\ \E h \in Phils : /\ blocked[h] /\ pc[h] \in {"hungry", "put"}
                                     /\ blocked' = [blocked EXCEPT ![h] = FALSE]
<1>0. /\ value \in [Sems -> Nat] /\ queue \in [Sems -> Seq(Phils)] /\ blocked \in [Phils -> BOOLEAN]
      /\ pc \in [Phils -> Points] /\ \A s \in Sems : value[s] <= 1
      /\ Mutex \in Sems /\ Mutex \notin Phils
  BY MutexApart DEF TypeOK, SemTypeOK, Sems
<1>1. CASE queue[Mutex] = <<>>
  <2>1. value' = [value EXCEPT ![Mutex] = @ + 1] /\ queue' = queue /\ blocked' = blocked
    BY <1>1 DEF up
  <2>2. value'[Mutex] = 1 /\ \A k \in Phils : value'[k] = value[k]
    BY <1>0, <2>1
  <2>3. SemsOK'
    BY <1>0, <2>1, <2>2 DEF SemsOK, SemTypeOK, Sems
  <2>4. Queues'
    BY <1>0, <1>1, <2>1, <2>2, SMTT(30) DEF Queues, Waiting
  <2> QED BY <2>1, <2>2, <2>3, <2>4
<1>2. CASE queue[Mutex] # <<>>
  <2> DEFINE q == queue[Mutex]
             h == Head(queue[Mutex])
  <2>1. /\ queue' = [queue EXCEPT ![Mutex] = Tail(q)]
        /\ blocked' = [blocked EXCEPT ![h] = FALSE] /\ value' = value
    BY <1>2 DEF up
  <2>2. q \in Seq(Phils) /\ IsInjective(q) /\ q # <<>>
    BY <1>0, <1>2 DEF Queues
  <2>3. /\ h \in Phils /\ h \in ToSet(q) /\ Tail(q) \in Seq(Phils) /\ IsInjective(Tail(q))
        /\ ToSet(Tail(q)) = ToSet(q) \ {h}
    BY <2>2, TailSet
  <2>4. queue'[Mutex] = Tail(q) /\ \A k \in Phils : queue'[k] = queue[k]
    BY <1>0, <2>1
  <2>5. \A k \in Phils : k \in ToSet(queue'[Mutex]) <=> k # h /\ k \in ToSet(q)
    BY <2>3, <2>4
  <2>6. blocked[h] /\ pc[h] \in {"hungry", "put"} /\ queue[h] = <<>> /\ h # i
    BY <1>0, <2>3 DEF Queues, Waiting
  <2> HIDE DEF h
  <2>7. ASSUME NEW k \in Phils
        PROVE  /\ blocked'[k] => Waiting(k)'
               /\ ~blocked'[k] => k \notin ToSet(queue'[Mutex]) /\ queue'[k] = <<>>
    <3>1. CASE k = h
      BY <1>0, <2>1, <2>3, <2>4, <2>5, <2>6, <3>1, SMTT(30)
    <3>2. CASE k # h
      BY <1>0, <2>1, <2>3, <2>4, <2>5, <3>2, SMTT(30) DEF Queues, Waiting
    <3> QED BY <3>1, <3>2
  <2>8. \A s \in Sems : value'[s] > 0 => queue'[s] = <<>>
    BY <2>1, <2>4 DEF Queues, Sems
  <2>9. Queues'
    BY <2>3, <2>4, <2>7, <2>8, SMTT(30) DEF Queues, Sems
  <2>10. SemsOK'
    BY <1>0, <2>1, <2>3, <2>4 DEF SemsOK, SemTypeOK, Sems
  <2> QED BY <2>1, <2>3, <2>6, <2>9, <2>10, Zenon
<1> QED BY <1>1, <1>2

LEMMA DownOwn ==
    ASSUME TypeOK, Queues, NEW i \in Phils, ~blocked[i],
           pc' = [pc EXCEPT ![i] = "eat"], down(i, i)
    PROVE  /\ SemsOK' /\ Queues'
           /\ \A s \in Sems \ {i} : value'[s] = value[s]
           /\ \/ value[i] = 1 /\ value'[i] = 0 /\ blocked' = blocked
              \/ value[i] = 0 /\ value'[i] = 0 /\ blocked' = [blocked EXCEPT ![i] = TRUE]
<1>0. /\ value \in [Sems -> Nat] /\ queue \in [Sems -> Seq(Phils)] /\ blocked \in [Phils -> BOOLEAN]
      /\ pc \in [Phils -> Points] /\ \A s \in Sems : value[s] <= 1
      /\ Mutex \in Sems /\ Mutex \notin Phils /\ i \in Sems
  BY MutexApart DEF TypeOK, SemTypeOK, Sems
<1>1. CASE value[i] > 0
  <2>1. value' = [value EXCEPT ![i] = @ - 1] /\ queue' = queue /\ blocked' = blocked
    BY <1>0, <1>1 DEF down
  <2>2. value[i] = 1 /\ value'[i] = 0 /\ \A s \in Sems \ {i} : value'[s] = value[s]
    BY <1>0, <1>1, <2>1
  <2>3. SemsOK'
    BY <1>0, <2>1, <2>2 DEF SemsOK, SemTypeOK, Sems
  <2>4. Queues'
    BY <1>0, <2>1, <2>2 DEF Queues, Waiting, Sems
  <2> QED BY <2>1, <2>2, <2>3, <2>4
<1>2. CASE value[i] = 0
  <2>1. /\ queue' = [queue EXCEPT ![i] = Append(@, i)]
        /\ blocked' = [blocked EXCEPT ![i] = TRUE] /\ value' = value
    BY <1>2 DEF down
  <2>2. queue[i] = <<>> /\ i \notin ToSet(queue[Mutex])
    BY DEF Queues
  <2>3. queue'[i] = <<i>> /\ \A s \in Sems \ {i} : queue'[s] = queue[s]
    BY <1>0, <2>1, <2>2
  <2>4. <<i>> \in Seq(Phils)
    BY OneElement
  <2>5. SemsOK'
    BY <1>0, <2>1, <2>3, <2>4 DEF SemsOK, SemTypeOK, Sems
  <2>6. ASSUME NEW k \in Phils
        PROVE  /\ blocked'[k] => Waiting(k)'
               /\ ~blocked'[k] => k \notin ToSet(queue'[Mutex]) /\ queue'[k] = <<>>
    <3>1. CASE k = i
      BY <1>0, <2>1, <2>2, <2>3, <3>1, SMTT(30) DEF Waiting
    <3>2. CASE k # i
      BY <1>0, <2>1, <2>3, <3>2, SMTT(30) DEF Queues, Waiting, Sems
    <3> QED BY <3>1, <3>2
  <2>7. \A s \in Sems : value'[s] > 0 => queue'[s] = <<>>
    BY <1>2, <2>1, <2>3 DEF Queues, Sems
  <2>8. Queues'
    BY <1>0, <2>3, <2>6, <2>7, Zenon DEF Queues, Sems
  <2> QED BY <1>2, <2>1, <2>5, <2>8
<1> QED BY <1>0, <1>1, <1>2

LEMMA UpOwn ==
    ASSUME TypeOK, Queues, NEW i \in Phils, ~blocked[i], NEW j \in Phils, value[j] = 0,
           NEW there \in Points, pc' = [pc EXCEPT ![i] = there], up(j)
    PROVE  /\ SemsOK' /\ Queues'
           /\ \A s \in Sems \ {j} : value'[s] = value[s]
           /\ \/ value'[j] = 1 /\ blocked' = blocked /\ ~(blocked[j] /\ pc[j] = "eat")
              \/ /\ value'[j] = 0 /\ blocked[j] /\ pc[j] = "eat"
                 /\ blocked' = [blocked EXCEPT ![j] = FALSE]
<1>0. /\ value \in [Sems -> Nat] /\ queue \in [Sems -> Seq(Phils)] /\ blocked \in [Phils -> BOOLEAN]
      /\ pc \in [Phils -> Points] /\ \A s \in Sems : value[s] <= 1
      /\ Mutex \in Sems /\ Mutex \notin Phils /\ j \in Sems
  BY MutexApart DEF TypeOK, SemTypeOK, Sems
<1>1. CASE queue[j] = <<>>
  <2>1. value' = [value EXCEPT ![j] = @ + 1] /\ queue' = queue /\ blocked' = blocked
    BY <1>1 DEF up
  <2>2. value'[j] = 1 /\ \A s \in Sems \ {j} : value'[s] = value[s]
    BY <1>0, <2>1
  <2>3. ~(blocked[j] /\ pc[j] = "eat")
    BY <1>1 DEF Queues, Waiting
  <2>4. SemsOK'
    BY <1>0, <2>1, <2>2 DEF SemsOK, SemTypeOK, Sems
  <2>5. Queues'
    BY <1>0, <1>1, <2>1, <2>2 DEF Queues, Waiting, Sems
  <2> QED BY <2>1, <2>2, <2>3, <2>4, <2>5, SMTT(30)
<1>2. CASE queue[j] # <<>>
  <2>1. /\ blocked[j] /\ pc[j] = "eat" /\ queue[j] = <<j>> /\ j \notin ToSet(queue[Mutex]) /\ j # i
    BY <1>2 DEF Queues, Waiting
  <2>2. Head(queue[j]) = j /\ Tail(queue[j]) = <<>>
    BY <2>1
  <2>3. /\ queue' = [queue EXCEPT ![j] = <<>>]
        /\ blocked' = [blocked EXCEPT ![j] = FALSE] /\ value' = value
    BY <1>2, <2>2, Zenon DEF up
  <2>4. queue'[j] = <<>> /\ \A s \in Sems \ {j} : queue'[s] = queue[s]
    BY <1>0, <2>3
  <2>5. SemsOK'
    BY <1>0, <2>3, <2>4, EmptySeq DEF SemsOK, SemTypeOK, Sems
  <2>6. ASSUME NEW k \in Phils
        PROVE  /\ blocked'[k] => Waiting(k)'
               /\ ~blocked'[k] => k \notin ToSet(queue'[Mutex]) /\ queue'[k] = <<>>
    <3>1. CASE k = j
      BY <1>0, <2>1, <2>3, <2>4, <3>1, SMTT(30)
    <3>2. CASE k # j
      BY <1>0, <2>3, <2>4, <3>2, SMTT(30) DEF Queues, Waiting, Sems
    <3> QED BY <3>1, <3>2
  <2>7. \A s \in Sems : value'[s] > 0 => queue'[s] = <<>>
    BY <2>3, <2>4 DEF Queues, Sems
  <2>8. Queues'
    BY <1>0, <2>4, <2>6, <2>7, Zenon DEF Queues, Sems
  <2> QED BY <2>1, <2>3, <2>5, <2>8, SMTT(30)
<1> QED BY <1>1, <1>2

-----------------------------------------------------------------------------
(* One lemma per kind of step of philosopher i. *)

Grants == {"grant", "grantL", "grantR"}

(* A philosopher that is about to grant holds the mutex. *)
LEMMA GrantInSection ==
    ASSUME PhilInv, NEW k \in Phils, pc[k] \in Grants
    PROVE  InSection(k)
BY DEF PhilInv, Queues, Waiting, InSection, Grants

(* A step that leaves the states alone and does not begin a grant. *)
LEMMA SameStates ==
    ASSUME PhilInv, NEW i \in Phils, NEW there \in Points \ Grants,
           pc' = [pc EXCEPT ![i] = there], state_sema' = state_sema
    PROVE  Granting' /\ Apart'
<1>1. pc \in [Phils -> Points]
  BY DEF PhilInv, TypeOK
<1>2. \A k \in Phils : pc'[k] \in Grants => pc'[k] = pc[k]
  BY <1>1
<1>3. Granting'
  BY <1>2 DEF PhilInv, Granting, MayEat, Grants
<1> QED BY <1>3 DEF PhilInv, Apart

(* A step of the holder of the mutex that leaves no one about to grant. *)
LEMMA NoGrant ==
    ASSUME PhilInv, NEW i \in Phils, InSection(i), NEW there \in Points \ Grants,
           pc' = [pc EXCEPT ![i] = there]
    PROVE  Granting'
<1>1. pc \in [Phils -> Points]
  BY DEF PhilInv, TypeOK
<1>2. ASSUME NEW k \in Phils PROVE pc'[k] \notin Grants
  <2>1. CASE k = i
    BY <1>1, <2>1
  <2>2. CASE k # i
    BY <1>1, <2>2, GrantInSection DEF PhilInv, Holder
  <2> QED BY <2>1, <2>2
<1> QED BY <1>2 DEF Granting, Grants

LEMMA TypeStep ==
    ASSUME PhilInv, NEW i \in Phils, NEW there \in Points, pc' = [pc EXCEPT ![i] = there],
           SemsOK', iter' = iter, state_sema' \in [Phils -> {"THINKING", "HUNGRY", "EATING"}]
    PROVE  TypeOK'
BY Zenon DEF PhilInv, TypeOK, SemsOK

LEMMA QueuesMove ==
    ASSUME PhilInv, NEW i \in Phils, ~blocked[i], NEW there \in Points,
           pc' = [pc EXCEPT ![i] = there], UNCHANGED sems
    PROVE  Queues' /\ SemsOK'
<1>1. pc \in [Phils -> Points] /\ value' = value /\ queue' = queue /\ blocked' = blocked
  BY DEF PhilInv, TypeOK, sems
<1>2. SemsOK'
  BY <1>1 DEF PhilInv, TypeOK, SemsOK, SemTypeOK
<1>3. \A k \in Phils : k # i => (Waiting(k)' <=> Waiting(k))
  BY <1>1 DEF Waiting
<1>4. Queues'
  BY <1>1, <1>3 DEF PhilInv, Queues
<1> QED BY <1>2, <1>4

LEMMA StepLoop ==
    ASSUME PhilInv, NEW i \in Phils, loop(i)
    PROVE  PhilInv'
<1>1. PICK there \in {"take", "quit"} : From(i, "loop", there)
  BY DEF loop
<1>2. /\ pc[i] = "loop" /\ ~blocked[i] /\ pc' = [pc EXCEPT ![i] = there] /\ UNCHANGED sems
      /\ state_sema' = state_sema /\ there \in Points \ Grants
  BY <1>1 DEF loop, From, Points, Grants
<1>3. /\ pc \in [Phils -> Points] /\ value' = value /\ blocked' = blocked
  BY <1>2 DEF PhilInv, TypeOK, sems
<1>4. iter' \in [Phils -> 0..TIMES]
  BY PhilAssumption DEF loop, PhilInv, TypeOK
<1>5. SemsOK' /\ Queues'
  BY <1>2, QueuesMove, Zenon
<1>6. TypeOK'
  BY <1>2, <1>4, <1>5, Zenon DEF PhilInv, TypeOK, SemsOK
<1>7. \A k \in Phils : InSection(k)' => InSection(k)
  BY <1>2, <1>3 DEF InSection
<1>8. Holder'
  BY <1>3, <1>7 DEF PhilInv, Holder
<1>9. \A k \in Phils : Place(k)'
  BY <1>2, <1>3 DEF PhilInv, Place, Eating
<1>10. Granting' /\ Apart'
  BY <1>2, SameStates, Zenon
<1> QED BY <1>5, <1>6, <1>8, <1>9, <1>10, SMTT(30) DEF PhilInv

LEMMA StepEnter ==
    ASSUME PhilInv, NEW i \in Phils,
           enter(i, "take", "hungry") \/ enter(i, "eat", "put")
    PROVE  PhilInv'
<1>1. PICK there \in {"hungry", "put"} :
        pc[i] = (IF there = "hungry" THEN "take" ELSE "eat") /\ enter(i, pc[i], there)
  BY DEF enter, From
<1>2. /\ ~blocked[i] /\ pc' = [pc EXCEPT ![i] = there] /\ down(i, Mutex)
      /\ state_sema' = state_sema /\ iter' = iter /\ there \in Points \ Grants
  BY <1>1 DEF enter, From, Points, Grants
<1>3. /\ SemsOK' /\ Queues' /\ \A k \in Phils : value'[k] = value[k]
      /\ \/ value[Mutex] = 1 /\ value'[Mutex] = 0 /\ blocked' = blocked
         \/ value[Mutex] = 0 /\ value'[Mutex] = 0 /\ blocked' = [blocked EXCEPT ![i] = TRUE]
  BY <1>2, DownMutex, Zenon DEF PhilInv
<1>4. /\ pc \in [Phils -> Points] /\ blocked \in [Phils -> BOOLEAN]
  BY DEF PhilInv, TypeOK, SemTypeOK
<1>5. TypeOK'
  BY <1>2, <1>3, TypeStep, Zenon DEF PhilInv, TypeOK
<1>6. \A k \in Phils : InSection(k)' => InSection(k) \/ (k = i /\ value[Mutex] = 1)
  BY <1>2, <1>3, <1>4 DEF InSection
<1>7. Holder'
  BY <1>3, <1>6 DEF PhilInv, Holder
<1>8. ASSUME NEW k \in Phils PROVE Place(k)'
  <2>1. CASE k = i
    <3>1. Place(i)
      BY DEF PhilInv
    <3>2. pc'[i] = there /\ value'[i] = value[i] /\ state_sema'[i] = state_sema[i]
      BY <1>2, <1>3, <1>4, SMTT(30)
    <3> QED BY <1>1, <1>2, <2>1, <3>1, <3>2, SMTT(30) DEF Place, Eating
  <2>2. CASE k # i
    <3>1. Place(k) /\ pc'[k] = pc[k] /\ value'[k] = value[k] /\ blocked'[k] = blocked[k]
      BY <1>2, <1>3, <1>4, <2>2, SMTT(30) DEF PhilInv
    <3> QED BY <1>2, <3>1 DEF Place, Eating
  <2> QED BY <2>1, <2>2
<1>9. Granting' /\ Apart'
  BY <1>2, SameStates, Zenon
<1> QED BY <1>3, <1>5, <1>7, <1>8, <1>9 DEF PhilInv

LEMMA StepLeave ==
    ASSUME PhilInv, NEW i \in Phils,
           leave(i, "taken", "wait") \/ leave(i, "done", "loop")
    PROVE  PhilInv'
<1>1. PICK there \in {"wait", "loop"} :
        pc[i] = (IF there = "wait" THEN "taken" ELSE "done") /\ leave(i, pc[i], there)
  BY DEF leave, From
<1>2. /\ ~blocked[i] /\ pc' = [pc EXCEPT ![i] = there] /\ up(Mutex)
      /\ state_sema' = state_sema /\ iter' = iter /\ there \in Points \ Grants
  BY <1>1 DEF leave, From, Points, Grants
<1>3. InSection(i) /\ value[Mutex] = 0
  <2>1. InSection(i)
    BY <1>1, <1>2 DEF InSection
  <2>2. value[Mutex] \in Nat
    BY DEF PhilInv, TypeOK, SemTypeOK
  <2> QED BY <2>1, <2>2 DEF PhilInv, Holder
<1>4. /\ SemsOK' /\ Queues' /\ \A k \in Phils : value'[k] = value[k]
      /\ \/ value'[Mutex] = 1 /\ blocked' = blocked
         \/ /\ value'[Mutex] = 0
            /\ \E h \in Phils : /\ blocked[h] /\ pc[h] \in {"hungry", "put"}
                                /\ blocked' = [blocked EXCEPT ![h] = FALSE]
  BY <1>2, <1>3, UpMutex, Zenon DEF PhilInv
<1>5. /\ pc \in [Phils -> Points] /\ blocked \in [Phils -> BOOLEAN]
  BY DEF PhilInv, TypeOK, SemTypeOK
<1>6. TypeOK'
  BY <1>2, <1>4, TypeStep, Zenon DEF PhilInv, TypeOK
<1>7. \A k \in Phils : InSection(k) => k = i
  BY <1>3 DEF PhilInv, Holder
<1>8. Holder'
  <2>1. CASE value'[Mutex] = 1 /\ blocked' = blocked
    <3>1. \A k \in Phils : ~InSection(k)'
      BY <1>2, <1>5, <1>7, <2>1, SMTT(30) DEF InSection
    <3> QED BY <3>1 DEF Holder
  <2>2. ASSUME NEW h \in Phils, blocked' = [blocked EXCEPT ![h] = FALSE], value'[Mutex] = 0
        PROVE  Holder'
    <3>1. \A k \in Phils : InSection(k)' => k = h
      BY <1>2, <1>5, <1>7, <2>2 DEF InSection
    <3> QED BY <2>2, <3>1 DEF Holder
  <2> QED BY <1>4, <2>1, <2>2
<1>9. ASSUME NEW k \in Phils PROVE Place(k)'
  <2>1. Place(k) /\ value'[k] = value[k] /\ state_sema'[k] = state_sema[k]
    BY <1>2, <1>4 DEF PhilInv
  <2>2. pc[k] = "eat" => blocked'[k] = blocked[k]
    BY <1>4, <1>5
  <2>3. CASE k = i
    BY <1>1, <1>2, <1>5, <2>1, <2>3, SMTT(30) DEF Place, Eating
  <2>4. CASE k # i
    BY <1>2, <1>5, <2>1, <2>2, <2>4, SMTT(30) DEF Place, Eating
  <2> QED BY <2>3, <2>4
<1>10. Granting' /\ Apart'
  BY <1>2, SameStates, Zenon
<1> QED BY <1>4, <1>6, <1>8, <1>9, <1>10 DEF PhilInv

LEMMA StepGet ==
    ASSUME PhilInv, NEW i \in Phils, get_forks(i, "wait", "eat")
    PROVE  PhilInv'
<1>1. /\ pc[i] = "wait" /\ ~blocked[i] /\ pc' = [pc EXCEPT ![i] = "eat"] /\ down(i, i)
      /\ state_sema' = state_sema /\ iter' = iter /\ "eat" \in Points \ Grants
  BY DEF get_forks, From, Points, Grants
<1>2. /\ SemsOK' /\ Queues' /\ \A s \in Sems \ {i} : value'[s] = value[s]
      /\ \/ value[i] = 1 /\ value'[i] = 0 /\ blocked' = blocked
         \/ value[i] = 0 /\ value'[i] = 0 /\ blocked' = [blocked EXCEPT ![i] = TRUE]
  BY <1>1, DownOwn, Zenon DEF PhilInv
<1>3. /\ pc \in [Phils -> Points] /\ blocked \in [Phils -> BOOLEAN]
      /\ value'[Mutex] = value[Mutex] /\ \A k \in Phils \ {i} : value'[k] = value[k]
  BY <1>2, MutexApart, Zenon DEF PhilInv, TypeOK, SemTypeOK, Sems
<1>4. TypeOK'
  BY <1>1, <1>2, TypeStep, Zenon DEF PhilInv, TypeOK
<1>5. \A k \in Phils : InSection(k)' => InSection(k)
  BY <1>1, <1>2, <1>3 DEF InSection
<1>6. Holder'
  BY <1>3, <1>5 DEF PhilInv, Holder
<1>7. ASSUME NEW k \in Phils PROVE Place(k)'
  <2>1. Place(k) /\ state_sema'[k] = state_sema[k]
    BY <1>1 DEF PhilInv
  <2>2. CASE k = i
    BY <1>1, <1>2, <1>3, <2>1, <2>2, SMTT(30) DEF Place, Eating
  <2>3. CASE k # i
    BY <1>1, <1>2, <1>3, <2>1, <2>3, SMTT(30) DEF Place, Eating
  <2> QED BY <2>2, <2>3
<1>8. Granting' /\ Apart'
  BY <1>1, SameStates, Zenon
<1> QED BY <1>2, <1>4, <1>6, <1>7, <1>8 DEF PhilInv

(* state_sema[i] = HUNGRY and state_sema[i] = THINKING, inside the section *)
LEMMA StepMark ==
    ASSUME PhilInv, NEW i \in Phils, UNCHANGED <<sems, iter>>,
           NEW there \in {"test", "testL"},
           From(i, IF there = "test" THEN "hungry" ELSE "put", there),
           state_sema' = [state_sema EXCEPT ![i] = IF there = "test" THEN "HUNGRY" ELSE "THINKING"]
    PROVE  PhilInv'
<1>1. /\ pc[i] = (IF there = "test" THEN "hungry" ELSE "put") /\ ~blocked[i]
      /\ pc' = [pc EXCEPT ![i] = there] /\ UNCHANGED sems /\ there \in Points \ Grants
  BY DEF From, Points, Grants
<1>2. /\ pc \in [Phils -> Points] /\ value' = value /\ blocked' = blocked
      /\ state_sema \in [Phils -> {"THINKING", "HUNGRY", "EATING"}]
  BY <1>1 DEF PhilInv, TypeOK, sems
<1>3. InSection(i)
  BY <1>1 DEF InSection
<1>4. SemsOK' /\ Queues'
  BY <1>1, QueuesMove, Zenon
<1>5. TypeOK'
  <2>1. state_sema' \in [Phils -> {"THINKING", "HUNGRY", "EATING"}]
    BY <1>2
  <2> QED BY <1>1, <1>4, <2>1, TypeStep, Zenon
<1>6. \A k \in Phils : InSection(k)' => InSection(k)
  BY <1>1, <1>2, <1>3 DEF InSection
<1>7. Holder'
  BY <1>2, <1>6 DEF PhilInv, Holder
<1>8. ASSUME NEW k \in Phils PROVE Place(k)'
  <2>1. Place(k)
    BY DEF PhilInv
  <2>2. CASE k = i
    BY <1>1, <1>2, <2>1, <2>2 DEF Place, Eating
  <2>3. CASE k # i
    BY <1>1, <1>2, <2>1, <2>3 DEF Place, Eating
  <2> QED BY <2>2, <2>3
<1>9. Granting'
  BY <1>1, <1>3, NoGrant, Zenon
<1>10. Apart'
  BY <1>2, Ring DEF PhilInv, Apart
<1> QED BY <1>4, <1>5, <1>7, <1>8, <1>9, <1>10 DEF PhilInv

(* phi_test_sema(j) by i *)
LEMMA StepTest ==
    ASSUME PhilInv, NEW i \in Phils, NEW j \in Phils,
           NEW test \in {"test", "testL", "testR"}, NEW grant \in Grants,
           NEW after \in {"taken", "testR", "done"},
           \/ test = "test" /\ grant = "grant" /\ after = "taken" /\ j = i
           \/ test = "testL" /\ grant = "grantL" /\ after = "testR" /\ j = LEFT(i)
           \/ test = "testR" /\ grant = "grantR" /\ after = "done" /\ j = RIGHT(i),
           phi_test_sema(i, j, test, grant, after)
    PROVE  PhilInv'
<1>0. /\ pc \in [Phils -> Points] /\ blocked \in [Phils -> BOOLEAN]
      /\ state_sema \in [Phils -> {"THINKING", "HUNGRY", "EATING"}]
      /\ value[Mutex] \in Nat /\ Mutex \notin Phils
  BY MutexApart DEF PhilInv, TypeOK, SemTypeOK
<1>1. ASSUME NEW there \in {grant, after}, there = grant <=> MayEat(j),
             From(i, test, there), UNCHANGED <<sems, state_sema, iter>>
      PROVE  PhilInv'
  <2>1. /\ pc[i] = test /\ ~blocked[i] /\ pc' = [pc EXCEPT ![i] = there] /\ UNCHANGED sems
        /\ there \in Points /\ InSection(i) /\ value' = value /\ blocked' = blocked
    BY <1>1 DEF From, Points, InSection, Grants, sems
  <2>2. SemsOK' /\ Queues'
    BY <2>1, QueuesMove, Zenon
  <2>3. TypeOK'
    BY <1>0, <1>1, <2>1, <2>2, TypeStep, Zenon
  <2>4. \A k \in Phils : InSection(k)' => InSection(k)
    BY <1>0, <2>1 DEF InSection
  <2>5. Holder'
    BY <2>1, <2>4 DEF PhilInv, Holder
  <2>6. ASSUME NEW k \in Phils PROVE Place(k)'
    <3>1. Place(k)
      BY DEF PhilInv
    <3>2. CASE k = i
      BY <1>0, <1>1, <2>1, <3>1, <3>2, SMTT(30) DEF Place, Eating, Grants
    <3>3. CASE k # i
      BY <1>0, <1>1, <2>1, <3>1, <3>3, SMTT(30) DEF Place, Eating
    <3> QED BY <3>2, <3>3
  <2>7. Granting'
    <3>1. \A k \in Phils : k # i => pc'[k] = pc[k]
      BY <1>0, <2>1
    <3>2. pc'[i] = there
      BY <1>0, <2>1
    <3>3. \A k \in Phils : MayEat(k)' <=> MayEat(k)
      BY <1>1 DEF MayEat
    <3>4. LEFT(i) \in Phils /\ RIGHT(i) \in Phils
      BY Ring
    <3>5. \A k \in Phils : LEFT(k) \in Phils /\ RIGHT(k) \in Phils
      BY Ring
    <3> QED BY <1>1, <3>1, <3>2, <3>3, <3>4, <3>5, SMTT(30) DEF PhilInv, Granting, Grants
  <2>8. Apart'
    BY <1>1 DEF PhilInv, Apart
  <2> QED BY <2>2, <2>3, <2>5, <2>6, <2>7, <2>8, SMTT(30) DEF PhilInv
<1>2. ASSUME From(i, grant, after), state_sema' = [state_sema EXCEPT ![j] = "EATING"], up(j),
             UNCHANGED iter
      PROVE  PhilInv'
  <2>1. /\ pc[i] = grant /\ ~blocked[i] /\ pc' = [pc EXCEPT ![i] = after]
        /\ after \in Points \ Grants /\ MayEat(j)
    BY <1>2 DEF From, Points, Grants, PhilInv, Granting
  <2>2. InSection(i)
    BY <2>1 DEF InSection, Grants
  <2>3. state_sema[j] = "HUNGRY" /\ Place(j) /\ value[j] = 0
    BY <2>1 DEF MayEat, PhilInv, Place
  <2>4. j # i => ~InSection(j)
    BY <2>2 DEF PhilInv, Holder
  <2>5. /\ SemsOK' /\ Queues' /\ \A s \in Sems \ {j} : value'[s] = value[s]
        /\ \/ value'[j] = 1 /\ blocked' = blocked /\ ~(blocked[j] /\ pc[j] = "eat")
           \/ /\ value'[j] = 0 /\ blocked[j] /\ pc[j] = "eat"
              /\ blocked' = [blocked EXCEPT ![j] = FALSE]
    BY <1>2, <2>1, <2>3, UpOwn, Zenon DEF PhilInv
  <2>6. value'[Mutex] = value[Mutex] /\ \A k \in Phils \ {j} : value'[k] = value[k]
    BY <1>0, <2>5 DEF Sems
  <2>7. TypeOK'
    <3>1. state_sema' \in [Phils -> {"THINKING", "HUNGRY", "EATING"}]
      BY <1>0, <1>2
    <3> QED BY <1>2, <2>1, <2>5, <3>1, TypeStep, Zenon
  <2>8. \A k \in Phils : InSection(k)' => InSection(k)
    BY <1>0, <2>1, <2>2, <2>5 DEF InSection
  <2>9. Holder'
    BY <2>6, <2>8 DEF PhilInv, Holder
  <2>10. ASSUME NEW k \in Phils PROVE Place(k)'
    <3>1. Place(k)
      BY DEF PhilInv
    <3>2. CASE k = j /\ j = i
      BY <1>0, <1>2, <2>1, <2>3, <2>5, <3>2, Ring, SMTT(30) DEF Place, Eating, Grants
    <3>3. CASE k = j /\ j # i
      BY <1>0, <1>2, <2>1, <2>3, <2>4, <2>5, <3>3, SMTT(30) DEF Place, Eating, InSection, PhilInv, Queues, Waiting
    <3>4. CASE k # j /\ k = i
      BY <1>0, <1>2, <2>1, <2>5, <2>6, <3>1, <3>4, SMTT(30) DEF Place, Eating, Grants
    <3>5. CASE k # j /\ k # i
      BY <1>0, <1>2, <2>1, <2>5, <2>6, <3>1, <3>5, SMTT(30) DEF Place, Eating
    <3> QED BY <3>2, <3>3, <3>4, <3>5
  <2>11. Granting'
    BY <2>1, <2>2, NoGrant, Zenon
  <2>12. Apart'
    <3>1. ASSUME NEW k \in Phils, state_sema'[k] = "EATING", state_sema'[RIGHT(k)] = "EATING"
          PROVE  FALSE
      <4>1. RIGHT(k) \in Phils /\ LEFT(RIGHT(k)) = k /\ RIGHT(k) # k
        BY Ring
      <4>2. state_sema[LEFT(j)] # "EATING" /\ state_sema[RIGHT(j)] # "EATING"
        BY <2>1 DEF MayEat
      <4>3. CASE k = j
        BY <1>0, <1>2, <3>1, <4>1, <4>2, <4>3, SMTT(30)
      <4>4. CASE RIGHT(k) = j
        BY <1>0, <1>2, <3>1, <4>1, <4>2, <4>4, SMTT(30)
      <4>5. CASE k # j /\ RIGHT(k) # j
        BY <1>0, <1>2, <3>1, <4>1, <4>5, SMTT(30) DEF PhilInv, Apart
      <4> QED BY <4>3, <4>4, <4>5
    <3> QED BY <3>1 DEF Apart
  <2> QED BY <2>5, <2>7, <2>9, <2>10, <2>11, <2>12, SMTT(30) DEF PhilInv
<1>3. \/ \E there \in {grant, after} : /\ there = grant <=> MayEat(j)
                                       /\ From(i, test, there)
                                       /\ UNCHANGED <<sems, state_sema, iter>>
      \/ /\ From(i, grant, after) /\ state_sema' = [state_sema EXCEPT ![j] = "EATING"]
         /\ up(j) /\ UNCHANGED iter
  BY DEF phi_test_sema, Grants
<1> QED BY <1>1, <1>2, <1>3

-----------------------------------------------------------------------------
LEMMA PhilInit == Init => PhilInv
<1> SUFFICES ASSUME Init PROVE PhilInv
  OBVIOUS
<1>1. /\ value = [s \in Sems |-> IF s = Mutex THEN 1 ELSE 0] /\ queue = [s \in Sems |-> <<>>]
      /\ blocked = [i \in Phils |-> FALSE] /\ pc = [i \in Phils |-> "loop"]
      /\ state_sema = [i \in Phils |-> "THINKING"] /\ iter = [i \in Phils |-> 0]
  BY DEF Init, sem_init, Sems
<1>2. \A i \in Phils : i # Mutex /\ i \in Sems /\ RIGHT(i) \in Phils
  BY MutexApart, Ring DEF Sems
<1>3. TypeOK
  BY <1>1, EmptySeq, PhilAssumption DEF TypeOK, SemTypeOK, Sems, Points
<1>4. Queues
  BY <1>1, <1>2, EmptyList DEF Queues, Sems
<1>5. Holder
  BY <1>1 DEF Holder, InSection
<1>6. \A i \in Phils : Place(i)
  BY <1>1, <1>2 DEF Place
<1>7. Granting
  BY <1>1 DEF Granting
<1>8. Apart
  BY <1>1, <1>2 DEF Apart
<1> QED BY <1>3, <1>4, <1>5, <1>6, <1>7, <1>8, SMTT(30) DEF PhilInv

LEMMA PhilNext == PhilInv /\ [Next]_vars => PhilInv'
<1> SUFFICES ASSUME PhilInv, [Next]_vars PROVE PhilInv'
  OBVIOUS
<1>1. ASSUME NEW i \in Phils, philosopher(i) PROVE PhilInv'
  <2>0. LEFT(i) \in Phils /\ RIGHT(i) \in Phils
    BY Ring
  <2>1. CASE loop(i)
    BY <2>1, StepLoop
  <2>2. CASE enter(i, "take", "hungry") \/ enter(i, "eat", "put")
    BY <2>2, StepEnter
  <2>3. CASE leave(i, "taken", "wait") \/ leave(i, "done", "loop")
    BY <2>3, StepLeave
  <2>4. CASE get_forks(i, "wait", "eat")
    BY <2>4, StepGet
  <2>5. CASE /\ From(i, "hungry", "test")
             /\ state_sema' = [state_sema EXCEPT ![i] = "HUNGRY"]
             /\ UNCHANGED <<sems, iter>>
    BY <2>5, StepMark, Zenon
  <2>6. CASE /\ From(i, "put", "testL")
             /\ state_sema' = [state_sema EXCEPT ![i] = "THINKING"]
             /\ UNCHANGED <<sems, iter>>
    BY <2>6, StepMark, Zenon
  <2>7. CASE phi_test_sema(i, i, "test", "grant", "taken")
    BY <2>7, StepTest DEF Grants
  <2>8. CASE phi_test_sema(i, LEFT(i), "testL", "grantL", "testR")
    BY <2>0, <2>8, StepTest DEF Grants
  <2>9. CASE phi_test_sema(i, RIGHT(i), "testR", "grantR", "done")
    BY <2>0, <2>9, StepTest, SMTT(30) DEF Grants
  <2> QED BY <1>1, <2>1, <2>2, <2>3, <2>4, <2>5, <2>6, <2>7, <2>8, <2>9, SMTT(30)
          DEF philosopher, phi_take_forks_sema, phi_put_forks_sema, test_right
<1>2. CASE UNCHANGED vars
  BY <1>2 DEF vars, PhilInv, TypeOK, SemTypeOK, Queues, Waiting, Holder, InSection, Place, Eating,
              Granting, MayEat, Apart
<1> QED BY <1>1, <1>2 DEF Next, all_quit

(* The philosophers' invariant holds in every reachable state. *)
THEOREM PhilInvariant == Spec => []PhilInv
BY PhilInit, PhilNext, PTL DEF Spec

(* Two neighbours never have the forks at the same time, whatever the number of
   philosophers and however phi_take_forks_sema and phi_put_forks_sema interleave. *)
THEOREM Exclusion == Spec => []NeighboursExclude
<1>1. PhilInv => NeighboursExclude
  <2> SUFFICES ASSUME PhilInv, NEW i \in Phils, Eating(i), Eating(RIGHT(i)) PROVE FALSE
    BY DEF NeighboursExclude
  <2>1. RIGHT(i) \in Phils
    BY Ring
  <2>2. \A k \in Phils : Eating(k) => state_sema[k] = "EATING"
    BY DEF PhilInv, Place, Eating
  <2> QED BY <2>1, <2>2 DEF PhilInv, Apart
<1> QED BY <1>1, PhilInvariant, PTL

(* up and down lose no permit and no waiter. *)
THEOREM PermitsKept == Spec => []NoLostPermit
<1>1. PhilInv => NoLostPermit
  <2> SUFFICES ASSUME PhilInv PROVE NoLostPermit
    OBVIOUS
  <2>1. \A s \in Sems : value[s] > 0 => queue[s] = <<>>
    BY DEF PhilInv, Queues, Sems
  <2>2. /\ queue[Mutex] \in Seq(Phils) /\ IsInjective(queue[Mutex])
        /\ \A i \in Phils : \/ queue[i] = <<>>
                            \/ queue[i] = <<i>> /\ i \notin ToSet(queue[Mutex])
    BY DEF PhilInv, TypeOK, SemTypeOK, Queues, Waiting
  <2>3. \A i \in Phils : ToSet(<<i>>) = {i} /\ IsInjective(<<i>>)
    BY OneElement
  <2>4. ToSet(<<>>) = {} /\ IsInjective(<<>>)
    BY EmptyList
  <2>5. \A s \in Sems : IsInjective(queue[s])
    BY <2>2, <2>3, <2>4, Zenon DEF Sems
  <2>6. \A i \in Phils : ToSet(queue[i]) \subseteq {i} /\ ToSet(queue[i]) \cap ToSet(queue[Mutex]) = {}
    BY <2>2, <2>3, <2>4, Zenon
  <2>7. \A s, r \in Sems : s # r => ToSet(queue[s]) \cap ToSet(queue[r]) = {}
    BY <2>6 DEF Sems
  <2>8. \A i \in Phils : blocked[i] <=> \E s \in Sems : i \in ToSet(queue[s])
    BY <2>3, <2>4, <2>6, Zenon DEF PhilInv, Queues, Waiting, Sems
  <2>9. \A s \in Sems : queue[s] \in Seq(Phils)
    BY DEF PhilInv, TypeOK, SemTypeOK, Sems
  <2>10. \A t \in Phils, s \in Sems : t \in ToSet(queue[s]) <=> \E k \in DOMAIN queue[s] : queue[s][k] = t
    BY DEF ToSet
  <2>11. \A s \in Sems : \A k, l \in DOMAIN queue[s] : queue[s][k] = queue[s][l] => k = l
    BY <2>5, <2>9 DEF IsInjective
  <2>12. ASSUME NEW t \in Phils, NEW s \in Sems, NEW r \in Sems,
                NEW k \in DOMAIN queue[s], NEW l \in DOMAIN queue[r],
                queue[s][k] = t, queue[r][l] = t
         PROVE  s = r /\ k = l
    <3>1. t \in ToSet(queue[s]) /\ t \in ToSet(queue[r])
      BY <2>10, <2>12
    <3> QED BY <2>7, <2>11, <2>12, <3>1
  <2>13. \A t \in Phils : blocked[t] <=> \E s \in Sems : \E k \in DOMAIN queue[s] : queue[s][k] = t
    BY <2>8, <2>10
  <2> QED BY <2>1, <2>12, <2>13 DEF NoLostPermit, WaitsAt, Sems
<1> QED BY <1>1, PhilInvariant, PTL
=============================================================================
