---------------------------- MODULE GetPidProofs ----------------------------
(***************************************************************************)
(* get_pid returns unused pids, for every MAX_PID > MAX_PROCESS.           *)
(*                                                                         *)
(* The inductive invariant says what the scan has established about the    *)
(* part of proc_list it has seen: no pid there lies in the half-open       *)
(* interval from last_pid to next_safe.                                    *)
(***************************************************************************)
EXTENDS GetPid, SeqLemmas

NoneBetween(lo, hi) == \A k \in 1..Len(plist) : plist[k] <= lo \/ plist[k] >= hi

Inv ==
    /\ TypeOK
    /\ IsInjective(plist)
    /\ pc = "out" => NoneBetween(last_pid, next_safe)
    /\ pc = "scan" => /\ last_pid < next_safe
                      /\ \A k \in 1..seen : plist[k] < last_pid \/ plist[k] >= next_safe
    /\ pc = "link" => /\ last_pid < MAX_PID /\ NoneBetween(last_pid, next_safe)
                      /\ \A k \in 1..Len(plist) : plist[k] # last_pid

LEMMA PlistLen == TypeOK => Len(plist) \in Nat /\ DOMAIN plist = 1..Len(plist)
BY DEF TypeOK

LEMMA InvInit == Init => Inv
<1> SUFFICES ASSUME Init PROVE Inv
  OBVIOUS
<1>1. /\ <<>> \in Seq(1..(MAX_PID - 1)) /\ IsInjective(<<>>) /\ Len(<<>>) = 0
  BY EmptyList
<1>2. TypeOK
  BY <1>1, GetPidAssumption DEF Init, TypeOK
<1> QED BY <1>1, <1>2, GetPidAssumption DEF Init, Inv, NoneBetween

(* The call of get_pid. *)
LEMMA InvCall == Inv /\ get_pid => Inv'
<1> SUFFICES ASSUME Inv, get_pid PROVE Inv'
  OBVIOUS
<1> USE GetPidAssumption
<1>0. /\ plist \in Seq(1..(MAX_PID - 1)) /\ Len(plist) \in Nat /\ DOMAIN plist = 1..Len(plist)
      /\ \A k \in 1..Len(plist) : plist[k] \in 1..(MAX_PID - 1)
      /\ last_pid \in 1..MAX_PID /\ next_safe \in 1..MAX_PID /\ plist' = plist
      /\ pc = "out" /\ NoneBetween(last_pid, next_safe) /\ IsInjective(plist)
      /\ seen \in 0..Len(plist)
  BY DEF Inv, TypeOK, get_pid
<1>1. CASE \E pid \in 1..(MAX_PID - 1) : inside(pid)
  <2>1. PICK pid \in 1..(MAX_PID - 1) : inside(pid)
    BY <1>1
  <2> QED BY <1>0, <2>1 DEF Inv, TypeOK, inside
<1>2. CASE /\ last_pid + 1 < MAX_PID /\ Safe(last_pid + 1)
           /\ last_pid' = last_pid + 1 /\ pc' = "link" /\ UNCHANGED <<next_safe, seen>>
  <2>1. TypeOK'
    BY <1>0, <1>2 DEF TypeOK
  <2>2. \A k \in 1..Len(plist) : /\ plist[k] <= last_pid + 1 \/ plist[k] >= next_safe
                                 /\ plist[k] # last_pid + 1
    BY <1>0, <1>2 DEF NoneBetween, Safe
  <2> QED BY <1>0, <1>2, <2>1, <2>2 DEF Inv, NoneBetween
<1>3. 1 \in 1..(MAX_PID - 1) /\ (last_pid + 1 < MAX_PID => last_pid + 1 \in 1..(MAX_PID - 1))
  BY <1>0
<1> QED BY <1>0, <1>1, <1>2, <1>3 DEF get_pid

(* A turn of the loop. *)
LEMMA InvScan == Inv /\ scan => Inv'
<1> SUFFICES ASSUME Inv, scan PROVE Inv'
  OBVIOUS
<1> USE GetPidAssumption
<1> DEFINE pid == plist[seen + 1]
<1>0. /\ plist \in Seq(1..(MAX_PID - 1)) /\ Len(plist) \in Nat /\ DOMAIN plist = 1..Len(plist)
      /\ last_pid \in 1..MAX_PID /\ next_safe \in 1..MAX_PID /\ plist' = plist
      /\ pc = "scan" /\ IsInjective(plist)
      /\ seen \in 0..Len(plist) /\ seen < Len(plist) /\ last_pid < next_safe
      /\ \A k \in 1..seen : plist[k] < last_pid \/ plist[k] >= next_safe
  BY DEF Inv, TypeOK, scan
<1>1. \A k \in 1..Len(plist) : plist[k] \in 1..(MAX_PID - 1)
  BY <1>0
<1>2. seen + 1 \in 1..Len(plist) /\ pid \in 1..(MAX_PID - 1)
  BY <1>0, <1>1
<1> HIDE DEF pid
<1>a. \A k \in 1..(seen + 1) : k \in 1..Len(plist) /\ (k \in 1..seen \/ plist[k] = pid)
  BY <1>0 DEF pid
<1>b. \A k \in 1..(seen + 1) : plist[k] \in 1..(MAX_PID - 1)
  BY <1>1, <1>a
<1>3. CASE pid = last_pid /\ last_pid + 1 >= next_safe /\ inside(Wrap(last_pid + 1))
  <2>1. Wrap(last_pid + 1) \in 1..(MAX_PID - 1)
    BY <1>0 DEF Wrap
  <2> QED BY <1>0, <1>3, <2>1 DEF Inv, TypeOK, inside
<1>4. CASE /\ pid = last_pid /\ last_pid + 1 < next_safe
           /\ last_pid' = last_pid + 1 /\ seen' = seen + 1 /\ UNCHANGED <<next_safe, pc>>
  <2>1. \A k \in 1..(seen + 1) : plist[k] < last_pid + 1 \/ plist[k] >= next_safe
    BY <1>0, <1>2, <1>4, <1>a, <1>b
  <2> QED BY <1>0, <1>2, <1>4, <2>1 DEF Inv, TypeOK
<1>5. CASE /\ pid # last_pid /\ next_safe' = Bound(pid)
           /\ seen' = seen + 1 /\ UNCHANGED <<last_pid, pc>>
  <2> DEFINE b == Bound(pid)
  <2>1. b \in 1..MAX_PID /\ last_pid < b /\ b <= next_safe /\ (pid < last_pid \/ pid >= b)
    BY <1>0, <1>2, <1>5 DEF Bound
  <2> HIDE DEF b
  <2>2. \A k \in 1..(seen + 1) : plist[k] < last_pid \/ plist[k] >= b
    <3> SUFFICES ASSUME NEW k \in 1..(seen + 1) PROVE plist[k] < last_pid \/ plist[k] >= b
      OBVIOUS
    <3>1. CASE k \in 1..seen
      <4>1. plist[k] < last_pid \/ plist[k] >= next_safe
        BY <1>0, <3>1
      <4>2. plist[k] \in Nat /\ b \in Nat /\ next_safe \in Nat /\ b <= next_safe
        BY <1>0, <1>b, <2>1
      <4> QED BY <4>1, <4>2
    <3>2. CASE plist[k] = pid
      BY <2>1, <3>2
    <3> QED BY <1>a, <3>1, <3>2
  <2>3. next_safe' = b
    BY <1>5 DEF b
  <2> QED BY <1>0, <1>2, <1>5, <2>1, <2>2, <2>3 DEF Inv, TypeOK
<1> QED BY <1>3, <1>4, <1>5 DEF scan, pid

(* The scan is complete, and the new process is linked. *)
LEMMA InvFound == Inv /\ found => Inv'
<1> SUFFICES ASSUME Inv, found PROVE Inv'
  OBVIOUS
<1>1. /\ Len(plist) \in Nat /\ last_pid \in 1..MAX_PID /\ next_safe \in 1..MAX_PID
      /\ \A k \in 1..Len(plist) : plist[k] \in 1..(MAX_PID - 1)
      /\ \A k \in 1..Len(plist) : plist[k] < last_pid \/ plist[k] >= next_safe
      /\ last_pid < next_safe
  <2>1. /\ plist \in Seq(1..(MAX_PID - 1)) /\ seen = Len(plist) /\ pc = "scan"
        /\ last_pid \in 1..MAX_PID /\ next_safe \in 1..MAX_PID
    BY DEF Inv, TypeOK, found
  <2>2. Len(plist) \in Nat /\ \A k \in 1..Len(plist) : plist[k] \in 1..(MAX_PID - 1)
    BY <2>1, LenProperties, ElementOfSeq
  <2> QED BY <2>1, <2>2 DEF Inv
<1>2. /\ NoneBetween(last_pid, next_safe) /\ last_pid < MAX_PID
      /\ \A k \in 1..Len(plist) : plist[k] # last_pid
  BY <1>1, GetPidAssumption DEF NoneBetween
<1> QED BY <1>2 DEF Inv, TypeOK, found, NoneBetween

LEMMA InvLink == Inv /\ set_links => Inv'
<1> SUFFICES ASSUME Inv, set_links PROVE Inv'
  OBVIOUS
<1> DEFINE S == 1..(MAX_PID - 1)
<1>0. /\ plist \in Seq(S) /\ Len(plist) \in Nat /\ DOMAIN plist = 1..Len(plist)
      /\ last_pid \in 1..MAX_PID /\ next_safe \in 1..MAX_PID
      /\ plist' = <<last_pid>> \o plist /\ pc' = "out" /\ seen' = 0
      /\ UNCHANGED <<last_pid, next_safe>>
      /\ last_pid < MAX_PID /\ NoneBetween(last_pid, next_safe)
      /\ \A k \in 1..Len(plist) : plist[k] # last_pid
      /\ IsInjective(plist)
  BY PlistLen DEF Inv, TypeOK, set_links
<1>1. last_pid \in S
  BY <1>0, GetPidAssumption
<1> HIDE DEF S
<1>2. <<last_pid>> \in Seq(S) /\ ToSet(<<last_pid>>) = {last_pid} /\ IsInjective(<<last_pid>>)
  BY <1>1, OneElement
<1>3. last_pid \notin ToSet(plist)
  BY <1>0 DEF ToSet
<1>4. plist' \in Seq(S) /\ IsInjective(plist')
  BY <1>0, <1>2, <1>3, ConcatSet, ConcatNoDup
<1>5. /\ Len(plist') \in Nat
      /\ \A k \in 1..Len(plist') : plist'[k] = last_pid \/ \E j \in 1..Len(plist) : plist'[k] = plist[j]
  <2>1. /\ Len(plist') = 1 + Len(plist)
        /\ \A k \in 1..(1 + Len(plist)) : plist'[k] = IF k <= 1 THEN <<last_pid>>[k] ELSE plist[k - 1]
    <3>1. Len(<<last_pid>>) = 1
      OBVIOUS
    <3> QED BY <1>0, <1>2, <3>1, ConcatProperties
  <2>2. ASSUME NEW k \in 1..(1 + Len(plist)), k > 1
        PROVE  k - 1 \in 1..Len(plist) /\ plist'[k] = plist[k - 1]
    BY <1>0, <2>1, <2>2
  <2>3. plist'[1] = last_pid
    BY <1>0, <2>1
  <2> QED BY <1>0, <2>1, <2>2, <2>3
<1>6. \A k \in 1..Len(plist') : plist'[k] <= last_pid \/ plist'[k] >= next_safe
  BY <1>0, <1>5 DEF NoneBetween
<1>7. TypeOK'
  BY <1>0, <1>4, <1>5 DEF TypeOK, S
<1> QED BY <1>0, <1>4, <1>6, <1>7 DEF Inv, NoneBetween

LEMMA InvUnlink == Inv /\ remove_links => Inv'
<1> SUFFICES ASSUME Inv, remove_links PROVE Inv'
  OBVIOUS
<1> DEFINE S == 1..(MAX_PID - 1)
<1>0. /\ plist \in Seq(S) /\ Len(plist) \in Nat /\ DOMAIN plist = 1..Len(plist)
      /\ last_pid \in 1..MAX_PID /\ next_safe \in 1..MAX_PID
      /\ pc = "out" /\ pc' = "out" /\ seen' = 0
      /\ UNCHANGED <<last_pid, next_safe>>
      /\ NoneBetween(last_pid, next_safe) /\ IsInjective(plist)
  BY PlistLen DEF Inv, TypeOK, remove_links
<1>1. PICK i \in 1..Len(plist) : plist' = RemoveAt(plist, i)
  BY <1>0 DEF remove_links
<1> HIDE DEF S
<1>2. /\ plist' \in Seq(S) /\ ToSet(plist') = ToSet(plist) \ {plist[i]} /\ IsInjective(plist')
  BY <1>0, <1>1, RemoveAtSet
<1>3. /\ Len(plist') \in Nat /\ DOMAIN plist' = 1..Len(plist')
  BY <1>2
<1>4. \A k \in 1..Len(plist') : \E j \in 1..Len(plist) : plist'[k] = plist[j]
  BY <1>0, <1>2, <1>3 DEF ToSet
<1>5. \A k \in 1..Len(plist') : plist'[k] <= last_pid \/ plist'[k] >= next_safe
  BY <1>0, <1>4 DEF NoneBetween
<1>6. TypeOK'
  BY <1>0, <1>2, <1>3 DEF TypeOK, S
<1> QED BY <1>0, <1>2, <1>5, <1>6 DEF Inv, NoneBetween

THEOREM InvHolds == Spec => []Inv
<1>1. Inv /\ UNCHANGED vars => Inv'
  BY DEF Inv, TypeOK, NoneBetween, vars
<1> QED BY <1>1, InvInit, InvCall, InvScan, InvFound, InvLink, InvUnlink, PTL DEF Spec, Next

(* get_pid returns a pid in range that no process in proc_list has. *)
THEOREM PidIsUnique == Spec => []PidUnique
<1>1. Inv => PidUnique
  BY PlistLen, GetPidAssumption DEF Inv, TypeOK, PidUnique, ToSet
<1> QED BY <1>1, InvHolds, PTL

(* The two static variables of get_pid bound a gap without processes. *)
THEOREM GapIsUnused == Spec => []GapUnused
<1>1. Inv => GapUnused
  <2> SUFFICES ASSUME Inv, pc = "out", NEW k \in 1..Len(plist)
               PROVE  ~(last_pid < plist[k] /\ plist[k] < next_safe)
    BY PlistLen DEF Inv, GapUnused, ToSet
  <2>1. /\ plist[k] \in Nat /\ last_pid \in Nat /\ next_safe \in Nat
        /\ plist[k] <= last_pid \/ plist[k] >= next_safe
    BY GetPidAssumption, PlistLen DEF Inv, TypeOK, NoneBetween
  <2> QED BY <2>1
<1> QED BY <1>1, InvHolds, PTL

(* get_pid, set_links and remove_links implement the pool of pids that do_fork
   relies on. *)
THEOREM ImplementsPool == Spec => PoolSpec
<1>1. Init => Pool!Init
  BY EmptyList DEF Init, Pool!Init, nr_process
<1>2. Inv /\ [Next]_vars => [Pool!Alloc \/ Pool!Free]_<<ToSet(plist), nr_process>>
  <2> SUFFICES ASSUME Inv, [Next]_vars
               PROVE  \/ Pool!Alloc \/ Pool!Free
                      \/ ToSet(plist') = ToSet(plist) /\ nr_process' = nr_process
    OBVIOUS
  <2>1. CASE get_pid \/ scan \/ found \/ UNCHANGED vars
    BY <2>1 DEF get_pid, scan, found, vars, nr_process
  <2>2. CASE set_links
    <3>1. /\ last_pid \in 1..(MAX_PID - 1) /\ last_pid \notin ToSet(plist)
          /\ plist \in Seq(1..(MAX_PID - 1)) /\ plist' = <<last_pid>> \o plist
      BY <2>2, PlistLen, GetPidAssumption DEF Inv, TypeOK, set_links, ToSet
    <3>2. ToSet(plist') = ToSet(<<last_pid>>) \cup ToSet(plist) /\ ToSet(<<last_pid>>) = {last_pid}
      <4> DEFINE S == 1..(MAX_PID - 1)
      <4>1. last_pid \in S /\ plist \in Seq(S)
        BY <3>1
      <4> HIDE DEF S
      <4>2. <<last_pid>> \in Seq(S) /\ ToSet(<<last_pid>>) = {last_pid}
        BY <4>1, OneElement
      <4>3. ToSet(<<last_pid>> \o plist) = ToSet(<<last_pid>>) \cup ToSet(plist)
        <5> DEFINE one == <<last_pid>>
        <5>1. one \in Seq(S)
          BY <4>2
        <5> HIDE DEF one
        <5>2. ToSet(one \o plist) = ToSet(one) \cup ToSet(plist)
          BY <4>1, <5>1, ConcatSet
        <5> QED BY <5>2 DEF one
      <4> QED BY <3>1, <4>2, <4>3
    <3>3. ToSet(plist') = ToSet(plist) \cup {last_pid}
      BY <3>2
    <3>4. nr_process' = nr_process + 1
      BY <3>1 DEF nr_process
    <3> QED BY <3>1, <3>3, <3>4 DEF Pool!Alloc, Pool!Pids
  <2>3. CASE remove_links
    <3>1. PICK i \in 1..Len(plist) : plist' = RemoveAt(plist, i)
      BY <2>3, PlistLen DEF Inv, remove_links
    <3>2. /\ ToSet(plist') = ToSet(plist) \ {plist[i]} /\ plist[i] \in ToSet(plist)
      <4>1. plist \in Seq(1..(MAX_PID - 1)) /\ IsInjective(plist) /\ DOMAIN plist = 1..Len(plist)
        BY PlistLen DEF Inv, TypeOK
      <4> QED BY <3>1, <4>1, RemoveAtSet DEF ToSet
    <3>3. nr_process' = nr_process - 1
      <4>1. Len(plist') = Len(plist) - 1
        BY <3>1, RemoveAtLen DEF Inv, TypeOK
      <4> QED BY <4>1, PlistLen DEF nr_process, Inv, TypeOK
    <3> QED BY <3>2, <3>3 DEF Pool!Free
  <2> QED BY <2>1, <2>2, <2>3 DEF Next
<1> QED BY <1>1, <1>2, InvHolds, PTL DEF Spec, PoolSpec, Pool!Spec
=============================================================================
