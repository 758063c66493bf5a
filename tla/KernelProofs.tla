---------------------------- MODULE KernelProofs ----------------------------
(***************************************************************************)
(* The process manager keeps its lists and its scheduling invariant, for   *)
(* every number of processes and semaphores and every set of calls.  First *)
(* what the scheduler's operators do to the record of its globals: ready,  *)
(* a dequeue from the ready list and a change of priority keep the ready   *)
(* list consistent with the process table, and resched, from any such      *)
(* state, leaves the processor to a process no ready one outranks.         *)
(***************************************************************************)
EXTENDS KernelProps, QListProofs

SchedType ==
  [pstate : [Pid -> States], pprio : [Pid -> Nat], qkey : [Pid -> Int],
   rdyq : Seq(Pid), currpid : Pid, preempt : 0..QUANTUM]

Runnable    == {"PRREADY", "PRCURR"}
ReadySet(S) == {p \in Pid : S.pstate[p] = "PRREADY"}

(* The ready list against the process table.  It allows for a current      *)
(* process that has blocked and not rescheduled yet.                       *)
Consistent(S) ==
  /\ S \in SchedType
  /\ Holds(S.rdyq, ReadySet(S))
  /\ Sorted(S.rdyq, S.qkey)
  /\ \A p \in ReadySet(S) : S.qkey[p] = S.pprio[p]
  /\ \A p \in Pid : S.pstate[p] = "PRCURR" => p = S.currpid
  /\ S.pstate[NULLPROC] \in Runnable

Running(S) == S.pstate[S.currpid] = "PRCURR"
Highest(S) == \A p \in ReadySet(S) : S.pprio[p] <= S.pprio[S.currpid]

(* From S to T only the order of the runnable processes has changed.       *)
SameBlocked(S, T) ==
  /\ T.pprio = S.pprio
  /\ \A p \in Pid :
       IF S.pstate[p] \in Runnable
       THEN T.pstate[p] \in Runnable
       ELSE T.pstate[p] = S.pstate[p] /\ T.qkey[p] = S.qkey[p]

LEMMA NullprocIsPid == NULLPROC \in Pid /\ UserPid \subseteq Pid /\ MainPid \in UserPid
BY SchedAssumption DEF NULLPROC, UserPid, Pid, MainPid

(* A field's new value keeps the record's type.                            *)
LEMMA FieldTypes ==
  ASSUME NEW S \in SchedType
  PROVE  /\ \A p \in Pid, st \in States : [S EXCEPT !.pstate[p] = st] \in SchedType
         /\ \A p \in Pid, k \in Int : [S EXCEPT !.qkey[p] = k] \in SchedType
         /\ \A k \in [Pid -> Int] : [S EXCEPT !.qkey = k] \in SchedType
         /\ \A p \in Pid, n \in Nat : [S EXCEPT !.pprio[p] = n] \in SchedType
         /\ \A list \in Seq(Pid) : [S EXCEPT !.rdyq = list] \in SchedType
         /\ \A p \in Pid : [S EXCEPT !.currpid = p] \in SchedType
         /\ \A n \in 0..QUANTUM : [S EXCEPT !.preempt = n] \in SchedType
BY DEF SchedType

(* ready                                                                   *)
LEMMA ReadyConsistent ==
  ASSUME NEW S, Consistent(S), NEW p \in Pid, S.pstate[p] # "PRREADY"
  PROVE  /\ Consistent(Ready(S, p))
         /\ Ready(S, p).pstate = [S.pstate EXCEPT ![p] = "PRREADY"]
         /\ Ready(S, p).pprio = S.pprio
         /\ Ready(S, p).currpid = S.currpid
         /\ Ready(S, p).preempt = S.preempt
         /\ \A r \in Pid \ {p} : Ready(S, p).qkey[r] = S.qkey[r]
<1> DEFINE T == Ready(S, p)
           list == Insert(S.rdyq, p, S.qkey, S.pprio[p])
<1>1. S \in SchedType
  BY DEF Consistent
<1>2. /\ T.pstate  = [S.pstate EXCEPT ![p] = "PRREADY"]
      /\ T.pprio   = S.pprio
      /\ T.qkey    = [S.qkey EXCEPT ![p] = S.pprio[p]]
      /\ T.rdyq    = list
      /\ T.currpid = S.currpid
      /\ T.preempt = S.preempt
  <2> HIDE DEF list
  <2>1. S = [pstate |-> S.pstate, pprio |-> S.pprio, qkey |-> S.qkey,
             rdyq |-> S.rdyq, currpid |-> S.currpid, preempt |-> S.preempt]
    BY <1>1 DEF SchedType
  <2> QED
    BY <2>1 DEF Ready, list
<1>3. /\ list \in Seq(Pid)
      /\ Holds(list, ReadySet(S) \cup {p})
      /\ Sorted(list, [S.qkey EXCEPT ![p] = S.pprio[p]])
  <2>1. /\ S.rdyq \in Seq(Pid) /\ S.qkey \in [Pid -> Int]
        /\ S.pprio[p] \in Int /\ p \notin ReadySet(S)
    BY <1>1 DEF SchedType, ReadySet
  <2>2. Holds(S.rdyq, ReadySet(S)) /\ Sorted(S.rdyq, S.qkey)
    BY DEF Consistent
  <2> HIDE DEF list
  <2> QED
    BY <2>1, <2>2, SortedInsert DEF list
<1>4. T \in SchedType
  <2> HIDE DEF list
  <2>1. T = [[[S EXCEPT !.pstate[p] = "PRREADY"] EXCEPT !.rdyq = list]
                EXCEPT !.qkey[p] = S.pprio[p]]
    BY <1>1 DEF Ready, list, SchedType
  <2>2. "PRREADY" \in States /\ S.pprio[p] \in Int
    BY <1>1 DEF States, SchedType
  <2> HIDE DEF T
  <2> QED
    BY <2>1, <2>2, <1>1, <1>3, FieldTypes
<1> HIDE DEF T, list
<1>5. ReadySet(T) = ReadySet(S) \cup {p}
  BY <1>1, <1>2 DEF ReadySet, SchedType
<1>6. \A r \in ReadySet(T) : T.qkey[r] = T.pprio[r]
  BY <1>1, <1>2, <1>5 DEF Consistent, ReadySet, SchedType
<1>7. \A r \in Pid : T.pstate[r] = "PRCURR" => r = T.currpid
  BY <1>1, <1>2 DEF Consistent, SchedType
<1>8. T.pstate[NULLPROC] \in Runnable
  BY <1>1, <1>2, NullprocIsPid DEF Consistent, SchedType, Runnable
<1>9. \A r \in Pid \ {p} : T.qkey[r] = S.qkey[r]
  BY <1>1, <1>2 DEF SchedType
<1> QED
  BY <1>2, <1>3, <1>4, <1>5, <1>6, <1>7, <1>8, <1>9 DEF Consistent, T

(* A dequeue from the ready list, for another state than ready.            *)
LEMMA UnreadyConsistent ==
  ASSUME NEW S, Consistent(S), NEW p \in ReadySet(S), NEW st \in States \ {"PRREADY"},
         p = NULLPROC => st = "PRCURR"
  PROVE  LET T == Unready(S, p, st)
         IN  /\ T \in SchedType
             /\ T.pstate = [S.pstate EXCEPT ![p] = st]
             /\ T.pprio = S.pprio
             /\ T.currpid = S.currpid
             /\ T.preempt = S.preempt
             /\ \A r \in Pid \ {p} : T.qkey[r] = S.qkey[r]
             /\ Holds(T.rdyq, ReadySet(T)) /\ Sorted(T.rdyq, T.qkey)
             /\ ReadySet(T) = ReadySet(S) \ {p}
             /\ \A r \in ReadySet(T) : T.qkey[r] = T.pprio[r]
             /\ T.pstate[NULLPROC] \in Runnable
             /\ st # "PRCURR" => Consistent(T)
<1> DEFINE T == Unready(S, p, st)
           list == Dequeue(S.rdyq, p)
<1>1. S \in SchedType /\ p \in Pid
  BY DEF Consistent, ReadySet
<1>2. /\ T.pstate  = [S.pstate EXCEPT ![p] = st]
      /\ T.pprio   = S.pprio
      /\ T.qkey    = [S.qkey EXCEPT ![p] = 0]
      /\ T.rdyq    = list
      /\ T.currpid = S.currpid
      /\ T.preempt = S.preempt
  <2> HIDE DEF list
  <2>1. S = [pstate |-> S.pstate, pprio |-> S.pprio, qkey |-> S.qkey,
             rdyq |-> S.rdyq, currpid |-> S.currpid, preempt |-> S.preempt]
    BY <1>1 DEF SchedType
  <2> QED
    BY <2>1 DEF Unready, list
<1>3. \A r \in Pid \ {p} : T.qkey[r] = S.qkey[r]
  BY <1>1, <1>2 DEF SchedType
<1>4. /\ list \in Seq(Pid)
      /\ Holds(list, ReadySet(S) \ {p})
      /\ Sorted(list, T.qkey)
  <2>1. /\ S.rdyq \in Seq(Pid) /\ S.qkey \in [Pid -> Int]
        /\ \A x \in ReadySet(S) \ {p} : T.qkey[x] = S.qkey[x]
    BY <1>1, <1>3 DEF SchedType, ReadySet
  <2>2. Holds(S.rdyq, ReadySet(S)) /\ Sorted(S.rdyq, S.qkey)
    BY DEF Consistent
  <2> HIDE DEF T, list
  <2>3. Dequeue(S.rdyq, p) \in Seq(Pid) /\ Holds(Dequeue(S.rdyq, p), ReadySet(S) \ {p})
    BY <2>1, <2>2, HoldsDequeue
  <2>4. Sorted(Dequeue(S.rdyq, p), T.qkey)
    BY <2>1, <2>2, SortedDequeue
  <2> QED
    BY <2>3, <2>4 DEF list
<1>5. T \in SchedType
  <2> HIDE DEF list
  <2>1. T = [[[S EXCEPT !.pstate[p] = st] EXCEPT !.rdyq = list]
                EXCEPT !.qkey[p] = 0]
    BY <1>1 DEF Unready, list, SchedType
  <2> HIDE DEF T
  <2>2. [S EXCEPT !.pstate[p] = st] \in SchedType
    BY <1>1, FieldTypes
  <2>3. [[S EXCEPT !.pstate[p] = st] EXCEPT !.rdyq = list] \in SchedType
    BY <2>2, <1>4, FieldTypes
  <2> DEFINE X == [[S EXCEPT !.pstate[p] = st] EXCEPT !.rdyq = list]
  <2> HIDE DEF X
  <2>4. [X EXCEPT !.qkey[p] = 0] \in SchedType
    <3>1. X \in SchedType
      BY <2>3 DEF X
    <3>2. \A r \in Pid, k \in Int : [X EXCEPT !.qkey[r] = k] \in SchedType
      BY <3>1, FieldTypes, Zenon
    <3>3. 0 \in Int
      OBVIOUS
    <3> QED
      BY <3>2, <3>3, <1>1, Zenon
  <2> QED
    BY <2>1, <2>4 DEF X
<1> HIDE DEF T, list
<1>6. ReadySet(T) = ReadySet(S) \ {p}
  BY <1>1, <1>2 DEF ReadySet, SchedType
<1>7. \A r \in ReadySet(T) : T.qkey[r] = T.pprio[r]
  BY <1>1, <1>2, <1>3, <1>6 DEF Consistent, ReadySet
<1>8. T.pstate[NULLPROC] \in Runnable
  BY <1>1, <1>2, NullprocIsPid DEF Consistent, SchedType, Runnable
<1>9. st # "PRCURR" => \A r \in Pid : T.pstate[r] = "PRCURR" => r = T.currpid
  BY <1>1, <1>2 DEF Consistent, SchedType
<1>10. Holds(T.rdyq, ReadySet(T)) /\ Sorted(T.rdyq, T.qkey)
  BY <1>2, <1>4, <1>6
<1>11. st # "PRCURR" => Consistent(T)
  BY <1>5, <1>7, <1>8, <1>9, <1>10 DEF Consistent
<1> QED
  BY <1>2, <1>3, <1>5, <1>6, <1>7, <1>8, <1>10, <1>11 DEF T

(* A process off the ready list changes its key or its priority.           *)
LEMMA SetBlockedKeys ==
  ASSUME NEW S, Consistent(S), NEW key \in [Pid -> Int],
         \A p \in ReadySet(S) : key[p] = S.qkey[p]
  PROVE  Consistent([S EXCEPT !.qkey = key])
<1> DEFINE T == [S EXCEPT !.qkey = key]
<1>1. S \in SchedType
  BY DEF Consistent
<1>2. T \in SchedType
  BY <1>1, FieldTypes
<1>3. /\ T.pstate = S.pstate /\ T.pprio = S.pprio /\ T.rdyq = S.rdyq
      /\ T.currpid = S.currpid /\ T.qkey = key
  BY <1>1 DEF SchedType
<1> HIDE DEF T
<1>4. ReadySet(T) = ReadySet(S)
  BY <1>3 DEF ReadySet
<1>5. Sorted(T.rdyq, T.qkey)
  <2>1. /\ S.rdyq \in Seq(Pid) /\ Sorted(S.rdyq, S.qkey)
        /\ Holds(S.rdyq, ReadySet(S))
    BY <1>1 DEF Consistent, SchedType
  <2>2. \A i \in 1..Len(S.rdyq) : S.rdyq[i] \in ReadySet(S)
    <3> DEFINE Q == ReadySet(S)
    <3> HIDE DEF Q
    <3>1. Q = {S.rdyq[i] : i \in 1..Len(S.rdyq)}
      BY <2>1, HoldsByIndex DEF Q
    <3> QED
      BY <3>1 DEF Q
  <2>3. \A i \in 1..Len(S.rdyq) : key[S.rdyq[i]] = S.qkey[S.rdyq[i]]
    BY <2>2
  <2> QED
    BY <2>1, <2>3, <1>3, SortedAgree
<1>6. \A p \in ReadySet(T) : T.qkey[p] = T.pprio[p]
  BY <1>3, <1>4 DEF Consistent
<1>7. /\ Holds(T.rdyq, ReadySet(T))
      /\ \A p \in Pid : T.pstate[p] = "PRCURR" => p = T.currpid
      /\ T.pstate[NULLPROC] \in Runnable
  BY <1>3, <1>4 DEF Consistent
<1> QED
  BY <1>2, <1>5, <1>6, <1>7 DEF Consistent, T

LEMMA SetBlockedPrio ==
  ASSUME NEW S, Consistent(S), NEW p \in Pid \ ReadySet(S), NEW n \in Nat
  PROVE  Consistent([S EXCEPT !.pprio[p] = n])
<1> DEFINE T == [S EXCEPT !.pprio[p] = n]
<1>1. S \in SchedType
  BY DEF Consistent
<1>2. T \in SchedType
  BY <1>1, FieldTypes
<1>3. /\ T.pstate = S.pstate /\ T.qkey = S.qkey /\ T.rdyq = S.rdyq
      /\ T.currpid = S.currpid /\ \A r \in Pid \ {p} : T.pprio[r] = S.pprio[r]
  BY <1>1 DEF SchedType
<1> HIDE DEF T
<1>4. ReadySet(T) = ReadySet(S) /\ ReadySet(S) \subseteq Pid
  BY <1>3 DEF ReadySet
<1>5. \A r \in ReadySet(T) : T.qkey[r] = T.pprio[r]
  BY <1>3, <1>4 DEF Consistent
<1>6. /\ Holds(T.rdyq, ReadySet(T)) /\ Sorted(T.rdyq, T.qkey)
      /\ \A r \in Pid : T.pstate[r] = "PRCURR" => r = T.currpid
      /\ T.pstate[NULLPROC] \in Runnable
  BY <1>3, <1>4 DEF Consistent
<1> QED
  BY <1>2, <1>5, <1>6 DEF Consistent, T

(* A process off the ready list, other than the null process, changes from *)
(* one state in which it is not runnable, or from running, to another in   *)
(* which it is not runnable.                                               *)
LEMMA SetBlockedState ==
  ASSUME NEW S, Consistent(S), NEW p \in UserPid \ ReadySet(S),
         NEW st \in States \ Runnable
  PROVE  /\ Consistent([S EXCEPT !.pstate[p] = st])
         /\ ReadySet([S EXCEPT !.pstate[p] = st]) = ReadySet(S)
<1> DEFINE T == [S EXCEPT !.pstate[p] = st]
<1>1. S \in SchedType /\ p \in Pid /\ p # NULLPROC
  BY NullprocIsPid DEF Consistent, UserPid
<1>2. T \in SchedType
  BY <1>1, FieldTypes
<1>3. /\ T.pprio = S.pprio /\ T.qkey = S.qkey /\ T.rdyq = S.rdyq
      /\ T.currpid = S.currpid /\ T.pstate = [S.pstate EXCEPT ![p] = st]
  BY <1>1 DEF SchedType
<1> HIDE DEF T
<1>4. ReadySet(T) = ReadySet(S)
  BY <1>1, <1>3 DEF ReadySet, Runnable, SchedType
<1>5. \A r \in Pid : T.pstate[r] = "PRCURR" => r = T.currpid
  BY <1>1, <1>3 DEF Consistent, SchedType, Runnable
<1>6. T.pstate[NULLPROC] \in Runnable
  BY <1>1, <1>3, NullprocIsPid DEF Consistent, SchedType
<1>7. /\ Holds(T.rdyq, ReadySet(T)) /\ Sorted(T.rdyq, T.qkey)
      /\ \A r \in ReadySet(T) : T.qkey[r] = T.pprio[r]
  BY <1>3, <1>4 DEF Consistent
<1> QED
  BY <1>2, <1>4, <1>5, <1>6, <1>7 DEF Consistent, T

-----------------------------------------------------------------------------
(* Taking the last of the ready list when nothing is running.              *)
LEMMA DispatchHighest ==
  ASSUME NEW S, Consistent(S), ~ Running(S) \/ S.pstate[S.currpid] = "PRREADY"
  PROVE  /\ Consistent(Dispatch(S)) /\ Running(Dispatch(S)) /\ Highest(Dispatch(S))
         /\ SameBlocked(S, Dispatch(S))
         /\ Dispatch(S).currpid \in ReadySet(S)
<1> DEFINE p == S.rdyq[Len(S.rdyq)]
           U == Unready(S, p, "PRCURR")
           V == [U EXCEPT !.currpid = p]
           T == [V EXCEPT !.preempt = QUANTUM]
<1>1. /\ S \in SchedType /\ S.rdyq \in Seq(Pid) /\ Sorted(S.rdyq, S.qkey)
      /\ Holds(S.rdyq, ReadySet(S)) /\ S.pprio \in [Pid -> Nat]
      /\ S.pstate \in [Pid -> States] /\ S.currpid \in Pid
  BY DEF Consistent, SchedType
<1>2. \A r \in Pid : S.pstate[r] # "PRCURR"
  BY <1>1 DEF Consistent, Running
<1>3. S.rdyq # <<>>
  <2>1. NULLPROC \in ReadySet(S)
    BY <1>2, NullprocIsPid DEF Consistent, ReadySet, Runnable
  <2> QED
    BY <1>1, <2>1, HoldsEmpty
<1>4. /\ Len(S.rdyq) \in 1..Len(S.rdyq)
      /\ \A i \in 1..Len(S.rdyq) : S.qkey[S.rdyq[i]] <= S.qkey[p]
  BY <1>1, <1>3, LastKeyIsGreatest
<1>5. /\ p \in ReadySet(S)
      /\ \A r \in ReadySet(S) : S.qkey[r] <= S.qkey[p]
  <2> DEFINE Q == ReadySet(S)
  <2> HIDE DEF Q
  <2>1. Q = {S.rdyq[i] : i \in 1..Len(S.rdyq)}
    BY <1>1, HoldsByIndex DEF Q
  <2>2. p \in Q /\ \A r \in Q : S.qkey[r] <= S.qkey[p]
    BY <2>1, <1>4
  <2> QED
    BY <2>2 DEF Q
<1> HIDE DEF p
<1>6. \A r \in ReadySet(S) : S.pprio[r] <= S.pprio[p]
  BY <1>5 DEF Consistent
<1>7. /\ U \in SchedType
      /\ U.pstate = [S.pstate EXCEPT ![p] = "PRCURR"]
      /\ U.pprio = S.pprio
      /\ \A r \in Pid \ {p} : U.qkey[r] = S.qkey[r]
      /\ Holds(U.rdyq, ReadySet(U)) /\ Sorted(U.rdyq, U.qkey)
      /\ ReadySet(U) = ReadySet(S) \ {p}
      /\ \A r \in ReadySet(U) : U.qkey[r] = U.pprio[r]
      /\ U.pstate[NULLPROC] \in Runnable
  <2>1. "PRCURR" \in States \ {"PRREADY"}
    BY DEF States
  <2> QED
    BY <2>1, <1>5, UnreadyConsistent
<1>8. Dispatch(S) = T
  BY DEF Dispatch, p, Unready
<1> HIDE DEF U
<1>9. p \in Pid
  BY <1>5 DEF ReadySet
<1>10. T \in SchedType
  <2>1. V \in SchedType
    BY <1>7, <1>9, FieldTypes
  <2>2. QUANTUM \in 0..QUANTUM
    BY SchedAssumption
  <2> HIDE DEF V
  <2> QED
    BY <2>1, <2>2, FieldTypes
<1>11. /\ T.pstate = U.pstate /\ T.pprio = U.pprio /\ T.qkey = U.qkey
       /\ T.rdyq = U.rdyq /\ T.currpid = p
  BY <1>7 DEF SchedType
<1> HIDE DEF T
<1>12. ReadySet(T) = ReadySet(U)
  BY <1>11 DEF ReadySet
<1>13. \A r \in Pid : T.pstate[r] = "PRCURR" <=> r = T.currpid
  BY <1>1, <1>2, <1>7, <1>9, <1>11
<1>14. Consistent(T)
  BY <1>7, <1>10, <1>11, <1>12, <1>13 DEF Consistent
<1>15. Running(T)
  BY <1>9, <1>11, <1>13 DEF Running
<1>16. Highest(T)
  BY <1>6, <1>7, <1>11, <1>12 DEF Highest
<1>17. SameBlocked(S, T)
  <2>1. ASSUME NEW r \in Pid
        PROVE  IF S.pstate[r] \in Runnable
               THEN T.pstate[r] \in Runnable
               ELSE T.pstate[r] = S.pstate[r] /\ T.qkey[r] = S.qkey[r]
    <3>1. CASE r = p
      BY <3>1, <1>1, <1>5, <1>7, <1>9, <1>11 DEF ReadySet, Runnable
    <3>2. CASE r # p
      BY <3>2, <1>1, <1>7, <1>11
    <3> QED
      BY <3>1, <3>2
  <2> QED
    BY <2>1, <1>7, <1>11 DEF SameBlocked
<1> QED
  BY <1>5, <1>8, <1>11, <1>14, <1>15, <1>16, <1>17

(* resched: whatever state it finds, the processor goes to a process that  *)
(* no ready process outranks, and no blocked process is touched.           *)
LEMMA ReschedHighest ==
  ASSUME NEW S, Consistent(S)
  PROVE  /\ Consistent(Resched(S)) /\ Running(Resched(S)) /\ Highest(Resched(S))
         /\ SameBlocked(S, Resched(S))
<1>1. /\ S \in SchedType /\ S.rdyq \in Seq(Pid) /\ Sorted(S.rdyq, S.qkey)
      /\ Holds(S.rdyq, ReadySet(S)) /\ S.pprio \in [Pid -> Nat]
      /\ S.qkey \in [Pid -> Int] /\ S.currpid \in Pid
  BY DEF Consistent, SchedType
<1>2. CASE KeepsCPU(S)
  <2>1. Resched(S) = S
    BY <1>2 DEF Resched
  <2>2. Running(S)
    BY <1>2 DEF KeepsCPU, Running
  <2>3. Highest(S)
    <3>1. SUFFICES ASSUME NEW r \in ReadySet(S)
                   PROVE  S.pprio[r] <= S.pprio[S.currpid]
      BY DEF Highest
    <3>2. PICK i \in 1..Len(S.rdyq) : S.rdyq[i] = r
      <4> DEFINE Q == ReadySet(S)
      <4> HIDE DEF Q
      <4>1. Q = {S.rdyq[i] : i \in 1..Len(S.rdyq)}
        BY <1>1, HoldsByIndex, SMTT(30) DEF Q
      <4> QED
        BY <4>1 DEF Q
    <3>3. S.qkey[r] <= LastKey(S.rdyq, S.qkey)
      BY <3>2, <1>1, LastKeyIsGreatest
    <3>4. S.qkey[r] = S.pprio[r] /\ r \in Pid
      BY DEF Consistent, ReadySet
    <3>5. /\ LastKey(S.rdyq, S.qkey) < S.pprio[S.currpid]
          /\ S.pprio[r] \in Nat /\ S.pprio[S.currpid] \in Nat
      BY <1>1, <1>2, <3>4 DEF KeepsCPU
    <3>6. LastKey(S.rdyq, S.qkey) \in Int
      <4>1. S.rdyq # <<>> /\ Len(S.rdyq) \in 1..Len(S.rdyq)
        BY <3>2, <1>1, LastKeyIsGreatest
      <4>2. S.rdyq[Len(S.rdyq)] \in Pid
        BY <4>1, <1>1, ElementOfSeq
      <4> QED
        BY <4>1, <4>2, <1>1 DEF LastKey
    <3> QED
      BY <3>3, <3>4, <3>5, <3>6
  <2>4. SameBlocked(S, S)
    BY DEF SameBlocked
  <2> QED
    BY <2>1, <2>2, <2>3, <2>4
<1>3. CASE ~ KeepsCPU(S) /\ S.pstate[S.currpid] = "PRCURR"
  <2> DEFINE R == Ready(S, S.currpid)
  <2>1. /\ Consistent(R)
        /\ R.pstate = [S.pstate EXCEPT ![S.currpid] = "PRREADY"]
        /\ R.pprio = S.pprio /\ R.currpid = S.currpid
        /\ \A r \in Pid \ {S.currpid} : R.qkey[r] = S.qkey[r]
    BY <1>1, <1>3, ReadyConsistent
  <2>2. Resched(S) = Dispatch(R)
    BY <1>3 DEF Resched
  <2> HIDE DEF R
  <2>3. R.pstate[R.currpid] = "PRREADY"
    BY <2>1, <1>1 DEF SchedType
  <2>4. /\ Consistent(Dispatch(R)) /\ Running(Dispatch(R)) /\ Highest(Dispatch(R))
        /\ SameBlocked(R, Dispatch(R))
    BY <2>1, <2>3, DispatchHighest
  <2>5. SameBlocked(S, Dispatch(R))
    <3> DEFINE T == Dispatch(R)
    <3> HIDE DEF T
    <3>1. SameBlocked(R, T)
      BY <2>4 DEF T
    <3>2. ASSUME NEW r \in Pid
          PROVE  IF S.pstate[r] \in Runnable
                 THEN T.pstate[r] \in Runnable
                 ELSE T.pstate[r] = S.pstate[r] /\ T.qkey[r] = S.qkey[r]
      <4>1. CASE r = S.currpid
        <5>1. S.pstate[r] \in Runnable /\ R.pstate[r] \in Runnable
          BY <4>1, <1>1, <1>3, <2>1 DEF Runnable, SchedType
        <5> QED
          BY <5>1, <3>1 DEF SameBlocked
      <4>2. CASE r # S.currpid
        <5>1. R.pstate[r] = S.pstate[r] /\ R.qkey[r] = S.qkey[r]
          BY <4>2, <1>1, <2>1 DEF SchedType
        <5> QED
          BY <5>1, <3>1 DEF SameBlocked
      <4> QED
        BY <4>1, <4>2
    <3>3. SameBlocked(S, T)
      BY <2>1, <3>1, <3>2 DEF SameBlocked
    <3> QED
      BY <3>3 DEF T
  <2> QED
    BY <2>2, <2>4, <2>5
<1>4. CASE S.pstate[S.currpid] # "PRCURR"
  <2>1. Resched(S) = Dispatch(S)
    BY <1>4 DEF Resched, KeepsCPU
  <2> QED
    BY <2>1, <1>4, DispatchHighest DEF Running
<1> QED
  BY <1>2, <1>3, <1>4

-----------------------------------------------------------------------------
(* The states of the processes, the running one counted as ready: what the *)
(* queues of the other components depend on.                               *)
View(S) ==
  [p \in Pid |-> IF S.pstate[p] \in Runnable THEN "PRREADY" ELSE S.pstate[p]]

LEMMA SameBlockedView ==
  ASSUME NEW S, NEW T, SameBlocked(S, T)
  PROVE  View(T) = View(S)
BY DEF SameBlocked, View

LEMMA ReschedStep ==
  ASSUME NEW S, Consistent(S)
  PROVE  /\ Consistent(Resched(S)) /\ Running(Resched(S)) /\ Highest(Resched(S))
         /\ View(Resched(S)) = View(S)
BY ReschedHighest, SameBlockedView

LEMMA ReadyStep ==
  ASSUME NEW S, Consistent(S), Running(S), NEW p \in Pid,
         View(S)[p] # "PRREADY"
  PROVE  LET T == Ready(S, p)
         IN  /\ Consistent(T) /\ Running(T) /\ T.currpid = S.currpid
             /\ View(T) = [View(S) EXCEPT ![p] = "PRREADY"]
<1> DEFINE T == Ready(S, p)
<1>1. S \in SchedType /\ S.currpid \in Pid
  BY DEF Consistent, SchedType
<1>2. S.pstate[p] \notin Runnable
  BY DEF View
<1>3. /\ Consistent(T) /\ T.pstate = [S.pstate EXCEPT ![p] = "PRREADY"]
      /\ T.currpid = S.currpid
  BY <1>2, ReadyConsistent DEF Runnable
<1> HIDE DEF T
<1>4. p # S.currpid
  BY <1>2 DEF Running, Runnable
<1>5. Running(T)
  BY <1>1, <1>3, <1>4 DEF Running, SchedType
<1>6. View(T) = [View(S) EXCEPT ![p] = "PRREADY"]
  BY <1>1, <1>3 DEF View, SchedType, Runnable
<1> QED
  BY <1>3, <1>5, <1>6 DEF T

LEMMA ReadyNowStep ==
  ASSUME NEW S, Consistent(S), Running(S), NEW p \in Pid,
         View(S)[p] # "PRREADY"
  PROVE  LET T == ReadyNow(S, p)
         IN  /\ Consistent(T) /\ Running(T) /\ Highest(T)
             /\ View(T) = [View(S) EXCEPT ![p] = "PRREADY"]
BY ReadyStep, ReschedStep DEF ReadyNow

(* A process that is neither ready nor running changes state.              *)
LEMMA SetStateStep ==
  ASSUME NEW S, Consistent(S), Running(S), NEW p \in UserPid,
         View(S)[p] # "PRREADY", NEW st \in States \ Runnable
  PROVE  LET T == [S EXCEPT !.pstate[p] = st]
         IN  /\ Consistent(T) /\ Running(T) /\ T.currpid = S.currpid
             /\ Highest(S) => Highest(T)
             /\ View(T) = [View(S) EXCEPT ![p] = st]
<1> DEFINE T == [S EXCEPT !.pstate[p] = st]
<1>1. S \in SchedType /\ S.currpid \in Pid /\ p \in Pid
  BY NullprocIsPid DEF Consistent, SchedType
<1>2. S.pstate[p] \notin Runnable /\ p \notin ReadySet(S)
  BY <1>1 DEF View, ReadySet, Runnable
<1>3. Consistent(T) /\ ReadySet(T) = ReadySet(S)
  BY <1>2, SetBlockedState
<1>4. /\ T.pstate = [S.pstate EXCEPT ![p] = st] /\ T.currpid = S.currpid
      /\ T.pprio = S.pprio
  BY <1>1 DEF SchedType
<1> HIDE DEF T
<1>5. p # S.currpid
  BY <1>2 DEF Running, Runnable
<1>6. Running(T)
  BY <1>1, <1>4, <1>5 DEF Running, SchedType
<1>7. Highest(S) => Highest(T)
  BY <1>3, <1>4 DEF Highest
<1>8. View(T) = [View(S) EXCEPT ![p] = st]
  BY <1>1, <1>4 DEF View, SchedType
<1> QED
  BY <1>3, <1>4, <1>6, <1>7, <1>8 DEF T

(* The current process blocks.                                             *)
LEMMA BlockStep ==
  ASSUME NEW S, Consistent(S), Running(S), S.currpid \in UserPid,
         NEW st \in States \ Runnable
  PROVE  LET T == Block(S, st)
         IN  /\ Consistent(T) /\ Running(T) /\ Highest(T)
             /\ View(T) = [View(S) EXCEPT ![S.currpid] = st]
<1> DEFINE U == [S EXCEPT !.pstate[S.currpid] = st]
<1>1. S \in SchedType /\ S.currpid \in Pid
  BY DEF Consistent, SchedType
<1>2. S.currpid \notin ReadySet(S)
  BY DEF Running, ReadySet
<1>3. Consistent(U)
  BY <1>2, SetBlockedState
<1>4. U.pstate = [S.pstate EXCEPT ![S.currpid] = st]
  BY <1>1 DEF SchedType
<1>5. Block(S, st) = Resched(U)
  BY DEF Block
<1> HIDE DEF U
<1>6. View(U) = [View(S) EXCEPT ![S.currpid] = st]
  BY <1>1, <1>4 DEF View, SchedType
<1> QED
  BY <1>3, <1>5, <1>6, ReschedStep

(* A ready process leaves the ready list.                                  *)
LEMMA UnreadyStep ==
  ASSUME NEW S, Consistent(S), Running(S), NEW p \in UserPid,
         S.pstate[p] = "PRREADY", NEW st \in States \ Runnable
  PROVE  LET T == Unready(S, p, st)
         IN  /\ Consistent(T) /\ Running(T) /\ T.currpid = S.currpid
             /\ T.pprio = S.pprio
             /\ Highest(S) => Highest(T)
             /\ View(T) = [View(S) EXCEPT ![p] = st]
<1> DEFINE T == Unready(S, p, st)
<1>1. S \in SchedType /\ S.currpid \in Pid /\ p \in Pid /\ p # NULLPROC
  BY NullprocIsPid DEF Consistent, SchedType, UserPid
<1>2. p \in ReadySet(S) /\ st \in States \ {"PRREADY"} /\ st # "PRCURR"
  BY <1>1 DEF ReadySet, Runnable
<1>3. /\ Consistent(T) /\ T.pstate = [S.pstate EXCEPT ![p] = st]
      /\ T.pprio = S.pprio /\ T.currpid = S.currpid
      /\ ReadySet(T) = ReadySet(S) \ {p}
  BY <1>1, <1>2, UnreadyConsistent
<1> HIDE DEF T
<1>4. p # S.currpid
  BY DEF Running
<1>5. Running(T)
  BY <1>1, <1>3, <1>4 DEF Running, SchedType
<1>6. Highest(S) => Highest(T)
  BY <1>3 DEF Highest
<1>7. View(T) = [View(S) EXCEPT ![p] = st]
  BY <1>1, <1>3 DEF View, SchedType
<1> QED
  BY <1>3, <1>5, <1>6, <1>7 DEF T

LEMMA UnreadyKeys ==
  ASSUME NEW S \in SchedType, NEW p \in Pid, NEW st
  PROVE  \A r \in Pid \ {p} : Unready(S, p, st).qkey[r] = S.qkey[r]
<1>1. Unready(S, p, st).qkey = [S.qkey EXCEPT ![p] = 0]
  BY DEF Unready, SchedType
<1>2. S.qkey \in [Pid -> Int]
  BY DEF SchedType
<1> QED  BY <1>1, <1>2

(* Keys of processes that are not ready change.                            *)
LEMMA SetKeysStep ==
  ASSUME NEW S, Consistent(S), NEW key \in [Pid -> Int],
         \A p \in ReadySet(S) : key[p] = S.qkey[p]
  PROVE  LET T == [S EXCEPT !.qkey = key]
         IN  /\ Consistent(T) /\ T.currpid = S.currpid
             /\ T.pstate = S.pstate
             /\ Running(S) => Running(T)
             /\ Highest(S) => Highest(T)
             /\ View(T) = View(S)
<1> DEFINE T == [S EXCEPT !.qkey = key]
<1>1. S \in SchedType
  BY DEF Consistent
<1>3. Consistent(T)
  BY SetBlockedKeys
<1>4. T.pstate = S.pstate /\ T.currpid = S.currpid /\ T.pprio = S.pprio
  BY <1>1 DEF SchedType
<1> HIDE DEF T
<1>5. ReadySet(T) = ReadySet(S) /\ View(T) = View(S)
  BY <1>4 DEF ReadySet, View
<1> QED
  BY <1>3, <1>4, <1>5 DEF Running, Highest, T

(* The quantum is counted down, or set.                                    *)
LEMMA SetPreemptStep ==
  ASSUME NEW S, Consistent(S), NEW n \in 0..QUANTUM
  PROVE  LET T == [S EXCEPT !.preempt = n]
         IN  /\ Consistent(T) /\ T.currpid = S.currpid
             /\ Running(S) => Running(T)
             /\ Highest(S) => Highest(T)
             /\ View(T) = View(S)
<1> DEFINE T == [S EXCEPT !.preempt = n]
<1>1. S \in SchedType
  BY DEF Consistent
<1>2. T \in SchedType
  BY <1>1, FieldTypes
<1>3. /\ T.pstate = S.pstate /\ T.currpid = S.currpid /\ T.pprio = S.pprio
      /\ T.qkey = S.qkey /\ T.rdyq = S.rdyq
  BY <1>1 DEF SchedType
<1> HIDE DEF T
<1>4. ReadySet(T) = ReadySet(S) /\ View(T) = View(S)
  BY <1>3 DEF ReadySet, View
<1>5. Consistent(T)
  BY <1>2, <1>3, <1>4 DEF Consistent
<1> QED
  BY <1>3, <1>4, <1>5 DEF Running, Highest, T

(* The fields of a scheduler into which Ready has entered a process.         *)
LEMMA ReadyLiteral ==
  ASSUME NEW S \in SchedType, NEW p \in Pid
  PROVE  Ready(S, p) =
           [pstate |-> [S.pstate EXCEPT ![p] = "PRREADY"], pprio |-> S.pprio,
            qkey |-> [S.qkey EXCEPT ![p] = S.pprio[p]],
            rdyq |-> Insert(S.rdyq, p, S.qkey, S.pprio[p]),
            currpid |-> S.currpid, preempt |-> S.preempt]
<1> DEFINE rq == Insert(S.rdyq, p, S.qkey, S.pprio[p])
           T1 == [S EXCEPT !.pstate[p] = "PRREADY"]
           T2 == [T1 EXCEPT !.rdyq = rq]
           T3 == [T2 EXCEPT !.qkey[p] = S.pprio[p]]
<1>1. Ready(S, p) = T3
  BY DEF Ready, SchedType
<1> HIDE DEF rq
<1>2. S = [pstate |-> S.pstate, pprio |-> S.pprio, qkey |-> S.qkey,
           rdyq |-> S.rdyq, currpid |-> S.currpid, preempt |-> S.preempt]
  BY DEF SchedType
<1>3. T1 = [pstate |-> [S.pstate EXCEPT ![p] = "PRREADY"], pprio |-> S.pprio,
            qkey |-> S.qkey, rdyq |-> S.rdyq, currpid |-> S.currpid,
            preempt |-> S.preempt]
  BY <1>2
<1> HIDE DEF T1
<1>4. T1 = [pstate |-> T1.pstate, pprio |-> T1.pprio, qkey |-> T1.qkey,
            rdyq |-> T1.rdyq, currpid |-> T1.currpid, preempt |-> T1.preempt]
  BY <1>3
<1>5. T2 = [pstate |-> T1.pstate, pprio |-> T1.pprio, qkey |-> T1.qkey,
            rdyq |-> rq, currpid |-> T1.currpid, preempt |-> T1.preempt]
  BY <1>4
<1> HIDE DEF T2
<1>6. T2 = [pstate |-> T2.pstate, pprio |-> T2.pprio, qkey |-> T2.qkey,
            rdyq |-> T2.rdyq, currpid |-> T2.currpid, preempt |-> T2.preempt]
  BY <1>5
<1>7. T3 = [pstate |-> T2.pstate, pprio |-> T2.pprio,
            qkey |-> [T2.qkey EXCEPT ![p] = S.pprio[p]],
            rdyq |-> T2.rdyq, currpid |-> T2.currpid, preempt |-> T2.preempt]
  BY <1>6
<1>8. /\ T2.pstate = [S.pstate EXCEPT ![p] = "PRREADY"] /\ T2.pprio = S.pprio
      /\ T2.qkey = S.qkey /\ T2.rdyq = rq /\ T2.currpid = S.currpid
      /\ T2.preempt = S.preempt
  BY <1>3, <1>5
<1> HIDE DEF T3
<1> QED
  BY <1>1, <1>7, <1>8 DEF rq

(* chprio, for a process in each kind of state.                            *)
LEMMA ChprioStep ==
  ASSUME NEW S, Consistent(S), Running(S), Highest(S), NEW p \in UserPid,
         NEW n \in Nat
  PROVE  LET U == [S EXCEPT !.pprio[p] = n]
             T == CASE S.pstate[p] = "PRREADY" ->
                         Resched(Ready(Unready(U, p, "PRREADY"), p))
                    [] S.pstate[p] = "PRCURR" -> Resched(U)
                    [] OTHER -> U
         IN  /\ Consistent(T) /\ Running(T) /\ Highest(T)
             /\ View(T) = View(S)
             /\ \A r \in Pid : S.pstate[r] \notin Runnable => T.qkey[r] = S.qkey[r]
<1> DEFINE U == [S EXCEPT !.pprio[p] = n]
           R == Ready(Unready(U, p, "PRREADY"), p)
<1>1. S \in SchedType /\ S.currpid \in Pid /\ p \in Pid /\ p # NULLPROC
  BY NullprocIsPid DEF Consistent, SchedType, UserPid
<1>2. /\ U.pstate = S.pstate /\ U.currpid = S.currpid
      /\ \A r \in Pid \ {p} : U.pprio[r] = S.pprio[r]
  BY <1>1 DEF SchedType
<1>3. CASE S.pstate[p] = "PRREADY"
  <2> DEFINE W == Unready(S, p, "PRSUSP")
             X == [W EXCEPT !.pprio[p] = n]
  <2>1. "PRSUSP" \in States \ Runnable
    BY DEF States, Runnable
  <2>2. /\ Consistent(W) /\ Running(W) /\ W.currpid = S.currpid
        /\ View(W) = [View(S) EXCEPT ![p] = "PRSUSP"]
    BY <1>3, <2>1, UnreadyStep
  <2>3. p \notin ReadySet(W)
    BY <1>1, <2>2 DEF ReadySet, View, Runnable
  <2>4. Consistent(X)
    <3> HIDE DEF W
    <3> QED  BY <1>1, <2>2, <2>3, SetBlockedPrio
  <2>5. /\ X.pstate = W.pstate /\ X.currpid = W.currpid
    <3> HIDE DEF W
    <3> QED  BY <2>2 DEF Consistent, SchedType
  <2>6. View(X) = [View(S) EXCEPT ![p] = "PRSUSP"] /\ Running(X)
    <3> HIDE DEF W, X
    <3> QED  BY <2>2, <2>5 DEF View, Running
  <2>7. R = Ready(X, p)
    <3> DEFINE V == Unready(U, p, "PRREADY")
    <3>1. V \in SchedType /\ X \in SchedType
      <4>1. U \in SchedType
        BY <1>1, FieldTypes
      <4>2. U.rdyq = S.rdyq /\ U.qkey = S.qkey
        BY <1>1 DEF SchedType
      <4>3. V \in SchedType
        BY <1>1, <2>2, <4>1, <4>2 DEF Unready, SchedType, Consistent, States
      <4> QED  BY <2>4, <4>3 DEF Consistent
    <3>2. /\ V.pprio = X.pprio /\ V.qkey = X.qkey /\ V.rdyq = X.rdyq
          /\ V.currpid = X.currpid /\ V.preempt = X.preempt
      BY <1>1 DEF Unready, SchedType
    <3>3. [V.pstate EXCEPT ![p] = "PRREADY"] = [X.pstate EXCEPT ![p] = "PRREADY"]
      BY <1>1 DEF Unready, SchedType
    <3>4. R = Ready(V, p)
      OBVIOUS
    <3> HIDE DEF V, X, R
    <3>5. Ready(V, p) =
            [pstate |-> [V.pstate EXCEPT ![p] = "PRREADY"], pprio |-> V.pprio,
             qkey |-> [V.qkey EXCEPT ![p] = V.pprio[p]],
             rdyq |-> Insert(V.rdyq, p, V.qkey, V.pprio[p]),
             currpid |-> V.currpid, preempt |-> V.preempt]
      BY <1>1, <3>1, ReadyLiteral
    <3>6. Ready(X, p) =
            [pstate |-> [X.pstate EXCEPT ![p] = "PRREADY"], pprio |-> X.pprio,
             qkey |-> [X.qkey EXCEPT ![p] = X.pprio[p]],
             rdyq |-> Insert(X.rdyq, p, X.qkey, X.pprio[p]),
             currpid |-> X.currpid, preempt |-> X.preempt]
      BY <1>1, <3>1, ReadyLiteral
    <3> QED
      BY <3>2, <3>3, <3>4, <3>5, <3>6
  <2>8. /\ Consistent(R)
        /\ View(R) = [View(X) EXCEPT ![p] = "PRREADY"]
    <3>1. View(X)[p] # "PRREADY"
      BY <1>1, <2>6 DEF View
    <3> HIDE DEF X, R
    <3> QED  BY <1>1, <2>4, <2>6, <2>7, <3>1, ReadyStep
  <2>9. View(R) = View(S)
    <3> HIDE DEF X, R
    <3> QED  BY <1>1, <1>3, <2>6, <2>8 DEF View, Runnable
  <2>10. \A r \in Pid \ {p} : R.qkey[r] = S.qkey[r]
    <3>1. \A r \in Pid \ {p} : W.qkey[r] = S.qkey[r]
      <4> QED  BY <1>1, UnreadyKeys
    <3>2. X.qkey = W.qkey /\ X.pstate[p] # "PRREADY"
      <4>1. W.pstate[p] # "PRREADY"
        BY <1>1, <2>3 DEF ReadySet
      <4> HIDE DEF W
      <4> QED  BY <2>2, <4>1 DEF Consistent, SchedType
    <3> HIDE DEF W, X, R
    <3>3. \A r \in Pid \ {p} : Ready(X, p).qkey[r] = X.qkey[r]
      <4>1. p \in Pid /\ Consistent(X) /\ X.pstate[p] # "PRREADY"
        BY <1>1, <2>4, <3>2
      <4> QED  BY <4>1, ReadyConsistent
    <3> QED  BY <2>7, <3>1, <3>2, <3>3
  <2> HIDE DEF R
  <2>11. \A r \in Pid : S.pstate[r] \notin Runnable => Resched(R).qkey[r] = S.qkey[r]
    <3>1. SameBlocked(R, Resched(R))
      BY <2>8, ReschedHighest
    <3>2. \A r \in Pid : S.pstate[r] \notin Runnable => R.pstate[r] \notin Runnable /\ r # p
      <4>1. \A r \in Pid : View(R)[r] = View(S)[r]
        BY <2>9
      <4> QED  BY <1>3, <4>1 DEF View, Runnable
    <3> QED  BY <2>10, <3>1, <3>2 DEF SameBlocked
  <2> QED
    BY <1>3, <2>8, <2>9, <2>11, ReschedStep DEF R
<1>4. CASE S.pstate[p] # "PRREADY"
  <2>1. Consistent(U) /\ View(U) = View(S)
    <3>1. p \in Pid \ ReadySet(S)
      BY <1>1, <1>4 DEF ReadySet
    <3>2. Consistent(U)
      BY <3>1, SetBlockedPrio
    <3> HIDE DEF U
    <3> QED  BY <1>2, <3>2 DEF View
  <2>2. CASE S.pstate[p] = "PRCURR"
    <3>1. U.qkey = S.qkey
      BY <1>1 DEF SchedType
    <3> HIDE DEF U
    <3>2. SameBlocked(U, Resched(U))
      BY <2>1, ReschedHighest
    <3>3. \A r \in Pid : S.pstate[r] \notin Runnable => Resched(U).qkey[r] = S.qkey[r]
      BY <1>2, <3>1, <3>2 DEF SameBlocked
    <3> QED  BY <1>4, <2>1, <2>2, <3>3, ReschedStep DEF U
  <2>3. CASE S.pstate[p] # "PRCURR"
    <3>1. p # S.currpid
      BY <2>3 DEF Running
    <3>2. Running(U) /\ ReadySet(U) = ReadySet(S)
      BY <1>2 DEF Running, ReadySet
    <3>3. Highest(U)
      BY <1>1, <1>2, <1>4, <3>1, <3>2 DEF Highest, ReadySet
    <3>4. U.qkey = S.qkey
      BY <1>1 DEF SchedType
    <3> HIDE DEF U
    <3> QED  BY <1>4, <2>1, <2>3, <3>2, <3>3, <3>4 DEF U
  <2> QED
    BY <2>2, <2>3
<1> QED
  BY <1>3, <1>4

(* The priority of a process that is not runnable.                         *)
LEMMA SetPrioStep ==
  ASSUME NEW S, Consistent(S), Running(S), Highest(S), NEW p \in UserPid,
         NEW n \in Nat, S.pstate[p] \notin Runnable
  PROVE  LET U == [S EXCEPT !.pprio[p] = n]
         IN  /\ Consistent(U) /\ Running(U) /\ Highest(U)
             /\ View(U) = View(S)
<1> DEFINE U == [S EXCEPT !.pprio[p] = n]
<1>1. S \in SchedType /\ p \in Pid /\ p # S.currpid /\ p \in Pid \ ReadySet(S)
  BY NullprocIsPid DEF Consistent, SchedType, Running, ReadySet, Runnable
<1>2. /\ U.pstate = S.pstate /\ U.currpid = S.currpid
      /\ \A r \in Pid \ {p} : U.pprio[r] = S.pprio[r]
  BY <1>1 DEF SchedType
<1>3. Consistent(U)
  BY <1>1, SetBlockedPrio
<1> HIDE DEF U
<1>4. View(U) = View(S) /\ Running(U) /\ ReadySet(U) = ReadySet(S)
  BY <1>2 DEF View, Running, ReadySet
<1>5. S.currpid \in Pid /\ \A r \in ReadySet(S) : r \in Pid /\ r # p
  BY <1>1 DEF ReadySet, SchedType
<1>6. Highest(U)
  BY <1>1, <1>2, <1>4, <1>5 DEF Highest
<1> QED  BY <1>3, <1>4, <1>6 DEF U

(* create fills a free slot: the new process is suspended.                 *)
LEMMA CreateStep ==
  ASSUME NEW S, Consistent(S), Running(S), Highest(S), NEW p \in UserPid,
         S.pstate[p] = "PRFREE", NEW n \in Nat
  PROVE  LET T == [S EXCEPT !.pstate[p] = "PRSUSP", !.pprio[p] = n]
         IN  /\ Consistent(T) /\ Running(T) /\ Highest(T) /\ T.currpid = S.currpid
             /\ View(T) = [View(S) EXCEPT ![p] = "PRSUSP"]
<1> DEFINE U == [S EXCEPT !.pstate[p] = "PRSUSP"]
           T == [U EXCEPT !.pprio[p] = n]
<1>1. S \in SchedType /\ p \in Pid
  BY NullprocIsPid DEF Consistent, SchedType
<1>2. View(S)[p] # "PRREADY" /\ "PRSUSP" \in States \ Runnable
  BY <1>1 DEF View, Runnable, States
<1>3. /\ Consistent(U) /\ Running(U) /\ Highest(U) /\ U.currpid = S.currpid
      /\ View(U) = [View(S) EXCEPT ![p] = "PRSUSP"]
  BY <1>2, SetStateStep
<1>4. U.pstate[p] = "PRSUSP"
  BY <1>1 DEF SchedType
<1> HIDE DEF U
<1>5. /\ Consistent(T) /\ Running(T) /\ Highest(T) /\ View(T) = View(U)
  BY <1>3, <1>4, SetPrioStep DEF Runnable
<1>6. T.currpid = U.currpid
  BY <1>3 DEF Consistent, SchedType
<1>7. [S EXCEPT !.pstate[p] = "PRSUSP", !.pprio[p] = n] = T
  BY <1>1 DEF U, SchedType
<1> HIDE DEF T
<1> QED
  BY <1>3, <1>5, <1>6, <1>7

(* The end of the clock interrupt.                                         *)
LEMMA SchedPreempt ==
  ASSUME NEW S, Consistent(S), Running(S), Highest(S), NEW n \in 0..QUANTUM
  PROVE  LET T == [S EXCEPT !.preempt = n]
             R == IF T.preempt > 0 THEN T ELSE Resched(T)
         IN  /\ Consistent(R) /\ Running(R) /\ Highest(R)
             /\ View(R) = View(S)
<1> DEFINE T == [S EXCEPT !.preempt = n]
<1>1. Consistent(T) /\ Running(T) /\ Highest(T) /\ View(T) = View(S)
  BY SetPreemptStep
<1> HIDE DEF T
<1>2. /\ Consistent(Resched(T)) /\ Running(Resched(T)) /\ Highest(Resched(T))
      /\ View(Resched(T)) = View(T)
  BY <1>1, ReschedStep
<1> QED
  BY <1>1, <1>2 DEF T

-----------------------------------------------------------------------------

Queued == {"PRWAIT", "PRSLEEP", "PRTRECV"}

Waiters(V, ps, s) == {p \in Pid : V[p] = "PRWAIT" /\ ps[p] = s}
Sleepers(V)       == {p \in Pid : V[p] \in {"PRSLEEP", "PRTRECV"}}

(* The queues outside the scheduler hold the processes whose states (V, a  *)
(* View) and semaphores (ps) put them there.                               *)
QueuesOK(V, ps, sq, cq) ==
  /\ ps \in [Pid -> Sem]
  /\ sq \in [Sem -> Seq(Pid)]
  /\ \A s \in Sem : Holds(sq[s], Waiters(V, ps, s))
  /\ cq \in Seq(Pid)
  /\ Holds(cq, Sleepers(V))

Views == [Pid -> States]

(* A process on no queue changes its state to another that is on none.     *)
LEMMA QueuesStay ==
  ASSUME NEW V \in Views, NEW ps, NEW sq, NEW cq, QueuesOK(V, ps, sq, cq),
         NEW p \in Pid, V[p] \notin Queued, NEW st \in States \ Queued
  PROVE  QueuesOK([V EXCEPT ![p] = st], ps, sq, cq)
<1> DEFINE W == [V EXCEPT ![p] = st]
<1>1. \A s \in Sem : Waiters(W, ps, s) = Waiters(V, ps, s)
  BY DEF Views, Waiters, Queued
<1>2. Sleepers(W) = Sleepers(V)
  BY DEF Views, Sleepers, Queued
<1> QED
  BY <1>1, <1>2 DEF QueuesOK

(* wait                                                                    *)
LEMMA QueuesWait ==
  ASSUME NEW V \in Views, NEW ps, NEW sq, NEW cq, QueuesOK(V, ps, sq, cq),
         NEW p \in Pid, V[p] \notin Queued, NEW s \in Sem
  PROVE  QueuesOK([V EXCEPT ![p] = "PRWAIT"], [ps EXCEPT ![p] = s],
                  [sq EXCEPT ![s] = Enqueue(@, p)], cq)
<1> DEFINE W == [V EXCEPT ![p] = "PRWAIT"]
           qs == [ps EXCEPT ![p] = s]
           tq == [sq EXCEPT ![s] = Enqueue(@, p)]
<1>1. /\ ps \in [Pid -> Sem] /\ sq \in [Sem -> Seq(Pid)]
      /\ Holds(cq, Sleepers(V)) /\ cq \in Seq(Pid)
      /\ \A u \in Sem : Holds(sq[u], Waiters(V, ps, u))
  BY DEF QueuesOK
<1>2. Sleepers(W) = Sleepers(V)
  BY DEF Views, Sleepers, Queued
<1>3. Waiters(W, qs, s) = Waiters(V, ps, s) \cup {p} /\ p \notin Waiters(V, ps, s)
  BY <1>1 DEF Views, Waiters, Queued
<1>4. \A u \in Sem \ {s} : Waiters(W, qs, u) = Waiters(V, ps, u)
  BY <1>1 DEF Views, Waiters, Queued
<1>5. /\ Enqueue(sq[s], p) \in Seq(Pid)
      /\ Holds(Enqueue(sq[s], p), Waiters(W, qs, s))
  <2> DEFINE P == Waiters(V, ps, s)
  <2>1. Holds(sq[s], P) /\ p \notin P /\ sq[s] \in Seq(Pid)
    BY <1>1, <1>3
  <2> HIDE DEF P
  <2>2. Enqueue(sq[s], p) \in Seq(Pid) /\ Holds(Enqueue(sq[s], p), P \cup {p})
    BY <2>1, HoldsEnqueue
  <2> QED
    BY <2>2, <1>3 DEF P
<1>6. /\ tq \in [Sem -> Seq(Pid)] /\ qs \in [Pid -> Sem]
      /\ tq[s] = Enqueue(sq[s], p) /\ \A u \in Sem \ {s} : tq[u] = sq[u]
  BY <1>1, <1>5
<1> HIDE DEF W, qs, tq
<1>7. \A u \in Sem : Holds(tq[u], Waiters(W, qs, u))
  BY <1>1, <1>4, <1>5, <1>6
<1>8. QueuesOK(W, qs, tq, cq)
  BY <1>1, <1>2, <1>6, <1>7 DEF QueuesOK
<1> QED
  BY <1>8 DEF W, qs, tq

(* A waiter leaves semaphore s's queue, which becomes rest.                *)
LEMMA QueuesLeaveSem ==
  ASSUME NEW V \in Views, NEW ps, NEW sq, NEW cq, QueuesOK(V, ps, sq, cq),
         NEW s \in Sem, NEW p \in Waiters(V, ps, s), NEW st \in States \ Queued,
         NEW rest \in Seq(Pid), Holds(rest, Waiters(V, ps, s) \ {p})
  PROVE  QueuesOK([V EXCEPT ![p] = st], ps, [sq EXCEPT ![s] = rest], cq)
<1> DEFINE W == [V EXCEPT ![p] = st]
           tq == [sq EXCEPT ![s] = rest]
<1>1. /\ ps \in [Pid -> Sem] /\ sq \in [Sem -> Seq(Pid)]
      /\ Holds(cq, Sleepers(V)) /\ cq \in Seq(Pid)
      /\ \A u \in Sem : Holds(sq[u], Waiters(V, ps, u))
  BY DEF QueuesOK
<1>2. Sleepers(W) = Sleepers(V)
  BY DEF Views, Sleepers, Waiters, Queued
<1>3. Waiters(W, ps, s) = Waiters(V, ps, s) \ {p}
  BY <1>1 DEF Views, Waiters, Queued
<1>4. \A u \in Sem \ {s} : Waiters(W, ps, u) = Waiters(V, ps, u)
  BY <1>1 DEF Views, Waiters, Queued
<1>5. /\ tq \in [Sem -> Seq(Pid)]
      /\ tq[s] = rest /\ \A u \in Sem \ {s} : tq[u] = sq[u]
  BY <1>1
<1> HIDE DEF W, tq
<1>6. ASSUME NEW u \in Sem PROVE Holds(tq[u], Waiters(W, ps, u))
  <2>1. CASE u = s
    BY <1>3, <1>5, <2>1
  <2>2. CASE u # s
    <3>1. Holds(sq[u], Waiters(V, ps, u))
      BY <1>1
    <3>2. Waiters(W, ps, u) = Waiters(V, ps, u) /\ tq[u] = sq[u]
      BY <1>4, <1>5, <2>2
    <3> QED
      BY <3>1, <3>2, Zenon
  <2> QED
    BY <2>1, <2>2
<1>7. QueuesOK(W, ps, tq, cq)
  BY <1>1, <1>2, <1>5, <1>6 DEF QueuesOK
<1> QED
  BY <1>7 DEF W, tq

(* signal, sdelete, sreset: the first waiter leaves.                       *)
LEMMA QueuesFirst ==
  ASSUME NEW V \in Views, NEW ps, NEW sq, NEW cq, QueuesOK(V, ps, sq, cq),
         NEW s \in Sem, sq[s] # <<>>, NEW st \in States \ Queued
  PROVE  /\ Head(sq[s]) \in Pid /\ V[Head(sq[s])] = "PRWAIT"
         /\ QueuesOK([V EXCEPT ![Head(sq[s])] = st], ps,
                     [sq EXCEPT ![s] = Tail(@)], cq)
<1> DEFINE P == Waiters(V, ps, s)
<1>1. sq[s] \in Seq(Pid) /\ Holds(sq[s], P) /\ P \subseteq Pid
  BY DEF QueuesOK, Waiters
<1> HIDE DEF P
<1>2. Head(sq[s]) \in P /\ Tail(sq[s]) \in Seq(Pid) /\ Holds(Tail(sq[s]), P \ {Head(sq[s])})
  BY <1>1, HoldsTail
<1>3. QueuesOK([V EXCEPT ![Head(sq[s])] = st], ps, [sq EXCEPT ![s] = Tail(sq[s])], cq)
  BY <1>2, QueuesLeaveSem DEF P
<1> QED
  BY <1>1, <1>2, <1>3 DEF P, Waiters

(* kill: a waiter leaves from wherever it stands.                          *)
LEMMA QueuesUnwait ==
  ASSUME NEW V \in Views, NEW ps, NEW sq, NEW cq, QueuesOK(V, ps, sq, cq),
         NEW p \in Pid, V[p] = "PRWAIT", NEW st \in States \ Queued
  PROVE  QueuesOK([V EXCEPT ![p] = st], ps,
                  [sq EXCEPT ![ps[p]] = Dequeue(@, p)], cq)
<1> DEFINE s == ps[p]
           P == Waiters(V, ps, s)
<1>1. /\ s \in Sem /\ sq[s] \in Seq(Pid) /\ Holds(sq[s], P) /\ P \subseteq Pid
      /\ p \in P
  BY DEF QueuesOK, Waiters
<1> HIDE DEF P
<1>2. Dequeue(sq[s], p) \in Seq(Pid) /\ Holds(Dequeue(sq[s], p), P \ {p})
  BY <1>1, HoldsDequeue
<1>3. QueuesOK([V EXCEPT ![p] = st], ps, [sq EXCEPT ![s] = Dequeue(sq[s], p)], cq)
  BY <1>1, <1>2, QueuesLeaveSem DEF P
<1> QED
  BY <1>3

(* sleep, recvtim                                                          *)
LEMMA QueuesSleep ==
  ASSUME NEW V \in Views, NEW ps, NEW sq, NEW cq, QueuesOK(V, ps, sq, cq),
         NEW p \in Pid, V[p] \notin Queued, NEW st \in {"PRSLEEP", "PRTRECV"},
         NEW key \in [Pid -> Int], NEW n \in Int
  PROVE  /\ QueuesOK([V EXCEPT ![p] = st], ps, sq, Insertd(cq, p, key, n))
         /\ Insertd(cq, p, key, n) # <<>>
         /\ Head(Insertd(cq, p, key, n)) \in Pid
         /\ InsertdKeys(cq, p, key, n) \in [Pid -> Int]
<1> DEFINE W == [V EXCEPT ![p] = st]
           P == Sleepers(V)
           list == Insertd(cq, p, key, n)
<1>1. /\ cq \in Seq(Pid) /\ Holds(cq, P) /\ p \notin P /\ P \subseteq Pid
      /\ \A x \in Pid : V[x] \notin Queued => x \notin P
  BY DEF QueuesOK, Sleepers, Queued
<1>2. Sleepers(W) = P \cup {p} /\ \A s \in Sem : Waiters(W, ps, s) = Waiters(V, ps, s)
  BY DEF Views, Sleepers, Waiters, Queued
<1> HIDE DEF P, W
<1>3. /\ list \in Seq(Pid) /\ Holds(list, P \cup {p})
      /\ InsertdKeys(cq, p, key, n) \in [Pid -> Int]
  <2>1. list \in Seq(Pid) /\ Holds(list, P \cup {p})
    BY <1>1, InsertdProperties
  <2>2. InsertdKeys(cq, p, key, n) \in [Pid -> Int]
    BY <1>1, InsertdProperties
  <2> QED
    BY <2>1, <2>2
<1> HIDE DEF list
<1>4. list # <<>>
  <2> DEFINE Q == P \cup {p}
  <2>1. Holds(list, Q) /\ Q # {}
    BY <1>3
  <2> HIDE DEF Q
  <2> QED
    BY <2>1, <1>3, HoldsEmpty
<1>5. Head(list) \in Pid
  BY <1>3, <1>4
<1>6. QueuesOK(W, ps, sq, list)
  BY <1>2, <1>3 DEF QueuesOK
<1> QED
  BY <1>1, <1>3, <1>4, <1>5, <1>6 DEF W, list

LEMMA QueuesSleepKeys ==
  ASSUME NEW V \in Views, NEW ps, NEW sq, NEW cq, QueuesOK(V, ps, sq, cq),
         NEW p \in Pid, V[p] \notin Queued,
         NEW key \in [Pid -> Int], NEW n \in Int,
         NEW x \in Pid, x # p, V[x] \notin Queued
  PROVE  InsertdKeys(cq, p, key, n)[x] = key[x]
<1> DEFINE P == Sleepers(V)
<1>1. cq \in Seq(Pid) /\ Holds(cq, P) /\ p \notin P /\ x \notin P
  BY DEF QueuesOK, Sleepers, Queued
<1> HIDE DEF P
<1> QED
  BY <1>1, InsertdKeysElsewhere

(* A sleeper leaves the sleep queue, which becomes rest.                   *)
LEMMA QueuesLeaveClock ==
  ASSUME NEW V \in Views, NEW ps, NEW sq, NEW cq, QueuesOK(V, ps, sq, cq),
         NEW p \in Sleepers(V), NEW st \in States \ Queued,
         NEW rest \in Seq(Pid), Holds(rest, Sleepers(V) \ {p})
  PROVE  QueuesOK([V EXCEPT ![p] = st], ps, sq, rest)
<1> DEFINE W == [V EXCEPT ![p] = st]
<1>1. /\ Sleepers(W) = Sleepers(V) \ {p}
      /\ \A s \in Sem : Waiters(W, ps, s) = Waiters(V, ps, s)
  BY DEF Views, Sleepers, Waiters, Queued
<1> HIDE DEF W
<1>2. QueuesOK(W, ps, sq, rest)
  BY <1>1 DEF QueuesOK
<1> QED
  BY <1>2 DEF W

(* wakeup                                                                  *)
LEMMA QueuesDue ==
  ASSUME NEW V \in Views, NEW ps, NEW sq, NEW cq, QueuesOK(V, ps, sq, cq),
         cq # <<>>, NEW st \in States \ Queued
  PROVE  /\ Head(cq) \in Sleepers(V)
         /\ QueuesOK([V EXCEPT ![Head(cq)] = st], ps, sq, Tail(cq))
<1> DEFINE P == Sleepers(V)
<1>1. cq \in Seq(Pid) /\ Holds(cq, P)
  BY DEF QueuesOK
<1> HIDE DEF P
<1>2. Head(cq) \in P /\ Tail(cq) \in Seq(Pid) /\ Holds(Tail(cq), P \ {Head(cq)})
  BY <1>1, HoldsTail
<1> QED
  BY <1>2, QueuesLeaveClock DEF P

(* unsleep                                                                 *)
LEMMA QueuesUnsleep ==
  ASSUME NEW V \in Views, NEW ps, NEW sq, NEW cq, QueuesOK(V, ps, sq, cq),
         NEW p \in Sleepers(V), NEW st \in States \ Queued
  PROVE  QueuesOK([V EXCEPT ![p] = st], ps, sq, Dequeue(cq, p))
<1> DEFINE P == Sleepers(V)
<1>1. cq \in Seq(Pid) /\ Holds(cq, P) /\ p \in P
  BY DEF QueuesOK
<1> HIDE DEF P
<1>2. Dequeue(cq, p) \in Seq(Pid) /\ Holds(Dequeue(cq, p), P \ {p})
  BY <1>1, HoldsDequeue
<1> QED
  BY <1>2, QueuesLeaveClock DEF P

(* create: the slot of a process that is on no queue is given away.        *)
LEMMA QueuesPsem ==
  ASSUME NEW V \in Views, NEW ps, NEW sq, NEW cq, QueuesOK(V, ps, sq, cq),
         NEW p \in Pid, V[p] \notin Queued, NEW s \in Sem
  PROVE  QueuesOK(V, [ps EXCEPT ![p] = s], sq, cq)
<1>1. ps \in [Pid -> Sem]
  BY DEF QueuesOK
<1>2. \A u \in Sem : Waiters(V, [ps EXCEPT ![p] = s], u) = Waiters(V, ps, u)
  BY <1>1 DEF Views, Waiters, Queued
<1> QED
  BY <1>1, <1>2 DEF QueuesOK

-----------------------------------------------------------------------------
ContType == [op : {"user"} \cup LoopOps \cup RestOps, x : Nat, n : Nat]
SemLoops == {"signaln", "sdelete", "sreset"}

(* The unfinished calls: only the processor's owner cur is inside a loop.  *)
ContOK(ct, cur) ==
  /\ ct \in [Pid -> ContType]
  /\ \A p \in Pid : /\ ct[p].op \in LoopOps => p = cur
                    /\ ct[p].op \in SemLoops => ct[p].x \in Sem
                    /\ ct[p].op = "kill" => ct[p].x \in UserPid

(* What the clock interrupt reads describes the sleep queue.               *)
SltopOK(op, ne, top, cq) ==
  op # "wakeup" => /\ ne = (cq # <<>>)
                   /\ ne => top = Head(cq)

(* The variables no list depends on.                                       *)
OthersOK ==
  /\ sstate \in [Sem -> {"SFREE", "SUSED"}]
  /\ semcnt \in [Sem -> Int]
  /\ nextsem \in Sem
  /\ pwaitret \in [Pid -> {"OK", "DELETED"}]
  /\ slnempty \in BOOLEAN
  /\ sltop \in Pid
  /\ mbox \in [Pid -> Int]
  /\ numproc \in Int
  /\ nextproc \in Pid
  /\ pnxtkin \in [Pid -> Int]

(* The inductive invariant.  Consistent alone would not survive a clock    *)
(* tick: the tick counts down the key of the process sltop names, and that *)
(* process must be asleep, not on the ready list, whose keys must stay     *)
(* equal to the priorities.  Hence SltopOK; and QueuesOK, so that what     *)
(* signal, wakeup and unsleep take off a queue is a process that waits.    *)
IInv ==
  /\ Consistent(sched) /\ Running(sched)
  /\ cont[currpid].op \notin LoopOps => Highest(sched)
  /\ ContOK(cont, currpid)
  /\ QueuesOK(View(sched), psem, semq, clockq)
  /\ SltopOK(cont[currpid].op, slnempty, sltop, clockq)
  /\ OthersOK

LEMMA BasicTypes ==
  ASSUME IInv
  PROVE  /\ sched \in SchedType /\ currpid \in Pid /\ View(sched) \in Views
         /\ View(sched)[currpid] = "PRREADY"
         /\ \A p \in Pid : /\ View(sched)[p] \in Queued <=> pstate[p] \in Queued
                           /\ pstate[p] \notin Runnable => View(sched)[p] = pstate[p]
                           /\ pstate[p] \in Runnable <=> View(sched)[p] = "PRREADY"
<1>1. sched \in SchedType
  BY DEF IInv, Consistent
<1> QED
  BY <1>1 DEF IInv, Running, SchedType, View, Views, Runnable, Queued, States,
              currpid, pstate

LEMMA UserCont == User \in ContType /\ User.op = "user" /\ "user" \notin LoopOps
BY DEF User, Cont, ContType, LoopOps

(* The unfinished calls when the processor's owner is in no loop: any      *)
(* process may be the next owner.                                          *)
LEMMA ContSwitch ==
  ASSUME NEW ct, NEW cur \in Pid, ContOK(ct, cur), ct[cur].op \notin LoopOps,
         NEW new \in Pid
  PROVE  ContOK(ct, new) /\ ct[new].op \notin LoopOps
BY DEF ContOK

LEMMA ContSet ==
  ASSUME NEW ct, NEW cur \in Pid, ContOK(ct, cur), NEW p \in Pid,
         NEW c \in ContType, c.op \in LoopOps => p = cur,
         c.op \in SemLoops => c.x \in Sem, c.op = "kill" => c.x \in UserPid
  PROVE  /\ ContOK([ct EXCEPT ![p] = c], cur)
         /\ [ct EXCEPT ![p] = c][p] = c
BY DEF ContOK

LEMMA ContSetOwn ==
  ASSUME NEW ct, NEW cur \in Pid, ContOK(ct, cur), NEW c \in ContType,
         c.op \in SemLoops => c.x \in Sem, c.op = "kill" => c.x \in UserPid
  PROVE  /\ ContOK([ct EXCEPT ![cur] = c], cur)
         /\ [ct EXCEPT ![cur] = c][cur] = c
BY ContSet

LEMMA ContUser ==
  ASSUME NEW ct, NEW cur \in Pid, ContOK(ct, cur), NEW p \in Pid
  PROVE  ContOK([ct EXCEPT ![p] = User], cur) /\ [ct EXCEPT ![p] = User][p] = User
<1>1. "user" \notin SemLoops /\ "user" # "kill"
  BY DEF SemLoops
<1> QED
  BY <1>1, UserCont, ContSet

-----------------------------------------------------------------------------
(* A step that ends with a reschedule, its caller in no loop.              *)
LEMMA QuietStep ==
  ASSUME IInv, Consistent(sched'), Running(sched'), Highest(sched'),
         ContOK(cont', currpid), cont'[currpid].op \notin LoopOps
  PROVE  /\ Consistent(sched)' /\ Running(sched)'
         /\ (cont[currpid].op \notin LoopOps => Highest(sched))'
         /\ ContOK(cont, currpid)'
         /\ cont'[currpid'] .op # "wakeup"
<1>1. currpid' \in Pid
  BY DEF Consistent, SchedType, currpid
<1>2. ContOK(cont', currpid') /\ cont'[currpid'].op \notin LoopOps
  BY <1>1, BasicTypes, ContSwitch
<1> QED
  BY <1>2 DEF LoopOps

(* A step that leaves the sleep queue alone.                               *)
LEMMA ClockStays ==
  ASSUME IInv, UNCHANGED clockVars, cont[currpid].op # "wakeup"
  PROVE  SltopOK(cont[currpid].op, slnempty, sltop, clockq)'
BY DEF IInv, SltopOK, clockVars

LEMMA Caller ==
  ASSUME IInv, Interruptible
  PROVE  /\ cont[currpid] = User
         /\ cont[currpid].op \notin LoopOps /\ cont[currpid].op # "wakeup"
         /\ Highest(sched)
BY UserCont DEF IInv, Interruptible, LoopOps

LEMMA ResumeKeeps ==
  ASSUME IInv, NEW p \in UserPid, Resume(p),
         UNCHANGED <<semVars, clockVars, mbox, procVars>>
  PROVE  IInv'
<1>1. cont[currpid].op \notin LoopOps /\ cont[currpid].op # "wakeup"
  BY Caller DEF Resume, MayCall
<1>2. p \in Pid /\ pstate[p] = "PRSUSP"
  BY NullprocIsPid DEF Resume
<1>3. View(sched)[p] = "PRSUSP"
  BY <1>2, BasicTypes DEF Runnable
<1>4. /\ Consistent(sched') /\ Running(sched') /\ Highest(sched')
      /\ View(sched') = [View(sched) EXCEPT ![p] = "PRREADY"]
  BY <1>2, <1>3, ReadyNowStep DEF Resume, IInv
<1>5. QueuesOK(View(sched'), psem', semq', clockq')
  <2>1. "PRREADY" \in States \ Queued /\ "PRSUSP" \notin Queued
    BY DEF States, Queued
  <2>2. QueuesOK(View(sched), psem, semq, clockq)
    BY DEF IInv
  <2>3. QueuesOK([View(sched) EXCEPT ![p] = "PRREADY"], psem, semq, clockq)
    BY <1>2, <1>3, <2>1, <2>2, BasicTypes, QueuesStay
  <2> QED
    BY <1>4, <2>3 DEF semVars, clockVars
<1>6. OthersOK'
  BY DEF IInv, OthersOK, semVars, clockVars, procVars
<1>7. ContOK(cont', currpid) /\ cont'[currpid].op \notin LoopOps
  BY <1>1 DEF IInv, Resume
<1> QED
  BY <1>1, <1>4, <1>5, <1>6, <1>7, QuietStep, ClockStays DEF IInv

LEMMA SuspendKeeps ==
  ASSUME IInv, NEW p \in UserPid, Suspend(p),
         UNCHANGED <<semVars, clockVars, mbox, procVars>>
  PROVE  IInv'
<1>1. cont[currpid].op \notin LoopOps /\ cont[currpid].op # "wakeup" /\ Highest(sched)
  BY Caller DEF Suspend, MayCall
<1>2. /\ p \in Pid /\ Consistent(sched) /\ Running(sched)
      /\ QueuesOK(View(sched), psem, semq, clockq)
  BY NullprocIsPid DEF IInv
<1>3. "PRSUSP" \in States \ Queued /\ "PRREADY" \notin Queued /\ "PRSUSP" \in States \ Runnable
  BY DEF States, Queued, Runnable
<1>4. /\ Consistent(sched') /\ Running(sched') /\ Highest(sched')
      /\ View(sched') = [View(sched) EXCEPT ![p] = "PRSUSP"]
      /\ View(sched)[p] = "PRREADY"
  <2>1. CASE pstate[p] = "PRREADY" /\ sched' = Unready(sched, p, "PRSUSP")
    <3>1. sched.pstate[p] = "PRREADY"
      BY <2>1 DEF pstate
    <3>2. View(sched)[p] = "PRREADY"
      BY <2>1, <1>2, BasicTypes DEF Runnable
    <3> QED
      BY <2>1, <3>1, <3>2, <1>1, <1>2, <1>3, UnreadyStep
  <2>2. CASE pstate[p] = "PRCURR" /\ sched' = Block(sched, "PRSUSP")
    <3>1. p = sched.currpid
      BY <2>2, <1>2 DEF Consistent, pstate
    <3>2. View(sched)[p] = "PRREADY"
      BY <2>2, <1>2, BasicTypes DEF Runnable
    <3> QED
      BY <2>2, <3>1, <3>2, <1>2, <1>3, BlockStep
  <2> QED
    BY <2>1, <2>2 DEF Suspend
<1>5. QueuesOK(View(sched'), psem', semq', clockq')
  <2>1. QueuesOK([View(sched) EXCEPT ![p] = "PRSUSP"], psem, semq, clockq)
    BY <1>2, <1>3, <1>4, BasicTypes, QueuesStay
  <2> QED
    BY <1>4, <2>1 DEF semVars, clockVars
<1>6. OthersOK'
  BY DEF IInv, OthersOK, semVars, clockVars, procVars
<1>7. ContOK(cont', currpid) /\ cont'[currpid].op \notin LoopOps
  BY <1>1 DEF IInv, Suspend
<1> QED
  BY <1>1, <1>4, <1>5, <1>6, <1>7, QuietStep, ClockStays DEF IInv

LEMMA ChprioKeeps ==
  ASSUME IInv, NEW p \in UserPid, NEW newprio \in Prios, Chprio(p, newprio),
         UNCHANGED <<semVars, clockVars, mbox, procVars>>
  PROVE  IInv'
<1>1. cont[currpid].op \notin LoopOps /\ cont[currpid].op # "wakeup" /\ Highest(sched)
  BY Caller DEF Chprio, MayCall
<1>2. /\ Consistent(sched') /\ Running(sched') /\ Highest(sched')
      /\ View(sched') = View(sched)
  <2>1. newprio \in Nat
    BY SchedAssumption
  <2> QED
    BY <1>1, <2>1, ChprioStep DEF IInv, Chprio, pstate
<1>3. QueuesOK(View(sched'), psem', semq', clockq')
  BY <1>2 DEF IInv, semVars, clockVars
<1>4. OthersOK'
  BY DEF IInv, OthersOK, semVars, clockVars, procVars
<1>5. ContOK(cont', currpid) /\ cont'[currpid].op \notin LoopOps
  BY <1>1 DEF IInv, Chprio
<1> QED
  BY <1>1, <1>2, <1>3, <1>4, <1>5, QuietStep, ClockStays DEF IInv

LEMMA YieldKeeps ==
  ASSUME IInv, Yield, UNCHANGED <<semVars, clockVars, mbox, procVars>>
  PROVE  IInv'
<1>1. cont[currpid].op \notin LoopOps /\ cont[currpid].op # "wakeup"
  BY Caller DEF Yield, MayCall
<1>2. /\ Consistent(sched') /\ Running(sched') /\ Highest(sched')
      /\ View(sched') = View(sched)
  BY ReschedStep DEF IInv, Yield
<1>3. QueuesOK(View(sched'), psem', semq', clockq')
  BY <1>2 DEF IInv, semVars, clockVars
<1>4. OthersOK'
  BY DEF IInv, OthersOK, semVars, clockVars, procVars
<1>5. ContOK(cont', currpid) /\ cont'[currpid].op \notin LoopOps
  BY <1>1 DEF IInv, Yield
<1> QED
  BY <1>1, <1>2, <1>3, <1>4, <1>5, QuietStep, ClockStays DEF IInv

-----------------------------------------------------------------------------
(* newpid and newsem find a free slot when there is one.                   *)
LEMMA SlotBelowIsFree ==
  ASSUME NEW n \in Nat \ {0}, NEW from \in 0..(n - 1),
         NEW free, free \subseteq 0..(n - 1), free # {}
  PROVE  SlotBelow(from, n, free) \in free
<1> DEFINE at(d) == IF d <= from THEN from - d ELSE from - d + n
           T == {d \in 0..(n - 1) : at(d) \in free}
           P(d) == at(d) \in free /\ \A e \in 0..(d - 1) : at(e) \notin free
<1>1. T # {}
  <2>1. PICK f \in free : f \in 0..(n - 1)
    OBVIOUS
  <2>2. CASE f <= from
    <3>1. from - f \in 0..(n - 1) /\ at(from - f) = f
      BY <2>1, <2>2
    <3> QED  BY <2>1, <3>1
  <2>3. CASE f > from
    <3>1. from - f + n \in 0..(n - 1) /\ at(from - f + n) = f
      BY <2>1, <2>3
    <3> QED  BY <2>1, <3>1
  <2> QED
    BY <2>1, <2>2, <2>3
<1>2. PICK d \in T : \A e \in T : d <= e
  <2>1. T \subseteq Nat
    OBVIOUS
  <2> HIDE DEF T
  <2> QED  BY <1>1, <2>1, LeastNat, Zenon
<1>3. d \in 0..(n - 1) /\ P(d)
  <2>1. \A e \in 0..(d - 1) : e \in 0..(n - 1) /\ ~ (d <= e)
    BY <1>2
  <2> QED
    BY <1>2, <2>1
<1>4. SlotBelow(from, n, free) = at(CHOOSE c \in 0..(n - 1) : P(c))
  BY DEF SlotBelow
<1>5. P(CHOOSE c \in 0..(n - 1) : P(c))
  <2> HIDE DEF P
  <2> QED  BY <1>3, Zenon
<1> QED
  BY <1>4, <1>5

LEMMA SlotAfterIsSlot ==
  ASSUME NEW n \in Nat \ {0}, NEW slot \in 0..(n - 1)
  PROVE  SlotAfter(slot, n) \in 0..(n - 1)
BY DEF SlotAfter

LEMMA ScreateKeeps ==
  ASSUME IInv, NEW count \in Counts, Screate(count),
         UNCHANGED <<clockVars, mbox, procVars>>
  PROVE  IInv'
<1>1. cont[currpid].op \notin LoopOps /\ cont[currpid].op # "wakeup" /\ Highest(sched)
  BY Caller DEF Screate, MayCall
<1> DEFINE free == {u \in Sem : ~ Used(u)}
           s == SlotBelow(nextsem, NSEM, free)
<1>2. s \in Sem /\ SlotAfter(s, NSEM) \in Sem
  <2>1. NSEM \in Nat \ {0} /\ nextsem \in 0..(NSEM - 1) /\ free \subseteq 0..(NSEM - 1)
    BY SemAssumption DEF IInv, OthersOK, Sem
  <2>2. free # {}
    BY DEF Screate
  <2> HIDE DEF free
  <2>3. s \in free
    BY <2>1, <2>2, SlotBelowIsFree
  <2> HIDE DEF s
  <2> QED
    BY <2>1, <2>3, SlotAfterIsSlot DEF Sem
<1>3. /\ sstate' = [sstate EXCEPT ![s] = "SUSED"]
      /\ semcnt' = [semcnt EXCEPT ![s] = count] /\ nextsem' = SlotAfter(s, NSEM)
      /\ UNCHANGED <<sched, cont, semq, psem, pwaitret>>
  BY DEF Screate
<1>4. count \in Int
  BY SemAssumption
<1> HIDE DEF s
<1>5. OthersOK'
  BY <1>2, <1>3, <1>4 DEF IInv, OthersOK, clockVars, procVars
<1>6. ContOK(cont', currpid) /\ cont'[currpid].op \notin LoopOps
  BY <1>1, <1>3 DEF IInv
<1>7. QueuesOK(View(sched'), psem', semq', clockq')
  BY <1>3 DEF IInv, clockVars
<1>8. Consistent(sched') /\ Running(sched') /\ Highest(sched')
  BY <1>1, <1>3 DEF IInv
<1> QED
  BY <1>1, <1>5, <1>6, <1>7, <1>8, QuietStep, ClockStays DEF IInv

LEMMA WaitKeeps ==
  ASSUME IInv, NEW s \in Sem, Wait(s), UNCHANGED <<clockVars, mbox, procVars>>
  PROVE  IInv'
<1>1. /\ cont[currpid].op \notin LoopOps /\ cont[currpid].op # "wakeup"
      /\ Highest(sched) /\ currpid \in UserPid
  BY Caller, BasicTypes DEF Wait, MayCall, UserPid
<1>2. ContOK(cont', currpid) /\ cont'[currpid].op \notin LoopOps
  BY <1>1 DEF IInv, Wait
<1>3. OthersOK'
  BY BasicTypes DEF IInv, OthersOK, Wait, clockVars, procVars
<1>4. CASE UNCHANGED <<sched, semq, psem, pwaitret>>
  <2>1. QueuesOK(View(sched'), psem', semq', clockq')
    BY <1>4 DEF IInv, clockVars
  <2>2. Consistent(sched') /\ Running(sched') /\ Highest(sched')
    BY <1>1, <1>4 DEF IInv
  <2> QED
    BY <1>1, <1>2, <1>3, <2>1, <2>2, QuietStep, ClockStays DEF IInv
<1>5. CASE /\ psem' = [psem EXCEPT ![currpid] = s]
           /\ semq' = [semq EXCEPT ![s] = Enqueue(@, currpid)]
           /\ sched' = Block(sched, "PRWAIT")
  <2>1. "PRWAIT" \in States \ Runnable /\ "PRREADY" \notin Queued
    BY DEF States, Runnable, Queued
  <2>2. /\ Consistent(sched') /\ Running(sched') /\ Highest(sched')
        /\ View(sched') = [View(sched) EXCEPT ![currpid] = "PRWAIT"]
    BY <1>1, <1>5, <2>1, BlockStep DEF IInv, currpid
  <2>3. QueuesOK([View(sched) EXCEPT ![currpid] = "PRWAIT"],
                 [psem EXCEPT ![currpid] = s],
                 [semq EXCEPT ![s] = Enqueue(@, currpid)], clockq)
    BY <2>1, BasicTypes, QueuesWait DEF IInv
  <2>4. QueuesOK(View(sched'), psem', semq', clockq')
    BY <1>5, <2>2, <2>3 DEF clockVars
  <2> QED
    BY <1>1, <1>2, <1>3, <2>2, <2>4, QuietStep, ClockStays DEF IInv
<1> QED
  BY <1>4, <1>5 DEF Wait

(* One V, with and without the reschedule.                                 *)
LEMMA SignalOnceNow ==
  ASSUME IInv, Highest(sched), NEW s \in Sem, SignalOnce(s, TRUE),
         clockq' = clockq
  PROVE  /\ Consistent(sched') /\ Running(sched') /\ Highest(sched')
         /\ QueuesOK(View(sched'), psem', semq', clockq')
         /\ semcnt' \in [Sem -> Int] /\ UNCHANGED <<sstate, nextsem, pwaitret>>
<1>1. /\ semcnt' \in [Sem -> Int] /\ UNCHANGED <<sstate, nextsem, pwaitret>>
      /\ psem' = psem
  BY DEF SignalOnce, IInv, OthersOK
<1>2. CASE UNCHANGED <<sched, semq>>
  BY <1>1, <1>2 DEF IInv
<1>3. CASE /\ semq[s] # <<>> /\ sched' = ReadyNow(sched, Head(semq[s]))
           /\ semq' = [semq EXCEPT ![s] = Tail(@)]
  <2>1. "PRREADY" \in States \ Queued
    BY DEF States, Queued
  <2>2. /\ Head(semq[s]) \in Pid /\ View(sched)[Head(semq[s])] = "PRWAIT"
        /\ QueuesOK([View(sched) EXCEPT ![Head(semq[s])] = "PRREADY"], psem,
                    [semq EXCEPT ![s] = Tail(@)], clockq)
    BY <1>3, <2>1, BasicTypes, QueuesFirst DEF IInv
  <2>3. /\ Consistent(sched') /\ Running(sched') /\ Highest(sched')
        /\ View(sched') = [View(sched) EXCEPT ![Head(semq[s])] = "PRREADY"]
    BY <1>3, <2>2, ReadyNowStep DEF IInv
  <2> QED
    BY <1>1, <1>3, <2>2, <2>3
<1> QED
  BY <1>2, <1>3 DEF SignalOnce, Wake

LEMMA FirstReady ==
  ASSUME IInv, NEW s \in Sem, semq[s] # <<>>, sched' = Ready(sched, Head(semq[s])),
         semq' = [semq EXCEPT ![s] = Tail(@)], psem' = psem, clockq' = clockq
  PROVE  /\ Consistent(sched') /\ Running(sched') /\ currpid' = currpid
         /\ QueuesOK(View(sched'), psem', semq', clockq')
         /\ Head(semq[s]) \in Pid
<1>1. "PRREADY" \in States \ Queued
  BY DEF States, Queued
<1>2. /\ Head(semq[s]) \in Pid /\ View(sched)[Head(semq[s])] = "PRWAIT"
      /\ QueuesOK([View(sched) EXCEPT ![Head(semq[s])] = "PRREADY"], psem,
                  [semq EXCEPT ![s] = Tail(@)], clockq)
  BY <1>1, BasicTypes, QueuesFirst DEF IInv
<1>3. /\ Consistent(sched') /\ Running(sched') /\ sched'.currpid = sched.currpid
      /\ View(sched') = [View(sched) EXCEPT ![Head(semq[s])] = "PRREADY"]
  BY <1>2, ReadyStep DEF IInv
<1> QED
  BY <1>2, <1>3 DEF currpid

LEMMA SignalKeeps ==
  ASSUME IInv, NEW s \in Sem, Signal(s) \/ DeviceSignal(s),
         UNCHANGED <<clockVars, mbox, procVars>>
  PROVE  IInv'
<1>1. /\ cont[currpid].op \notin LoopOps /\ cont[currpid].op # "wakeup"
      /\ Highest(sched)
  BY Caller DEF Signal, DeviceSignal, MayCall
<1>2. SignalOnce(s, TRUE) /\ cont' = cont
  BY DEF Signal, DeviceSignal
<1>3. /\ Consistent(sched') /\ Running(sched') /\ Highest(sched')
      /\ QueuesOK(View(sched'), psem', semq', clockq')
      /\ semcnt' \in [Sem -> Int] /\ UNCHANGED <<sstate, nextsem, pwaitret>>
  BY <1>1, <1>2, SignalOnceNow DEF clockVars
<1>4. OthersOK'
  BY <1>3 DEF IInv, OthersOK, clockVars, procVars
<1>5. ContOK(cont', currpid) /\ cont'[currpid].op \notin LoopOps
  BY <1>1, <1>2 DEF IInv
<1> QED
  BY <1>1, <1>3, <1>4, <1>5, QuietStep, ClockStays DEF IInv

-----------------------------------------------------------------------------
(* A step of, or into, a loop over a semaphore's queue.                    *)
LEMMA LoopStep ==
  ASSUME IInv, Consistent(sched'), Running(sched'), currpid' = currpid,
         cont[currpid].op # "wakeup", ContOK(cont', currpid),
         cont'[currpid].op \in SemLoops, UNCHANGED clockVars
  PROVE  /\ Consistent(sched)' /\ Running(sched)'
         /\ (cont[currpid].op \notin LoopOps => Highest(sched))'
         /\ ContOK(cont, currpid)'
         /\ SltopOK(cont[currpid].op, slnempty, sltop, clockq)'
<1>1. SltopOK(cont[currpid].op, slnempty, sltop, clockq)'
  BY ClockStays
<1> QED
  BY <1>1 DEF SemLoops, LoopOps

LEMMA SemContSet ==
  ASSUME IInv, NEW op \in SemLoops, NEW s \in Sem, NEW n \in Nat,
         cont' = [cont EXCEPT ![currpid] = Cont(op, s, n)]
  PROVE  ContOK(cont', currpid) /\ cont'[currpid].op \in SemLoops
<1> DEFINE c == Cont(op, s, n)
<1>1. c.op = op /\ c.x = s /\ c.n = n
  BY DEF Cont
<1>2. c \in ContType
  BY SemAssumption DEF Cont, ContType, SemLoops, LoopOps, Sem
<1> HIDE DEF c
<1>3. c.op # "kill"
  BY <1>1 DEF SemLoops
<1>4. ContOK([cont EXCEPT ![currpid] = c], currpid) /\ [cont EXCEPT ![currpid] = c][currpid] = c
  <2>1. /\ currpid \in Pid /\ ContOK(cont, currpid)
        /\ c.op \in SemLoops => c.x \in Sem
        /\ c.op = "kill" => c.x \in UserPid
    BY <1>1, <1>3, BasicTypes DEF IInv
  <2>2. ContOK([cont EXCEPT ![currpid] = c], currpid)
    BY <1>2, <2>1, ContSetOwn
  <2>3. [cont EXCEPT ![currpid] = c][currpid] = c
    BY <2>1 DEF ContOK
  <2> QED
    BY <2>2, <2>3
<1> QED
  BY <1>1, <1>4 DEF c

(* The caller, in a loop over semaphore s.                                 *)
LEMMA InSemLoop ==
  ASSUME IInv, cont[currpid].op \in SemLoops
  PROVE  /\ cont[currpid].x \in Sem /\ cont[currpid].n \in Nat
         /\ cont[currpid] \in ContType
         /\ cont[currpid].op # "wakeup"
<1>1. "wakeup" \notin SemLoops
  BY DEF SemLoops
<1> QED
  BY <1>1, BasicTypes DEF IInv, ContOK, ContType

(* The loop's caller returns, after a reschedule.                          *)
LEMMA SemLoopEnds ==
  ASSUME IInv, cont[currpid].op \in SemLoops, sched' = Resched(sched),
         cont' = [cont EXCEPT ![currpid] = User], UNCHANGED <<semq, psem, clockVars>>
  PROVE  /\ Consistent(sched)' /\ Running(sched)'
         /\ (cont[currpid].op \notin LoopOps => Highest(sched))'
         /\ ContOK(cont, currpid)'
         /\ SltopOK(cont[currpid].op, slnempty, sltop, clockq)'
         /\ QueuesOK(View(sched), psem, semq, clockq)'
<1>1. /\ Consistent(sched') /\ Running(sched') /\ Highest(sched')
      /\ View(sched') = View(sched)
  BY ReschedStep DEF IInv
<1>2. ContOK(cont', currpid) /\ cont'[currpid] = User
  BY BasicTypes, ContUser DEF IInv
<1>3. QueuesOK(View(sched'), psem', semq', clockq')
  BY <1>1 DEF IInv, clockVars
<1>4. cont'[currpid].op \notin LoopOps
  BY <1>2, UserCont
<1>5. SltopOK(cont[currpid].op, slnempty, sltop, clockq)'
  BY InSemLoop, ClockStays
<1> QED
  BY <1>1, <1>2, <1>3, <1>4, <1>5, QuietStep

LEMMA SignalnKeeps ==
  ASSUME IInv, NEW s \in Sem, NEW count \in 1..MaxCount, Signaln(s, count),
         UNCHANGED <<clockVars, mbox, procVars>>
  PROVE  IInv'
<1>1. cont[currpid].op # "wakeup" /\ currpid' = currpid
  BY Caller DEF Signaln, MayCall, currpid
<1>2. ContOK(cont', currpid) /\ cont'[currpid].op \in SemLoops
  <2>1. "signaln" \in SemLoops /\ count \in Nat
    BY SemAssumption DEF SemLoops
  <2> QED
    BY <2>1, SemContSet DEF Signaln
<1>3. OthersOK' /\ QueuesOK(View(sched'), psem', semq', clockq')
  BY DEF IInv, OthersOK, Signaln, semVars, clockVars, procVars
<1>4. Consistent(sched') /\ Running(sched')
  BY DEF IInv, Signaln
<1> QED
  BY <1>1, <1>2, <1>3, <1>4, LoopStep DEF IInv

LEMMA SignalnLoopKeeps ==
  ASSUME IInv, SignalnLoop, UNCHANGED <<clockVars, mbox, procVars>>
  PROVE  IInv'
<1> DEFINE s == cont[currpid].x
           n == cont[currpid].n
<1>1. /\ s \in Sem /\ n \in Nat /\ cont[currpid] \in ContType
      /\ cont[currpid].op \in SemLoops /\ cont[currpid].op # "wakeup"
      /\ cont[currpid].op = "signaln"
  <2>1. cont[currpid].op = "signaln" /\ cont[currpid].op \in SemLoops
    BY DEF SignalnLoop, SemLoops
  <2> QED
    BY <2>1, InSemLoop
<1>2. CASE n > 0 /\ SignalOnce(s, FALSE) /\ cont' = [cont EXCEPT ![currpid].n = n - 1]
  <2>1. ContOK(cont', currpid) /\ cont'[currpid].op \in SemLoops
    <3>1. cont' = [cont EXCEPT ![currpid] = Cont("signaln", s, n - 1)]
      <4>1. [cont[currpid] EXCEPT !.n = n - 1] = Cont("signaln", s, n - 1)
        BY <1>1 DEF ContType, Cont
      <4> QED
        BY <1>2, <4>1
    <3>2. "signaln" \in SemLoops /\ n - 1 \in Nat
      BY <1>1, <1>2 DEF SemLoops
    <3> QED
      BY <1>1, <3>1, <3>2, SemContSet
  <2>2. /\ semcnt' \in [Sem -> Int] /\ UNCHANGED <<sstate, nextsem, psem, pwaitret>>
    BY <1>1, <1>2 DEF SignalOnce, IInv, OthersOK
  <2>3. /\ Consistent(sched') /\ Running(sched') /\ currpid' = currpid
        /\ QueuesOK(View(sched'), psem', semq', clockq')
    <3>1. CASE UNCHANGED <<sched, semq>>
      BY <2>2, <3>1 DEF IInv, currpid, clockVars
    <3>2. CASE /\ semq[s] # <<>> /\ sched' = Ready(sched, Head(semq[s]))
               /\ semq' = [semq EXCEPT ![s] = Tail(@)]
      BY <1>1, <2>2, <3>2, FirstReady DEF clockVars
    <3> QED
      BY <1>2, <3>1, <3>2 DEF SignalOnce, Wake
  <2>4. OthersOK'
    BY <2>2 DEF IInv, OthersOK, clockVars, procVars
  <2> QED
    BY <1>1, <2>1, <2>3, <2>4, LoopStep DEF IInv
<1>3. CASE /\ n = 0 /\ sched' = Resched(sched)
           /\ cont' = [cont EXCEPT ![currpid] = User] /\ UNCHANGED semVars
  <2>1. OthersOK'
    BY <1>3 DEF IInv, OthersOK, semVars, clockVars, procVars
  <2> QED
    BY <1>1, <1>3, <2>1, SemLoopEnds DEF IInv, semVars
<1> QED
  BY <1>2, <1>3 DEF SignalnLoop

LEMMA SdeleteKeeps ==
  ASSUME IInv, NEW s \in Sem, Sdelete(s), UNCHANGED <<clockVars, mbox, procVars>>
  PROVE  IInv'
<1>1. /\ cont[currpid].op # "wakeup" /\ cont[currpid].op \notin LoopOps
      /\ currpid' = currpid /\ Highest(sched)
  BY Caller DEF Sdelete, MayCall, currpid
<1>2. /\ Consistent(sched') /\ Running(sched') /\ Highest(sched')
      /\ QueuesOK(View(sched'), psem', semq', clockq')
  BY <1>1 DEF IInv, Sdelete, clockVars
<1>3. OthersOK'
  BY DEF IInv, OthersOK, Sdelete, clockVars, procVars
<1>4. CASE cont' = cont
  <2>1. ContOK(cont', currpid) /\ cont'[currpid].op \notin LoopOps
    BY <1>1, <1>4 DEF IInv
  <2> QED
    BY <1>1, <1>2, <1>3, <2>1, QuietStep, ClockStays DEF IInv
<1>5. CASE cont' = [cont EXCEPT ![currpid] = Cont("sdelete", s, 0)]
  <2>1. ContOK(cont', currpid) /\ cont'[currpid].op \in SemLoops
    <3>1. "sdelete" \in SemLoops /\ 0 \in Nat
      BY DEF SemLoops
    <3> QED
      BY <3>1, <1>5, SemContSet
  <2> QED
    BY <1>1, <1>2, <1>3, <2>1, LoopStep DEF IInv
<1> QED
  BY <1>4, <1>5 DEF Sdelete

LEMMA SdeleteLoopKeeps ==
  ASSUME IInv, SdeleteLoop, UNCHANGED <<clockVars, mbox, procVars>>
  PROVE  IInv'
<1> DEFINE s == cont[currpid].x
<1>1. /\ s \in Sem /\ cont[currpid].op \in SemLoops /\ cont[currpid].op # "wakeup"
  <2>1. cont[currpid].op \in SemLoops
    BY DEF SdeleteLoop, SemLoops
  <2> QED
    BY <2>1, InSemLoop
<1>2. UNCHANGED <<sstate, semcnt, nextsem, psem>>
  BY DEF SdeleteLoop
<1>3. CASE /\ semq[s] # <<>>
           /\ pwaitret' = [pwaitret EXCEPT ![Head(semq[s])] = "DELETED"]
           /\ sched' = Ready(sched, Head(semq[s]))
           /\ semq' = [semq EXCEPT ![s] = Tail(@)] /\ cont' = cont
  <2>1. /\ Consistent(sched') /\ Running(sched') /\ currpid' = currpid
        /\ QueuesOK(View(sched'), psem', semq', clockq')
        /\ Head(semq[s]) \in Pid
    BY <1>1, <1>2, <1>3, FirstReady DEF clockVars
  <2>2. OthersOK'
    BY <1>2, <1>3, <2>1 DEF IInv, OthersOK, clockVars, procVars
  <2>3. ContOK(cont', currpid) /\ cont'[currpid].op \in SemLoops
    BY <1>1, <1>3 DEF IInv
  <2> QED
    BY <1>1, <2>1, <2>2, <2>3, LoopStep DEF IInv
<1>4. CASE /\ sched' = Resched(sched) /\ cont' = [cont EXCEPT ![currpid] = User]
           /\ UNCHANGED <<semq, pwaitret>>
  <2>1. OthersOK'
    BY <1>2, <1>4 DEF IInv, OthersOK, clockVars, procVars
  <2> QED
    BY <1>1, <1>2, <1>4, <2>1, SemLoopEnds DEF IInv
<1> QED
  BY <1>3, <1>4 DEF SdeleteLoop

LEMMA SresetKeeps ==
  ASSUME IInv, NEW s \in Sem, NEW count \in Counts, Sreset(s, count),
         UNCHANGED <<clockVars, mbox, procVars>>
  PROVE  IInv'
<1>1. cont[currpid].op # "wakeup" /\ currpid' = currpid
  BY Caller DEF Sreset, MayCall, currpid
<1>2. ContOK(cont', currpid) /\ cont'[currpid].op \in SemLoops
  <2>1. "sreset" \in SemLoops /\ count \in Nat
    BY SemAssumption DEF SemLoops
  <2> QED
    BY <2>1, SemContSet DEF Sreset
<1>3. OthersOK' /\ QueuesOK(View(sched'), psem', semq', clockq')
  BY DEF IInv, OthersOK, Sreset, semVars, clockVars, procVars
<1>4. Consistent(sched') /\ Running(sched')
  BY DEF IInv, Sreset
<1> QED
  BY <1>1, <1>2, <1>3, <1>4, LoopStep DEF IInv

LEMMA SresetLoopKeeps ==
  ASSUME IInv, SresetLoop, UNCHANGED <<clockVars, mbox, procVars>>
  PROVE  IInv'
<1> DEFINE s == cont[currpid].x
<1>1. /\ s \in Sem /\ cont[currpid].op \in SemLoops /\ cont[currpid].op # "wakeup"
      /\ cont[currpid].n \in Nat
  <2>1. cont[currpid].op \in SemLoops
    BY DEF SresetLoop, SemLoops
  <2> QED
    BY <2>1, InSemLoop
<1>2. UNCHANGED <<sstate, nextsem, psem, pwaitret>>
  BY DEF SresetLoop
<1>3. CASE /\ semq[s] # <<>>
           /\ sched' = Ready(sched, Head(semq[s]))
           /\ semq' = [semq EXCEPT ![s] = Tail(@)] /\ UNCHANGED <<cont, semcnt>>
  <2>1. /\ Consistent(sched') /\ Running(sched') /\ currpid' = currpid
        /\ QueuesOK(View(sched'), psem', semq', clockq')
    BY <1>1, <1>2, <1>3, FirstReady DEF clockVars
  <2>2. OthersOK'
    BY <1>2, <1>3 DEF IInv, OthersOK, clockVars, procVars
  <2>3. ContOK(cont', currpid) /\ cont'[currpid].op \in SemLoops
    BY <1>1, <1>3 DEF IInv
  <2> QED
    BY <1>1, <2>1, <2>2, <2>3, LoopStep DEF IInv
<1>4. CASE /\ semcnt' = [semcnt EXCEPT ![s] = cont[currpid].n]
           /\ sched' = Resched(sched) /\ cont' = [cont EXCEPT ![currpid] = User]
           /\ UNCHANGED semq
  <2>1. OthersOK'
    BY <1>1, <1>2, <1>4 DEF IInv, OthersOK, clockVars, procVars
  <2> QED
    BY <1>1, <1>2, <1>4, <2>1, SemLoopEnds DEF IInv
<1> QED
  BY <1>3, <1>4 DEF SresetLoop

-----------------------------------------------------------------------------
(* sleep and recvtim, from the insertion on.                               *)
LEMMA SleepInStep ==
  ASSUME IInv, currpid \in UserPid, NEW n \in Nat,
         NEW st \in {"PRSLEEP", "PRTRECV"}, SleepIn(st, n),
         psem' = psem, semq' = semq
  PROVE  /\ Consistent(sched') /\ Running(sched') /\ Highest(sched')
         /\ QueuesOK(View(sched'), psem', semq', clockq')
         /\ slnempty' = TRUE /\ clockq' # <<>>
         /\ sltop' = Head(clockq') /\ sltop' \in Pid
<1> DEFINE key == InsertdKeys(clockq, currpid, sched.qkey, n)
           U   == [sched EXCEPT !.qkey = key]
<1>1. st \in States \ Runnable /\ "PRREADY" \notin Queued
  BY DEF States, Runnable, Queued
<1>2. /\ sched \in SchedType /\ currpid \in Pid /\ View(sched) \in Views
      /\ View(sched)[currpid] = "PRREADY" /\ sched.qkey \in [Pid -> Int]
      /\ QueuesOK(View(sched), psem, semq, clockq)
      /\ Consistent(sched) /\ Running(sched)
  BY BasicTypes DEF SchedType, IInv
<1>3. /\ clockq' = Insertd(clockq, currpid, sched.qkey, n) /\ slnempty' = TRUE
      /\ sltop' = Head(clockq') /\ sched' = Block(U, st)
  BY DEF SleepIn
<1>4. /\ QueuesOK([View(sched) EXCEPT ![currpid] = st], psem, semq, clockq')
      /\ clockq' # <<>> /\ Head(clockq') \in Pid /\ key \in [Pid -> Int]
  <2> DEFINE V == View(sched)
             k == sched.qkey
  <2>1. /\ V \in Views /\ QueuesOK(V, psem, semq, clockq) /\ currpid \in Pid
        /\ V[currpid] \notin Queued /\ k \in [Pid -> Int] /\ n \in Int
    BY <1>1, <1>2
  <2> HIDE DEF V, k
  <2>2. QueuesOK([V EXCEPT ![currpid] = st], psem, semq, Insertd(clockq, currpid, k, n))
    BY <2>1, QueuesSleep
  <2>3. /\ Insertd(clockq, currpid, k, n) # <<>>
        /\ Head(Insertd(clockq, currpid, k, n)) \in Pid
    BY <2>1, QueuesSleep
  <2>4. InsertdKeys(clockq, currpid, k, n) \in [Pid -> Int]
    BY <2>1, QueuesSleep
  <2> QED
    BY <2>2, <2>3, <2>4, <1>3 DEF V, k
<1>5. ASSUME NEW r \in ReadySet(sched) PROVE key[r] = sched.qkey[r]
  <2>1. r \in Pid /\ r # currpid /\ View(sched)[r] = "PRREADY"
    BY <1>2 DEF ReadySet, View, Runnable, Running, currpid
  <2> QED
    BY <2>1, <1>1, <1>2, QueuesSleepKeys
<1> HIDE DEF key
<1>6. /\ Consistent(U) /\ Running(U) /\ View(U) = View(sched)
      /\ U.currpid = sched.currpid
  BY <1>2, <1>4, <1>5, SetKeysStep
<1> HIDE DEF U
<1>7. /\ Consistent(sched') /\ Running(sched') /\ Highest(sched')
      /\ View(sched') = [View(sched) EXCEPT ![currpid] = st]
  BY <1>1, <1>3, <1>6, BlockStep DEF currpid
<1> QED
  BY <1>3, <1>4, <1>7

(* unsleep changes the keys of sleeping processes only.                    *)
LEMMA UnsleepKeysStep ==
  ASSUME IInv, NEW p \in Sleepers(View(sched))
  PROVE  LET T == [sched EXCEPT !.qkey = UnsleepKeys(p)]
         IN  /\ Consistent(T) /\ Running(T) /\ T.currpid = sched.currpid
             /\ T.pstate = sched.pstate
             /\ Highest(sched) => Highest(T)
             /\ View(T) = View(sched)
<1> DEFINE P == Sleepers(View(sched))
           i == PosOf(clockq, p)
           key == UnsleepKeys(p)
<1>1. /\ sched.qkey \in [Pid -> Int] /\ P \subseteq Pid
      /\ clockq \in Seq(Pid) /\ Holds(clockq, P) /\ p \in P
  BY BasicTypes DEF SchedType, Sleepers, QueuesOK, IInv
<1>2. \A r \in ReadySet(sched) : r \in Pid /\ r \notin P
  BY DEF ReadySet, Sleepers, View, Runnable
<1> HIDE DEF P
<1>3. i \in 1..Len(clockq) /\ Len(clockq) \in Nat
  BY <1>1, HoldsDequeue, LenProperties
<1>4. \A j \in 1..Len(clockq) : clockq[j] \in P
  BY <1>1, HoldsByIndex
<1>5. key = [r \in Pid |->
               IF r = p THEN 0
               ELSE IF i < Len(clockq) /\ r = clockq[i + 1]
                    THEN sched.qkey[r] + sched.qkey[p]
                    ELSE sched.qkey[r]]
  BY DEF UnsleepKeys
<1> HIDE DEF i, key
<1>6. key \in [Pid -> Int]
  BY <1>1, <1>5
<1>7. \A r \in ReadySet(sched) : key[r] = sched.qkey[r]
  <2>1. i < Len(clockq) => clockq[i + 1] \in P
    BY <1>3, <1>4
  <2> QED
    BY <1>1, <1>2, <1>5, <2>1
<1>8. LET T == [sched EXCEPT !.qkey = key]
      IN  /\ Consistent(T) /\ Running(T) /\ T.currpid = sched.currpid
          /\ T.pstate = sched.pstate
          /\ Highest(sched) => Highest(T)
          /\ View(T) = View(sched)
  BY <1>6, <1>7, SetKeysStep DEF IInv
<1> QED
  BY <1>8 DEF key

(* unsleep's other assignments.                                            *)
LEMMA UnsleepClock ==
  ASSUME IInv, cont[currpid].op # "wakeup", NEW p \in Sleepers(View(sched)),
         Unsleep(p), NEW st \in States \ Queued
  PROVE  /\ QueuesOK([View(sched) EXCEPT ![p] = st], psem, semq, clockq')
         /\ slnempty' = (clockq' # <<>>) /\ slnempty' \in BOOLEAN
         /\ slnempty' => sltop' = Head(clockq')
         /\ sltop' \in Pid
<1>1. /\ clockq' = Dequeue(clockq, p) /\ slnempty' = (slnempty /\ clockq' # <<>>)
      /\ sltop' = IF clockq' # <<>> THEN Head(clockq') ELSE sltop
  BY DEF Unsleep
<1>2. QueuesOK([View(sched) EXCEPT ![p] = st], psem, semq, clockq')
  BY <1>1, BasicTypes, QueuesUnsleep DEF IInv
<1>3. slnempty
  <2> DEFINE P == Sleepers(View(sched))
  <2>1. clockq \in Seq(Pid) /\ Holds(clockq, P) /\ P # {}
    BY DEF QueuesOK, IInv
  <2> HIDE DEF P
  <2>2. clockq # <<>>
    BY <2>1, HoldsEmpty
  <2> QED
    BY <2>2 DEF IInv, SltopOK
<1>4. clockq' \in Seq(Pid) /\ sltop \in Pid
  BY <1>2 DEF QueuesOK, IInv, OthersOK
<1>5. slnempty' = (clockq' # <<>>) /\ slnempty' \in BOOLEAN
  BY <1>1, <1>3, Zenon
<1>6. (slnempty' => sltop' = Head(clockq')) /\ sltop' \in Pid
  <2>1. CASE clockq' = <<>>
    <3>1. ~ slnempty' /\ sltop' = sltop
      BY <1>1, <2>1, Zenon
    <3> QED  BY <3>1, <1>4, Zenon
  <2>2. CASE clockq' # <<>>
    <3>1. sltop' = Head(clockq')
      BY <1>1, <2>2, Zenon
    <3>2. Head(clockq') \in Pid
      BY <1>4, <2>2
    <3> QED  BY <3>1, <3>2, Zenon
  <2> QED
    BY <2>1, <2>2
<1> QED
  BY <1>2, <1>5, <1>6, Zenon

(* clkint's count of the quantum.                                          *)
LEMMA CountQuantumStep ==
  ASSUME NEW S, Consistent(S), Running(S), Highest(S)
  PROVE  LET R == CountQuantum(S)
         IN  /\ Consistent(R) /\ Running(R) /\ Highest(R)
             /\ View(R) = View(S)
<1> DEFINE n == IF S.preempt > 0 THEN S.preempt - 1 ELSE 0
<1>1. n \in 0..QUANTUM
  BY SchedAssumption DEF Consistent, SchedType
<1>2. CountQuantum(S) = LET T == [S EXCEPT !.preempt = n]
                        IN  IF T.preempt > 0 THEN T ELSE Resched(T)
  BY DEF CountQuantum
<1> HIDE DEF n
<1> QED
  BY <1>1, <1>2, SchedPreempt

LEMMA SleepKeeps ==
  ASSUME IInv, NEW n \in Delays, Sleep(n), UNCHANGED <<semVars, mbox, procVars>>
  PROVE  IInv'
<1>1. cont[currpid].op \notin LoopOps /\ currpid \in UserPid /\ cont' = cont
  BY Caller, BasicTypes DEF Sleep, MayCall, UserPid
<1>2. /\ Consistent(sched') /\ Running(sched') /\ Highest(sched')
      /\ QueuesOK(View(sched'), psem', semq', clockq')
      /\ slnempty' = TRUE /\ clockq' # <<>>
      /\ sltop' = Head(clockq') /\ sltop' \in Pid
  <2>1. n \in Nat /\ psem' = psem /\ semq' = semq
    BY ClockAssumption DEF semVars
  <2> QED
    BY <1>1, <2>1, SleepInStep DEF Sleep
<1>3. SltopOK(cont[currpid].op, slnempty, sltop, clockq)'
  BY <1>2 DEF SltopOK
<1>4. OthersOK'
  BY <1>2 DEF IInv, OthersOK, semVars, procVars
<1>5. ContOK(cont', currpid) /\ cont'[currpid].op \notin LoopOps
  BY <1>1 DEF IInv
<1> QED
  BY <1>2, <1>3, <1>4, <1>5, QuietStep DEF IInv

LEMMA ClockTickKeeps ==
  ASSUME IInv, ClockTick, UNCHANGED <<semVars, mbox, procVars>>
  PROVE  IInv'
<1> DEFINE S == IF slnempty THEN [sched EXCEPT !.qkey[sltop] = @ - 1] ELSE sched
<1>1. /\ cont[currpid].op \notin LoopOps /\ cont[currpid].op # "wakeup"
      /\ Highest(sched) /\ UNCHANGED clockVars
  BY Caller DEF ClockTick
<1>2. /\ Consistent(S) /\ Running(S) /\ Highest(S) /\ View(S) = View(sched)
      /\ S.currpid = sched.currpid
  <2>1. CASE slnempty
    <3> DEFINE key == [sched.qkey EXCEPT ![sltop] = @ - 1]
    <3>1. S = [sched EXCEPT !.qkey = key]
      BY <2>1
    <3>2. sched.qkey \in [Pid -> Int] /\ sltop \in Pid
      BY BasicTypes DEF SchedType, IInv, OthersOK
    <3>3. sltop \in Sleepers(View(sched))
      <4>1. clockq # <<>> /\ sltop = Head(clockq)
        BY <1>1, <2>1 DEF IInv, SltopOK
      <4>2. "PRSUSP" \in States \ Queued
        BY DEF States, Queued
      <4> QED
        BY <4>1, <4>2, BasicTypes, QueuesDue DEF IInv
    <3>4. \A r \in ReadySet(sched) : key[r] = sched.qkey[r]
      BY <3>2, <3>3 DEF ReadySet, Sleepers, View, Runnable
    <3>5. key \in [Pid -> Int]
      BY <3>2
    <3> HIDE DEF key, S
    <3> QED
      BY <1>1, <3>1, <3>4, <3>5, SetKeysStep DEF IInv
  <2>2. CASE ~ slnempty
    BY <1>1, <2>2 DEF IInv
  <2> QED
    BY <2>1, <2>2
<1>3. OthersOK'
  BY <1>1 DEF IInv, OthersOK, semVars, clockVars, procVars
<1>4. CASE sched' = S /\ cont' = [cont EXCEPT ![currpid] = Cont("wakeup", 0, 0)]
  <2> DEFINE c == Cont("wakeup", 0, 0)
  <2>1. c \in ContType /\ c.op \notin SemLoops /\ c.op # "kill" /\ c.op = "wakeup"
    BY DEF Cont, ContType, LoopOps, SemLoops
  <2>2. cont' = [cont EXCEPT ![currpid] = c]
    BY <1>4
  <2> HIDE DEF c, S
  <2>3. ContOK(cont', currpid) /\ cont'[currpid] = c
    <3>1. currpid \in Pid /\ ContOK(cont, currpid)
      BY BasicTypes DEF IInv
    <3>2. ContOK([cont EXCEPT ![currpid] = c], currpid)
      BY <2>1, <3>1, ContSetOwn
    <3>3. [cont EXCEPT ![currpid] = c][currpid] = c
      BY <3>1 DEF ContOK
    <3> QED
      BY <2>2, <3>2, <3>3
  <2>4. currpid' = currpid
    BY <1>2, <1>4 DEF currpid
  <2>5. QueuesOK(View(sched'), psem', semq', clockq')
    BY <1>1, <1>2, <1>4 DEF IInv, semVars, clockVars
  <2>6. SltopOK(cont[currpid].op, slnempty, sltop, clockq)'
    BY <2>1, <2>3, <2>4 DEF SltopOK
  <2>7. (cont[currpid].op \notin LoopOps => Highest(sched))'
    BY <1>2, <1>4
  <2> QED
    BY <1>2, <1>3, <1>4, <2>3, <2>4, <2>5, <2>6, <2>7 DEF IInv
<1>5. CASE sched' = CountQuantum(S) /\ cont' = cont
  <2> HIDE DEF S
  <2>1. /\ Consistent(sched') /\ Running(sched') /\ Highest(sched')
        /\ View(sched') = View(S)
    BY <1>2, <1>5, CountQuantumStep
  <2>2. QueuesOK(View(sched'), psem', semq', clockq')
    BY <1>1, <1>2, <2>1 DEF IInv, semVars, clockVars
  <2>3. ContOK(cont', currpid) /\ cont'[currpid].op \notin LoopOps
    BY <1>1, <1>5 DEF IInv
  <2> QED
    BY <1>1, <1>3, <2>1, <2>2, <2>3, QuietStep, ClockStays DEF IInv
<1> QED
  BY <1>4, <1>5 DEF ClockTick

LEMMA WakeupLoopKeeps ==
  ASSUME IInv, WakeupLoop, UNCHANGED <<semVars, mbox, procVars>>
  PROVE  IInv'
<1>1. cont[currpid].op = "wakeup" /\ psem' = psem /\ semq' = semq
  BY DEF WakeupLoop, semVars
<1>2. "PRREADY" \in States \ Queued
  BY DEF States, Queued
<1>3. CASE /\ clockq # <<>> /\ sched' = Ready(sched, Head(clockq))
           /\ clockq' = Tail(clockq) /\ UNCHANGED <<cont, slnempty, sltop>>
  <2>1. /\ Head(clockq) \in Sleepers(View(sched))
        /\ QueuesOK([View(sched) EXCEPT ![Head(clockq)] = "PRREADY"], psem, semq, Tail(clockq))
    BY <1>2, <1>3, BasicTypes, QueuesDue DEF IInv
  <2>2. Head(clockq) \in Pid /\ View(sched)[Head(clockq)] # "PRREADY"
    BY <2>1 DEF Sleepers
  <2>3. /\ Consistent(sched') /\ Running(sched') /\ sched'.currpid = sched.currpid
        /\ View(sched') = [View(sched) EXCEPT ![Head(clockq)] = "PRREADY"]
    BY <1>3, <2>2, ReadyStep DEF IInv
  <2>4. currpid' = currpid
    BY <2>3 DEF currpid
  <2>5. OthersOK'
    BY <1>3 DEF IInv, OthersOK, semVars, procVars
  <2>6. /\ ContOK(cont, currpid)' /\ cont'[currpid'].op = "wakeup"
        /\ QueuesOK(View(sched), psem, semq, clockq)'
    BY <1>1, <1>3, <2>1, <2>3, <2>4 DEF IInv
  <2> QED
    BY <2>3, <2>5, <2>6 DEF IInv, SltopOK, LoopOps
<1>4. CASE /\ slnempty' = (clockq # <<>>)
           /\ sltop' = IF clockq # <<>> THEN Head(clockq) ELSE sltop
           /\ sched' = Resched(sched)
           /\ cont' = [cont EXCEPT ![currpid] = Cont("clkint", 0, 0)]
           /\ UNCHANGED clockq
  <2> DEFINE c == Cont("clkint", 0, 0)
  <2>1. c \in ContType /\ c.op \notin SemLoops /\ c.op # "kill" /\ c.op \notin LoopOps
    BY DEF Cont, ContType, LoopOps, SemLoops, RestOps
  <2>2. cont' = [cont EXCEPT ![currpid] = c]
    BY <1>4
  <2> HIDE DEF c
  <2>3. ContOK(cont', currpid) /\ cont'[currpid].op \notin LoopOps
    <3>1. currpid \in Pid /\ ContOK(cont, currpid)
      BY BasicTypes DEF IInv
    <3>2. /\ ContOK([cont EXCEPT ![currpid] = c], currpid)
          /\ [cont EXCEPT ![currpid] = c][currpid] = c
      BY <2>1, <3>1, ContSetOwn
    <3> QED
      BY <2>1, <2>2, <3>2, Zenon
  <2>4. /\ Consistent(sched') /\ Running(sched') /\ Highest(sched')
        /\ View(sched') = View(sched)
    BY <1>4, ReschedStep DEF IInv
  <2>5. QueuesOK(View(sched'), psem', semq', clockq')
    BY <1>1, <1>4, <2>4 DEF IInv
  <2>6. SltopOK(cont[currpid].op, slnempty, sltop, clockq)'
    BY <1>4 DEF SltopOK
  <2>7. OthersOK'
    <3>1. sltop' \in Pid
      BY <1>4 DEF IInv, OthersOK, QueuesOK
    <3> QED
      BY <1>4, <3>1 DEF IInv, OthersOK, semVars, procVars
  <2> QED
    BY <2>3, <2>4, <2>5, <2>6, <2>7, QuietStep DEF IInv
<1> QED
  BY <1>3, <1>4 DEF WakeupLoop

LEMMA ClkintRestKeeps ==
  ASSUME IInv, ClkintRest, UNCHANGED <<semVars, mbox, procVars>>
  PROVE  IInv'
<1>1. /\ cont[currpid].op \notin LoopOps /\ cont[currpid].op # "wakeup"
      /\ UNCHANGED clockVars /\ sched' = CountQuantum(sched)
      /\ cont' = [cont EXCEPT ![currpid] = User]
  BY DEF ClkintRest, LoopOps
<1>2. /\ Consistent(sched') /\ Running(sched') /\ Highest(sched')
      /\ View(sched') = View(sched)
  BY <1>1, CountQuantumStep DEF IInv
<1>3. ContOK(cont', currpid) /\ cont'[currpid] = User
  BY <1>1, BasicTypes, ContUser DEF IInv
<1>4. OthersOK' /\ QueuesOK(View(sched'), psem', semq', clockq')
  BY <1>1, <1>2 DEF IInv, OthersOK, semVars, clockVars, procVars
<1> QED
  BY <1>1, <1>2, <1>3, <1>4, UserCont, QuietStep, ClockStays DEF IInv

-----------------------------------------------------------------------------
(* send, from a user process or from kill.                                 *)
LEMMA SendStep ==
  ASSUME IInv, cont[currpid].op \notin LoopOps, NEW p \in Int, NEW msg \in Int,
         Send(p, msg), psem' = psem, semq' = semq
  PROVE  /\ Consistent(sched') /\ Running(sched') /\ Highest(sched')
         /\ QueuesOK(View(sched'), psem', semq', clockq')
         /\ slnempty' = (clockq' # <<>>)
         /\ slnempty' => sltop' = Head(clockq')
         /\ mbox' \in [Pid -> Int] /\ sltop' \in Pid /\ slnempty' \in BOOLEAN
<1>1. /\ Highest(sched) /\ Consistent(sched) /\ Running(sched)
      /\ QueuesOK(View(sched), psem, semq, clockq)
      /\ slnempty = (clockq # <<>>) /\ (slnempty => sltop = Head(clockq))
      /\ mbox \in [Pid -> Int] /\ sltop \in Pid /\ slnempty \in BOOLEAN
      /\ cont[currpid].op # "wakeup"
  BY DEF IInv, SltopOK, OthersOK, LoopOps
<1>2. "PRREADY" \in States \ Queued /\ "PRRECV" \notin Queued
  BY DEF States, Queued
<1>3. CASE UNCHANGED <<sched, clockVars>> /\ mbox' \in [Pid -> Int]
  <2>1. UNCHANGED <<sched, clockq, slnempty, sltop>>
    BY <1>3 DEF clockVars
  <2> QED
    BY <1>1, <1>3, <2>1
<1>4. CASE /\ p \in UserPid /\ mbox' = [mbox EXCEPT ![p] = msg]
           /\ pstate[p] = "PRRECV"
           /\ sched' = ReadyNow(sched, p) /\ UNCHANGED clockVars
  <2>1. p \in Pid /\ View(sched)[p] = "PRRECV"
    BY <1>4, BasicTypes, NullprocIsPid DEF Runnable
  <2>2. /\ Consistent(sched') /\ Running(sched') /\ Highest(sched')
        /\ View(sched') = [View(sched) EXCEPT ![p] = "PRREADY"]
    BY <1>1, <1>4, <2>1, ReadyNowStep
  <2>3. QueuesOK([View(sched) EXCEPT ![p] = "PRREADY"], psem, semq, clockq)
    BY <1>1, <1>2, <2>1, BasicTypes, QueuesStay
  <2>4. mbox' \in [Pid -> Int] /\ UNCHANGED <<clockq, slnempty, sltop>>
    BY <1>1, <1>4, <2>1 DEF clockVars
  <2> QED
    BY <1>1, <2>2, <2>3, <2>4
<1>5. CASE /\ p \in UserPid /\ mbox' = [mbox EXCEPT ![p] = msg]
           /\ pstate[p] = "PRTRECV"
           /\ sched' = ReadyNow([sched EXCEPT !.qkey = UnsleepKeys(p)], p)
           /\ Unsleep(p)
  <2> DEFINE T == [sched EXCEPT !.qkey = UnsleepKeys(p)]
  <2>1. p \in Pid /\ View(sched)[p] = "PRTRECV" /\ p \in Sleepers(View(sched))
    BY <1>5, BasicTypes, NullprocIsPid DEF Runnable, Sleepers
  <2>2. Consistent(T) /\ Running(T) /\ View(T) = View(sched)
    BY <2>1, UnsleepKeysStep
  <2>3. sched' = ReadyNow(T, p)
    BY <1>5
  <2> HIDE DEF T
  <2>4. /\ Consistent(sched') /\ Running(sched') /\ Highest(sched')
        /\ View(sched') = [View(sched) EXCEPT ![p] = "PRREADY"]
    BY <2>1, <2>2, <2>3, ReadyNowStep
  <2>5. /\ QueuesOK([View(sched) EXCEPT ![p] = "PRREADY"], psem, semq, clockq')
        /\ slnempty' = (clockq' # <<>>) /\ slnempty' \in BOOLEAN
        /\ slnempty' => sltop' = Head(clockq')
        /\ sltop' \in Pid
    BY <1>1, <1>2, <1>5, <2>1, UnsleepClock
  <2>6. mbox' \in [Pid -> Int]
    BY <1>1, <1>5, <2>1
  <2> QED
    BY <2>4, <2>5, <2>6
<1>6. CASE p \notin UserPid \/ pstate[p] = "PRFREE" \/ phasmsg(p)
  BY <1>1, <1>3, <1>6 DEF Send
<1>7. CASE ~ (p \notin UserPid \/ pstate[p] = "PRFREE" \/ phasmsg(p))
  <2>1. p \in UserPid /\ p \in Pid /\ mbox' = [mbox EXCEPT ![p] = msg]
    BY <1>7, NullprocIsPid DEF Send
  <2>2. mbox' \in [Pid -> Int]
    BY <1>1, <2>1
  <2>3. CASE pstate[p] = "PRRECV"
    BY <1>4, <1>7, <2>1, <2>3 DEF Send
  <2>4. CASE pstate[p] = "PRTRECV"
    BY <1>5, <1>7, <2>1, <2>4 DEF Send
  <2>5. CASE pstate[p] # "PRRECV" /\ pstate[p] # "PRTRECV"
    <3>1. UNCHANGED <<sched, clockVars>>
      BY <1>7, <2>5 DEF Send
    <3> QED
      BY <1>3, <2>2, <3>1
  <2> QED
    BY <2>3, <2>4, <2>5
<1> QED
  BY <1>6, <1>7

LEMMA SendCallKeeps ==
  ASSUME IInv, NEW p \in UserPid, NEW msg \in Msgs, SendCall(p, msg),
         UNCHANGED <<semVars, procVars>>
  PROVE  IInv'
<1>1. cont[currpid].op \notin LoopOps /\ cont' = cont
  BY Caller DEF SendCall, MayCall
<1>2. p \in Int /\ msg \in Int /\ psem' = psem /\ semq' = semq /\ Send(p, msg)
  BY MsgAssumption DEF SendCall, semVars, UserPid, Pid
<1>3. /\ Consistent(sched') /\ Running(sched') /\ Highest(sched')
      /\ QueuesOK(View(sched'), psem', semq', clockq')
      /\ slnempty' = (clockq' # <<>>)
      /\ slnempty' => sltop' = Head(clockq')
      /\ mbox' \in [Pid -> Int] /\ sltop' \in Pid /\ slnempty' \in BOOLEAN
  BY <1>1, <1>2, SendStep
<1>4. SltopOK(cont[currpid].op, slnempty, sltop, clockq)'
  BY <1>3 DEF SltopOK
<1>5. OthersOK'
  BY <1>3 DEF IInv, OthersOK, semVars, procVars
<1>6. ContOK(cont', currpid) /\ cont'[currpid].op \notin LoopOps
  BY <1>1 DEF IInv
<1> QED
  BY <1>3, <1>4, <1>5, <1>6, QuietStep DEF IInv

(* A continuation that waits for a message.                                *)
LEMMA RecvCont ==
  ASSUME IInv, NEW op \in {"receive", "recvtim"},
         cont' = [cont EXCEPT ![currpid] = Cont(op, 0, 0)]
  PROVE  ContOK(cont', currpid) /\ cont'[currpid].op \notin LoopOps
<1> DEFINE c == Cont(op, 0, 0)
<1>1. /\ c \in ContType /\ c.op \notin SemLoops /\ c.op # "kill"
      /\ c.op \notin LoopOps
  BY DEF Cont, ContType, SemLoops, LoopOps, RestOps
<1> HIDE DEF c
<1>2. currpid \in Pid /\ ContOK(cont, currpid)
  BY BasicTypes DEF IInv
<1>3. ContOK([cont EXCEPT ![currpid] = c], currpid)
  BY <1>1, <1>2, ContSetOwn
<1>4. [cont EXCEPT ![currpid] = c][currpid] = c
  BY <1>2 DEF ContOK
<1> QED
  BY <1>1, <1>3, <1>4 DEF c

LEMMA TakeMessageType ==
  ASSUME IInv, TakeMessage
  PROVE  mbox' \in [Pid -> Int]
BY BasicTypes DEF TakeMessage, NoMsg, IInv, OthersOK

(* Calls that take a message, or return, and schedule no one.              *)
LEMMA TakeKeeps ==
  ASSUME IInv, TakeMessage, UNCHANGED <<sched, clockVars, semVars, procVars>>,
         cont[currpid].op \notin LoopOps,
         cont' = cont \/ cont' = [cont EXCEPT ![currpid] = User]
  PROVE  IInv'
<1>1. Highest(sched) /\ cont[currpid].op # "wakeup"
  BY DEF IInv, LoopOps
<1>2. OthersOK'
  BY TakeMessageType DEF IInv, OthersOK, semVars, procVars, clockVars
<1>3. /\ Consistent(sched') /\ Running(sched') /\ Highest(sched')
      /\ QueuesOK(View(sched'), psem', semq', clockq')
  BY <1>1 DEF IInv, semVars, clockVars
<1>4. ContOK(cont', currpid) /\ cont'[currpid].op \notin LoopOps
  <2>1. CASE cont' = cont
    BY <2>1 DEF IInv
  <2>2. CASE cont' = [cont EXCEPT ![currpid] = User]
    <3>1. ContOK(cont', currpid) /\ cont'[currpid] = User
      BY <2>2, BasicTypes, ContUser DEF IInv
    <3> QED
      BY <3>1, UserCont
  <2> QED
    BY <2>1, <2>2
<1> QED
  BY <1>1, <1>2, <1>3, <1>4, QuietStep, ClockStays DEF IInv

LEMMA ReceiveKeeps ==
  ASSUME IInv, Receive, UNCHANGED <<semVars, procVars>>
  PROVE  IInv'
<1>1. /\ cont[currpid].op \notin LoopOps /\ cont[currpid].op # "wakeup"
      /\ currpid \in UserPid /\ UNCHANGED clockVars
  BY Caller, BasicTypes DEF Receive, MayCall, UserPid
<1>2. CASE TakeMessage /\ UNCHANGED <<sched, cont>>
  BY <1>1, <1>2, TakeKeeps
<1>3. CASE /\ sched' = Block(sched, "PRRECV")
           /\ cont' = [cont EXCEPT ![currpid] = Cont("receive", 0, 0)]
           /\ UNCHANGED mbox
  <2>1. "PRRECV" \in States \ Runnable /\ "PRRECV" \in States \ Queued /\ "PRREADY" \notin Queued
    BY DEF States, Runnable, Queued
  <2>2. /\ Consistent(sched') /\ Running(sched') /\ Highest(sched')
        /\ View(sched') = [View(sched) EXCEPT ![currpid] = "PRRECV"]
    BY <1>1, <1>3, <2>1, BlockStep DEF IInv, currpid
  <2>3. QueuesOK([View(sched) EXCEPT ![currpid] = "PRRECV"], psem, semq, clockq)
    BY <2>1, BasicTypes, QueuesStay DEF IInv
  <2>4. OthersOK' /\ QueuesOK(View(sched'), psem', semq', clockq')
    BY <1>1, <1>3, <2>2, <2>3 DEF IInv, OthersOK, semVars, procVars, clockVars
  <2>5. ContOK(cont', currpid) /\ cont'[currpid].op \notin LoopOps
    BY <1>3, RecvCont
  <2> QED
    BY <1>1, <2>2, <2>4, <2>5, QuietStep, ClockStays DEF IInv
<1> QED
  BY <1>2, <1>3 DEF Receive

LEMMA RecvtimKeeps ==
  ASSUME IInv, NEW n \in Delays, Recvtim(n), UNCHANGED <<semVars, procVars>>
  PROVE  IInv'
<1>1. /\ cont[currpid].op \notin LoopOps /\ currpid \in UserPid
  BY Caller, BasicTypes DEF Recvtim, MayCall, UserPid
<1>2. CASE TakeMessage /\ UNCHANGED <<sched, cont, clockVars>>
  BY <1>1, <1>2, TakeKeeps
<1>3. CASE /\ SleepIn("PRTRECV", n)
           /\ cont' = [cont EXCEPT ![currpid] = Cont("recvtim", 0, 0)]
           /\ UNCHANGED mbox
  <2>1. /\ Consistent(sched') /\ Running(sched') /\ Highest(sched')
        /\ QueuesOK(View(sched'), psem', semq', clockq')
        /\ slnempty' = TRUE /\ clockq' # <<>>
        /\ sltop' = Head(clockq') /\ sltop' \in Pid
    <3>1. n \in Nat /\ psem' = psem /\ semq' = semq
      BY ClockAssumption DEF semVars
    <3> QED
      BY <1>1, <1>3, <3>1, SleepInStep
  <2>2. SltopOK(cont[currpid].op, slnempty, sltop, clockq)'
    BY <2>1 DEF SltopOK
  <2>3. OthersOK'
    BY <1>3, <2>1 DEF IInv, OthersOK, semVars, procVars
  <2>4. ContOK(cont', currpid) /\ cont'[currpid].op \notin LoopOps
    BY <1>3, RecvCont
  <2> QED
    BY <2>1, <2>2, <2>3, <2>4, QuietStep DEF IInv
<1> QED
  BY <1>2, <1>3 DEF Recvtim

LEMMA RecvRestsKeep ==
  ASSUME IInv, Recvclr \/ ReceiveRest \/ RecvtimRest, UNCHANGED <<semVars, procVars>>
  PROVE  IInv'
<1>1. CASE Recvclr
  <2>1. cont[currpid].op \notin LoopOps
    BY <1>1, Caller DEF Recvclr, MayCall
  <2> QED
    BY <1>1, <2>1, TakeKeeps DEF Recvclr
<1>2. CASE ReceiveRest \/ RecvtimRest
  <2>1. cont[currpid].op \notin LoopOps
    BY <1>2 DEF ReceiveRest, RecvtimRest, LoopOps
  <2> QED
    BY <1>2, <2>1, TakeKeeps DEF ReceiveRest, RecvtimRest
<1> QED
  BY <1>1, <1>2

-----------------------------------------------------------------------------
LEMMA CreateKeeps ==
  ASSUME IInv, NEW priority \in Prios \cup {0}, Create(priority)
  PROVE  IInv'
<1>1. /\ cont[currpid].op \notin LoopOps /\ cont[currpid].op # "wakeup"
      /\ Highest(sched)
  BY Caller DEF Create, MayCall
<1> DEFINE pid == SlotBelow(nextproc, NPROC, FreeSlots)
<1>2. pid \in Pid /\ pstate[pid] = "PRFREE" /\ SlotAfter(pid, NPROC) \in Pid
  <2>1. /\ NPROC \in Nat \ {0} /\ nextproc \in 0..(NPROC - 1)
        /\ FreeSlots \subseteq 0..(NPROC - 1) /\ FreeSlots # {}
    BY SchedAssumption DEF Create, IInv, OthersOK, Pid, FreeSlots
  <2>2. pid \in FreeSlots
    BY <2>1, SlotBelowIsFree
  <2> HIDE DEF pid
  <2>3. SlotAfter(pid, NPROC) \in 0..(NPROC - 1)
    BY <2>1, <2>2, SlotAfterIsSlot
  <2> QED
    BY <2>2, <2>3 DEF FreeSlots, Pid
<1>3. /\ nextproc' = SlotAfter(pid, NPROC)
      /\ UNCHANGED <<semTable, nextsem, pwaitret, clockVars>>
  BY DEF Create
<1>4. CASE UNCHANGED <<schedVars, psem, mbox, numproc, pnxtkin>>
  <2> HIDE DEF pid
  <2>1. OthersOK'
    BY <1>2, <1>3, <1>4 DEF IInv, OthersOK, semTable, clockVars
  <2>2. ContOK(cont', currpid) /\ cont'[currpid].op \notin LoopOps
    BY <1>1, <1>4 DEF IInv, schedVars
  <2>3. /\ Consistent(sched') /\ Running(sched') /\ Highest(sched')
        /\ QueuesOK(View(sched'), psem', semq', clockq')
    BY <1>1, <1>3, <1>4 DEF IInv, schedVars, semTable, clockVars
  <2> QED
    BY <1>1, <1>3, <2>1, <2>2, <2>3, QuietStep, ClockStays DEF IInv
<1>5. CASE /\ priority >= 1 /\ numproc' = numproc + 1
           /\ sched' = [sched EXCEPT !.pstate[pid] = "PRSUSP", !.pprio[pid] = priority]
           /\ psem' = [psem EXCEPT ![pid] = 0]
           /\ mbox' = [mbox EXCEPT ![pid] = NoMsg]
           /\ pnxtkin' = [pnxtkin EXCEPT ![pid] = BADPID]
           /\ cont' = [cont EXCEPT ![pid] = User]
  <2> HIDE DEF pid
  <2>1. pid \in UserPid /\ priority \in Nat /\ View(sched)[pid] = "PRFREE"
    BY <1>2, SchedAssumption, BasicTypes DEF IInv, Consistent, UserPid, Runnable, pstate
  <2>2. /\ Consistent(sched') /\ Running(sched') /\ Highest(sched')
        /\ View(sched') = [View(sched) EXCEPT ![pid] = "PRSUSP"]
    BY <1>1, <1>2, <1>5, <2>1, CreateStep DEF IInv, pstate
  <2>3. OthersOK'
    BY <1>2, <1>3, <1>5 DEF IInv, OthersOK, semTable, clockVars, NoMsg, BADPID
  <2>4. ContOK(cont', currpid) /\ cont'[currpid].op \notin LoopOps
    <3>1. ContOK(cont', currpid) /\ cont'[pid] = User
      BY <1>2, <1>5, BasicTypes, ContUser DEF IInv
    <3>2. pid # currpid => cont'[currpid] = cont[currpid]
      BY <1>2, <1>5 DEF IInv, ContOK
    <3> QED
      BY <1>1, <3>1, <3>2, UserCont
  <2>5. QueuesOK(View(sched'), psem', semq', clockq')
    <3>1. "PRSUSP" \in States \ Queued /\ "PRFREE" \notin Queued /\ 0 \in Sem
      BY SemAssumption DEF States, Queued, Sem
    <3>2. QueuesOK(View(sched), [psem EXCEPT ![pid] = 0], semq, clockq)
      BY <1>2, <2>1, <3>1, BasicTypes, QueuesPsem DEF IInv
    <3>3. QueuesOK([View(sched) EXCEPT ![pid] = "PRSUSP"], [psem EXCEPT ![pid] = 0],
                   semq, clockq)
      BY <1>2, <2>1, <3>1, <3>2, BasicTypes, QueuesStay
    <3> QED
      BY <1>3, <1>5, <2>2, <3>3 DEF semTable, clockVars
  <2> QED
    BY <1>1, <1>3, <2>2, <2>3, <2>4, <2>5, QuietStep, ClockStays DEF IInv
<1> QED
  BY <1>4, <1>5 DEF Create

LEMMA SetnokKeeps ==
  ASSUME IInv, NEW nok \in UserPid, NEW pid \in UserPid, Setnok(nok, pid)
  PROVE  IInv'
<1>1. /\ cont[currpid].op \notin LoopOps /\ cont[currpid].op # "wakeup"
      /\ Highest(sched)
  BY Caller DEF Setnok, MayCall
<1>2. OthersOK'
  BY DEF Setnok, IInv, OthersOK, semVars, clockVars, UserPid, Pid
<1>3. ContOK(cont', currpid) /\ cont'[currpid].op \notin LoopOps
  BY <1>1 DEF IInv, Setnok, schedVars
<1>4. /\ Consistent(sched') /\ Running(sched') /\ Highest(sched')
      /\ QueuesOK(View(sched'), psem', semq', clockq')
  BY <1>1 DEF IInv, Setnok, schedVars, semVars, clockVars
<1> QED
  BY <1>1, <1>2, <1>3, <1>4, QuietStep, ClockStays DEF IInv, Setnok

LEMMA KillKeeps ==
  ASSUME IInv, NEW pid \in UserPid, Kill(pid)
  PROVE  IInv'
<1>1. cont[currpid].op \notin LoopOps /\ pid \in Nat
  BY Caller, SchedAssumption DEF Kill, MayCall, UserPid, Pid
<1>2. pnxtkin[pid] \in Int /\ pid \in Int /\ Send(pnxtkin[pid], pid)
  BY <1>1, NullprocIsPid DEF Kill, IInv, OthersOK
<1>3. /\ Consistent(sched') /\ Running(sched') /\ Highest(sched')
      /\ QueuesOK(View(sched'), psem', semq', clockq')
      /\ slnempty' = (clockq' # <<>>)
      /\ slnempty' => sltop' = Head(clockq')
      /\ mbox' \in [Pid -> Int] /\ sltop' \in Pid /\ slnempty' \in BOOLEAN
  BY <1>1, <1>2, SendStep DEF Kill, semVars
<1>4. SltopOK(cont[currpid].op, slnempty, sltop, clockq)'
  BY <1>3 DEF SltopOK
<1>5. OthersOK'
  BY <1>3 DEF IInv, OthersOK, Kill, semVars
<1>6. ContOK(cont', currpid) /\ cont'[currpid].op \notin LoopOps
  <2> DEFINE c == Cont("kill", pid, 0)
  <2>1. /\ c \in ContType /\ c.op \notin SemLoops /\ c.x \in UserPid
        /\ c.op \notin LoopOps
    BY <1>1 DEF Cont, ContType, SemLoops, LoopOps, RestOps
  <2>2. cont' = [cont EXCEPT ![currpid] = c]
    BY DEF Kill
  <2> HIDE DEF c
  <2>3. currpid \in Pid /\ ContOK(cont, currpid)
    BY BasicTypes DEF IInv
  <2>4. ContOK([cont EXCEPT ![currpid] = c], currpid)
    BY <2>1, <2>3, ContSetOwn
  <2>5. [cont EXCEPT ![currpid] = c][currpid] = c
    BY <2>3 DEF ContOK
  <2> QED
    BY <2>1, <2>2, <2>4, <2>5
<1> QED
  BY <1>3, <1>4, <1>5, <1>6, QuietStep DEF IInv

LEMMA KillRestKeeps ==
  ASSUME IInv, KillRest
  PROVE  IInv'
<1> DEFINE pid == cont[currpid].x
<1>1. /\ cont[currpid].op = "kill" /\ cont[currpid].op \notin LoopOps
      /\ cont[currpid].op # "wakeup" /\ Highest(sched)
      /\ currpid \in Pid /\ pid \in UserPid /\ pid \in Pid
      /\ Consistent(sched) /\ Running(sched)
      /\ QueuesOK(View(sched), psem, semq, clockq)
  BY BasicTypes, NullprocIsPid DEF KillRest, LoopOps, IInv, ContOK
<1>2. /\ cont' = [cont EXCEPT ![currpid] = User, ![pid] = User]
      /\ UNCHANGED <<sstate, nextsem, psem, pwaitret, mbox, procVars>>
  BY DEF KillRest
<1> HIDE DEF pid
<1>3. ContOK(cont', currpid) /\ cont'[currpid].op \notin LoopOps
  <2> DEFINE c1 == [cont EXCEPT ![currpid] = User]
  <2>1. ContOK(c1, currpid) /\ c1[currpid] = User
    BY <1>1, ContUser DEF IInv
  <2>2. cont' = [c1 EXCEPT ![pid] = User]
    BY <1>2
  <2> HIDE DEF c1
  <2>3. ContOK(cont', currpid) /\ cont'[pid] = User
    BY <1>1, <2>1, <2>2, ContUser
  <2>4. cont'[currpid] = User
    BY <1>1, <2>1, <2>2, <2>3 DEF ContOK
  <2> QED
    BY <2>3, <2>4, UserCont
<1>4. /\ "PRFREE" \in States \ Runnable /\ "PRFREE" \in States \ Queued
      /\ "PRREADY" \notin Queued
  BY DEF States, Runnable, Queued
<1>5. semcnt \in [Sem -> Int]
  BY DEF IInv, OthersOK
<1>6. SUFFICES /\ Consistent(sched') /\ Running(sched') /\ Highest(sched')
               /\ QueuesOK(View(sched'), psem, semq', clockq')
               /\ semcnt' \in [Sem -> Int]
               /\ \/ UNCHANGED clockVars
                  \/ /\ slnempty' = (clockq' # <<>>) /\ slnempty' \in BOOLEAN
                     /\ slnempty' => sltop' = Head(clockq')
                     /\ sltop' \in Pid
  <2>1. SltopOK(cont[currpid].op, slnempty, sltop, clockq)'
    BY <1>1, <1>6, ClockStays DEF SltopOK
  <2>2. OthersOK'
    BY <1>2, <1>6 DEF IInv, OthersOK, procVars, clockVars
  <2>3. psem' = psem
    BY <1>2
  <2> QED
    BY <1>3, <1>6, <2>1, <2>2, <2>3, QuietStep DEF IInv
<1>7. CASE /\ pstate[pid] = "PRCURR" /\ sched' = Block(sched, "PRFREE")
           /\ UNCHANGED <<semcnt, semq, clockVars>>
  <2>1. pid = sched.currpid /\ View(sched)[pid] = "PRREADY"
    BY <1>1, <1>7, BasicTypes DEF Consistent, pstate, Runnable
  <2>2. /\ Consistent(sched') /\ Running(sched') /\ Highest(sched')
        /\ View(sched') = [View(sched) EXCEPT ![pid] = "PRFREE"]
    BY <1>1, <1>4, <1>7, <2>1, BlockStep
  <2>3. QueuesOK([View(sched) EXCEPT ![pid] = "PRFREE"], psem, semq, clockq)
    BY <1>1, <1>4, <2>1, BasicTypes, QueuesStay
  <2> QED
    BY <1>5, <1>6, <1>7, <2>2, <2>3 DEF clockVars
<1>8. CASE /\ pstate[pid] = "PRWAIT"
           /\ semcnt' = [semcnt EXCEPT ![psem[pid]] = @ + 1]
           /\ semq' = [semq EXCEPT ![psem[pid]] = Dequeue(@, pid)]
           /\ sched' = [sched EXCEPT !.pstate[pid] = "PRFREE"]
           /\ UNCHANGED clockVars
  <2>1. View(sched)[pid] = "PRWAIT" /\ psem[pid] \in Sem
    BY <1>1, <1>8, BasicTypes DEF Runnable, QueuesOK
  <2>2. /\ Consistent(sched') /\ Running(sched') /\ Highest(sched')
        /\ View(sched') = [View(sched) EXCEPT ![pid] = "PRFREE"]
    BY <1>1, <1>4, <1>8, <2>1, SetStateStep
  <2>3. QueuesOK([View(sched) EXCEPT ![pid] = "PRFREE"], psem, semq', clockq)
    BY <1>1, <1>4, <1>8, <2>1, BasicTypes, QueuesUnwait
  <2> QED
    BY <1>5, <1>6, <1>8, <2>1, <2>2, <2>3 DEF clockVars
<1>9. CASE /\ pstate[pid] = "PRREADY" /\ sched' = Unready(sched, pid, "PRFREE")
           /\ UNCHANGED <<semcnt, semq, clockVars>>
  <2>1. sched.pstate[pid] = "PRREADY" /\ View(sched)[pid] = "PRREADY"
    BY <1>1, <1>9, BasicTypes DEF pstate, Runnable
  <2>2. /\ Consistent(sched') /\ Running(sched') /\ Highest(sched')
        /\ View(sched') = [View(sched) EXCEPT ![pid] = "PRFREE"]
    BY <1>1, <1>4, <1>9, <2>1, UnreadyStep
  <2>3. QueuesOK([View(sched) EXCEPT ![pid] = "PRFREE"], psem, semq, clockq)
    BY <1>1, <1>4, <2>1, BasicTypes, QueuesStay
  <2> QED
    BY <1>5, <1>6, <1>9, <2>2, <2>3 DEF clockVars
<1>10. CASE /\ pstate[pid] \in {"PRSLEEP", "PRTRECV"}
            /\ Unsleep(pid)
            /\ sched' = [sched EXCEPT !.qkey = UnsleepKeys(pid),
                                      !.pstate[pid] = "PRFREE"]
            /\ UNCHANGED <<semcnt, semq>>
  <2> DEFINE T == [sched EXCEPT !.qkey = UnsleepKeys(pid)]
  <2>1. View(sched)[pid] # "PRREADY" /\ pid \in Sleepers(View(sched))
    BY <1>1, <1>10, BasicTypes DEF Runnable, Sleepers
  <2>2. Consistent(T) /\ Running(T) /\ Highest(T) /\ View(T) = View(sched)
    BY <1>1, <2>1, UnsleepKeysStep
  <2>3. sched' = [T EXCEPT !.pstate[pid] = "PRFREE"]
    BY <1>1, <1>10 DEF Consistent, SchedType
  <2> HIDE DEF T
  <2>4. /\ Consistent(sched') /\ Running(sched') /\ Highest(sched')
        /\ View(sched') = [View(sched) EXCEPT ![pid] = "PRFREE"]
    BY <1>1, <1>4, <2>1, <2>2, <2>3, SetStateStep
  <2>5. /\ QueuesOK([View(sched) EXCEPT ![pid] = "PRFREE"], psem, semq, clockq')
        /\ slnempty' = (clockq' # <<>>) /\ slnempty' \in BOOLEAN
        /\ slnempty' => sltop' = Head(clockq')
        /\ sltop' \in Pid
    BY <1>1, <1>4, <1>10, <2>1, UnsleepClock
  <2> QED
    BY <1>5, <1>6, <1>10, <2>4, <2>5
<1>11. CASE /\ pstate[pid] \in {"PRSUSP", "PRRECV", "PRFREE"}
            /\ sched' = [sched EXCEPT !.pstate[pid] = "PRFREE"]
            /\ UNCHANGED <<semcnt, semq, clockVars>>
  <2>1. View(sched)[pid] # "PRREADY" /\ View(sched)[pid] \notin Queued
    BY <1>1, <1>11, BasicTypes DEF Runnable, Queued
  <2>2. /\ Consistent(sched') /\ Running(sched') /\ Highest(sched')
        /\ View(sched') = [View(sched) EXCEPT ![pid] = "PRFREE"]
    BY <1>1, <1>4, <1>11, <2>1, SetStateStep
  <2>3. QueuesOK([View(sched) EXCEPT ![pid] = "PRFREE"], psem, semq, clockq)
    BY <1>1, <1>4, <2>1, BasicTypes, QueuesStay
  <2> QED
    BY <1>5, <1>6, <1>11, <2>2, <2>3 DEF clockVars
<1> QED
  BY <1>7, <1>8, <1>9, <1>10, <1>11 DEF KillRest, pid, clockVars

-----------------------------------------------------------------------------
(* IInv is an inductive invariant of Kernel: one step for each action.     *)
LEMMA IInvInit == Init => IInv
<1> SUFFICES ASSUME Init PROVE IInv
  OBVIOUS
<1>1. /\ sched.currpid = MainPid /\ sched.pprio = [p \in Pid |-> IF p = MainPid THEN InitPrio ELSE 0]
      /\ sched.pstate = [p \in Pid |-> IF p = NULLPROC THEN "PRREADY"
                                       ELSE IF p = MainPid THEN "PRCURR"
                                       ELSE "PRFREE"]
      /\ sched.qkey = [p \in Pid |-> 0] /\ sched.rdyq = <<NULLPROC>>
      /\ sched.preempt = QUANTUM /\ currpid = MainPid
      /\ sched \in SchedType
  BY SchedAssumption, InitPrioAssumption, NullprocIsPid
     DEF Init, SchedInit, SchedType, States, currpid
<1>2. /\ MainPid \in Pid /\ MainPid # NULLPROC /\ NULLPROC \in Pid
  BY NullprocIsPid DEF UserPid
<1>3. Consistent(sched) /\ Running(sched) /\ Highest(sched)
  <2>1. ReadySet(sched) = {NULLPROC}
    BY <1>1, <1>2 DEF ReadySet
  <2>2. Holds(sched.rdyq, ReadySet(sched))
    <3> DEFINE list == <<NULLPROC>>
    <3>1. list \in Seq(Pid) /\ Len(list) = 1 /\ list[1] = NULLPROC
      BY <1>2
    <3> HIDE DEF list
    <3>2. {NULLPROC} = {list[i] : i \in 1..Len(list)}
      BY <3>1
    <3>3. \A i, j \in 1..Len(list) : list[i] = list[j] => i = j
      BY <3>1
    <3>4. Holds(list, {NULLPROC})
      BY <3>1, <3>2, <3>3, HoldsByIndex
    <3> QED
      BY <1>1, <2>1, <3>4 DEF list
  <2>3. Sorted(sched.rdyq, sched.qkey)
    <3>1. Len(sched.rdyq) = 1 /\ sched.rdyq[1] = NULLPROC
      BY <1>1
    <3> QED
      BY <1>1, <1>2, <3>1 DEF Sorted
  <2> QED
    BY <1>1, <1>2, <2>1, <2>2, <2>3, InitPrioAssumption
       DEF Consistent, Running, Highest, Runnable
<1>4. ContOK(cont, currpid)
  BY UserCont DEF Init, SchedInit, ContOK, LoopOps, SemLoops, User, Cont
<1>5. QueuesOK(View(sched), psem, semq, clockq)
  <2>1. \A p \in Pid : View(sched)[p] \notin Queued
    BY <1>1 DEF View, Queued, Runnable
  <2>2. /\ Sleepers(View(sched)) = {}
        /\ \A s \in Sem : Waiters(View(sched), psem, s) = {}
    BY <2>1 DEF Sleepers, Waiters, Queued
  <2>3. Holds(<<>>, {}) /\ <<>> \in Seq(Pid)
    <3>1. <<>> \in Seq(Pid) /\ Len(<<>>) = 0
      OBVIOUS
    <3>2. {} = {<<>>[i] : i \in 1..Len(<<>>)}
      BY <3>1
    <3> QED
      BY <3>1, <3>2, HoldsByIndex
  <2>4. 0 \in Sem
    BY SemAssumption DEF Sem
  <2>5. /\ semq = [s \in Sem |-> <<>>] /\ psem = [p \in Pid |-> 0] /\ clockq = <<>>
    BY DEF Init, SemInit, ClockInit
  <2>6. /\ psem \in [Pid -> Sem] /\ semq \in [Sem -> Seq(Pid)]
    BY <2>3, <2>4, <2>5
  <2>7. \A s \in Sem : Holds(semq[s], Waiters(View(sched), psem, s))
    BY <2>2, <2>3, <2>5
  <2> QED
    BY <2>2, <2>3, <2>5, <2>6, <2>7 DEF QueuesOK
<1>6. SltopOK(cont[currpid].op, slnempty, sltop, clockq)
  BY DEF Init, ClockInit, SltopOK
<1>7. OthersOK
  <2>1. SlotAfter(MainPid, NPROC) \in Pid
    BY <1>2, SchedAssumption, SlotAfterIsSlot DEF Pid
  <2>2. /\ sstate = [s \in Sem |-> "SFREE"] /\ semcnt = [s \in Sem |-> 0]
        /\ nextsem = NSEM - 1 /\ pwaitret = [p \in Pid |-> "OK"]
        /\ slnempty = FALSE /\ sltop = NULLPROC /\ mbox = [p \in Pid |-> -1]
        /\ numproc = 1 /\ nextproc = SlotAfter(MainPid, NPROC)
        /\ pnxtkin = [p \in Pid |-> -1]
    BY DEF Init, SemInit, ClockInit, MsgInit, NoMsg, BADPID
  <2>3. nextsem \in Sem
    BY <2>2, SemAssumption DEF Sem
  <2> QED
    <3>1. slnempty \in BOOLEAN
      BY <2>2, Zenon
    <3>2. /\ sstate \in [Sem -> {"SFREE", "SUSED"}] /\ semcnt \in [Sem -> Int]
          /\ pwaitret \in [Pid -> {"OK", "DELETED"}] /\ sltop \in Pid
          /\ mbox \in [Pid -> Int] /\ numproc \in Int /\ nextproc \in Pid
          /\ pnxtkin \in [Pid -> Int]
      <4>1. /\ sstate = [s \in Sem |-> "SFREE"] /\ semcnt = [s \in Sem |-> 0]
            /\ pwaitret = [p \in Pid |-> "OK"] /\ sltop = NULLPROC
            /\ mbox = [p \in Pid |-> -1] /\ numproc = 1
            /\ nextproc = SlotAfter(MainPid, NPROC) /\ pnxtkin = [p \in Pid |-> -1]
        BY <2>2, Zenon
      <4> QED
        BY <1>2, <2>1, <4>1
    <3> QED
      BY <2>3, <3>1, <3>2, Zenon DEF OthersOK
<1> QED
  BY <1>3, <1>4, <1>5, <1>6, <1>7 DEF IInv

LEMMA IInvStutters ==
  ASSUME IInv, UNCHANGED vars
  PROVE  IInv'
BY DEF IInv, OthersOK, vars, schedVars, semVars, clockVars, procVars, currpid

LEMMA IInvStep ==
  ASSUME IInv, [Next]_vars
  PROVE  IInv'
<1>1. CASE SchedNext /\ UNCHANGED <<semVars, clockVars, mbox, procVars>>
  BY <1>1, ResumeKeeps, SuspendKeeps, ChprioKeeps, YieldKeeps DEF SchedNext
<1>2. CASE SemNext /\ UNCHANGED <<clockVars, mbox, procVars>>
  BY <1>2, ScreateKeeps, WaitKeeps, SignalKeeps, SignalnKeeps, SignalnLoopKeeps,
     SdeleteKeeps, SdeleteLoopKeeps, SresetKeeps, SresetLoopKeeps DEF SemNext
<1>3. CASE ClockNext /\ UNCHANGED <<semVars, mbox, procVars>>
  BY <1>3, SleepKeeps, ClockTickKeeps, WakeupLoopKeeps, ClkintRestKeeps DEF ClockNext
<1>4. CASE MsgNext /\ UNCHANGED <<semVars, procVars>>
  BY <1>4, SendCallKeeps, ReceiveKeeps, RecvtimKeeps, RecvRestsKeep DEF MsgNext
<1>5. CASE ProcNext
  BY <1>5, CreateKeeps, SetnokKeeps, KillKeeps, KillRestKeeps DEF ProcNext
<1>6. CASE UNCHANGED vars
  BY <1>6, IInvStutters
<1> QED
  BY <1>1, <1>2, <1>3, <1>4, <1>5, <1>6 DEF Next

LEMMA IInvImpliesTypeOK == IInv => TypeOK
BY DEF IInv, TypeOK, Consistent, SchedType, ContOK, ContType, QueuesOK, OthersOK, currpid

LEMMA IInvImpliesLists == IInv => ListsMatchStates
<1> SUFFICES ASSUME IInv PROVE ListsMatchStates
  OBVIOUS
<1>1. /\ Consistent(sched) /\ Running(sched) /\ currpid \in Pid
      /\ QueuesOK(View(sched), psem, semq, clockq)
  BY BasicTypes DEF IInv
<1>2. {p \in Pid : pstate[p] = "PRCURR"} = {currpid}
  BY <1>1 DEF Consistent, Running, currpid, pstate
<1>3. Holds(sched.rdyq, {p \in Pid : pstate[p] = "PRREADY"})
  BY <1>1 DEF Consistent, ReadySet, pstate
<1>4. Sleepers(View(sched)) = {p \in Pid : pstate[p] \in {"PRSLEEP", "PRTRECV"}}
  BY DEF Sleepers, View, Runnable, pstate
<1>5. \A s \in Sem : Waiters(View(sched), psem, s) =
                      {p \in Pid : pstate[p] = "PRWAIT" /\ psem[p] = s}
  BY DEF Waiters, View, Runnable, pstate
<1>6. Holds(clockq, {p \in Pid : pstate[p] \in {"PRSLEEP", "PRTRECV"}})
  BY <1>1, <1>4 DEF QueuesOK
<1>7. \A s \in Sem :
        Holds(semq[s], {p \in Pid : pstate[p] = "PRWAIT" /\ psem[p] = s})
  BY <1>1, <1>5 DEF QueuesOK
<1> QED
  BY <1>2, <1>3, <1>6, <1>7 DEF ListsMatchStates

LEMMA IInvImpliesHighest == IInv => HighestPriorityRuns
BY DEF IInv, HighestPriorityRuns, Highest, ReadySet, currpid, pstate

(* Every table entry and queue keeps its type, and every index its range,  *)
(* whatever calls the processes make (h/proc.h, h/q.h, h/sem.h).           *)
THEOREM TypeCorrect == Spec => []TypeOK
<1>1. Init => IInv
  BY IInvInit
<1>2. IInv /\ [Next]_vars => IInv'
  BY IInvStep
<1>3. IInv => TypeOK
  BY IInvImpliesTypeOK
<1> QED
  BY <1>1, <1>2, <1>3, PTL DEF Spec

(* Every process is on exactly the list its state names, once: no call     *)
(* loses a process from a queue or leaves one behind (sys/queue.c,         *)
(* insert.c, insertd.c, getitem.c and their callers).                      *)
THEOREM ListsAlwaysMatch == Spec => []ListsMatchStates
<1>1. Init => IInv
  BY IInvInit
<1>2. IInv /\ [Next]_vars => IInv'
  BY IInvStep
<1>3. IInv => ListsMatchStates
  BY IInvImpliesLists
<1> QED
  BY <1>1, <1>2, <1>3, PTL DEF Spec

(* Outside a loop that has not rescheduled yet, the current process has at *)
(* least the priority of every ready one: every path that readies,         *)
(* reprioritises or blocks a process reaches resched (sys/resched.c).      *)
THEOREM HighestAlwaysRuns == Spec => []HighestPriorityRuns
<1>1. Init => IInv
  BY IInvInit
<1>2. IInv /\ [Next]_vars => IInv'
  BY IInvStep
<1>3. IInv => HighestPriorityRuns
  BY IInvImpliesHighest
<1> QED
  BY <1>1, <1>2, <1>3, PTL DEF Spec
=============================================================================
