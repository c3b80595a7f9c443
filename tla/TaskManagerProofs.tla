-------------------------- MODULE TaskManagerProofs --------------------------
(***************************************************************************)
(* Proofs about TaskManager, for any robots, tasks and priorities.         *)
(***************************************************************************)
EXTENDS TaskManager, SequenceTheorems, TLAPS

(* The inductive invariant: NeverIdleWithWork and ActiveIsActive need each *)
(* other, and the index of the active task stays within the list.          *)
TMInv == TMTypeOK /\ ActiveIsActive /\ NeverIdleWithWork

ActiveEntries(list) == {i \in 1..Len(list) : list[i].status = "ACTIVE"}

(* What ActiveIsActive and NeverIdleWithWork say of one robot.             *)
RobotOK(list, idx, st) ==
  /\ ActiveEntries(list) = (IF idx = 0 THEN {} ELSE {idx})
  /\ st = "IDLE" <=> idx = 0
  /\ st = "IDLE" => Waiting(list) = {}

LEMMA InvByRobot ==
  TMInv <=> TMTypeOK /\ \A r \in Robot : RobotOK(tasks[r], active[r], state[r])
BY DEF TMInv, ActiveIsActive, NeverIdleWithWork, RobotOK, ActiveEntries

LEMMA EntryExcept ==
  ASSUME NEW e \in TaskEntry, NEW s \in {"WAITING", "ACTIVE", "COMPLETED"}
  PROVE  [e EXCEPT !.status = s] \in TaskEntry /\ [e EXCEPT !.status = s].status = s
BY DEF TaskEntry

(* Changing the status of one entry.                                       *)
LEMMA StatusChange ==
  ASSUME NEW list \in Seq(TaskEntry), NEW i \in 1..Len(list),
         NEW s \in {"WAITING", "ACTIVE", "COMPLETED"}
  PROVE  /\ SetStatus(list, i, s) \in Seq(TaskEntry)
         /\ Len(SetStatus(list, i, s)) = Len(list)
         /\ SetStatus(list, i, s)[i].status = s
         /\ \A j \in 1..Len(list) : j # i => SetStatus(list, i, s)[j] = list[j]
<1> DEFINE new == SetStatus(list, i, s)
<1>1. list[i] \in TaskEntry
  OBVIOUS
<1>2. [list[i] EXCEPT !.status = s] \in TaskEntry /\ [list[i] EXCEPT !.status = s].status = s
  BY <1>1, EntryExcept
<1>3. new = [list EXCEPT ![i] = [list[i] EXCEPT !.status = s]]
  BY DEF SetStatus
<1> HIDE DEF new
<1>4. new \in Seq(TaskEntry) /\ Len(new) = Len(list)
  BY <1>2, <1>3, ExceptSeq
<1>5. new[i] = [list[i] EXCEPT !.status = s] /\ \A j \in 1..Len(list) : j # i => new[j] = list[j]
  BY <1>3
<1>6. QED
  BY <1>2, <1>4, <1>5 DEF new

(* _activate_next, on a list with no active entry, leaves the robot idle   *)
(* with nothing waiting, or driving for the one entry that is active.      *)
LEMMA ActivateNextOK ==
  ASSUME TMTypeOK, NEW r \in Robot, NEW list \in Seq(TaskEntry), ActiveEntries(list) = {},
         ActivateNext(r, list)
  PROVE  /\ tasks' \in [Robot -> Seq(TaskEntry)] /\ active' \in [Robot -> Nat]
         /\ state' \in [Robot -> State]
         /\ RobotOK(tasks'[r], active'[r], state'[r])
         /\ \A s \in Robot : s # r =>
              tasks'[s] = tasks[s] /\ active'[s] = active[s] /\ state'[s] = state[s]
<1>1. CASE /\ Waiting(list) = {}
           /\ tasks' = [tasks EXCEPT ![r] = list]
           /\ active' = [active EXCEPT ![r] = 0]
           /\ state' = [state EXCEPT ![r] = "IDLE"]
  BY <1>1 DEF TMTypeOK, State, RobotOK
<1>2. ASSUME NEW i \in NextWaiting(list),
             tasks' = [tasks EXCEPT ![r] = SetStatus(list, i, "ACTIVE")],
             active' = [active EXCEPT ![r] = i],
             state' = [state EXCEPT ![r] = "GO_TO_PICKUP"]
      PROVE  /\ tasks' \in [Robot -> Seq(TaskEntry)] /\ active' \in [Robot -> Nat]
             /\ state' \in [Robot -> State]
             /\ RobotOK(tasks'[r], active'[r], state'[r])
             /\ \A s \in Robot : s # r =>
                  tasks'[s] = tasks[s] /\ active'[s] = active[s] /\ state'[s] = state[s]
  <2>1. i \in 1..Len(list) /\ i # 0 /\ i \in Nat
    BY DEF NextWaiting, Waiting
  <2>2. PICK new : new = SetStatus(list, i, "ACTIVE")
    OBVIOUS
  <2>3. /\ new \in Seq(TaskEntry) /\ Len(new) = Len(list) /\ new[i].status = "ACTIVE"
        /\ \A j \in 1..Len(list) : j # i => new[j] = list[j]
    BY <2>1, <2>2, StatusChange
  <2>4. ActiveEntries(new) = {i}
    BY <2>1, <2>3 DEF ActiveEntries
  <2>5. tasks'[r] = new /\ active'[r] = i /\ state'[r] = "GO_TO_PICKUP"
    BY <1>2, <2>2 DEF TMTypeOK
  <2>6. RobotOK(tasks'[r], active'[r], state'[r])
    BY <2>1, <2>4, <2>5 DEF RobotOK
  <2>7. QED
    BY <1>2, <2>1, <2>2, <2>3, <2>6 DEF TMTypeOK, State
<1>3. QED
  BY <1>1, <1>2 DEF ActivateNext

(* A step that leaves the other robots alone preserves the invariant when  *)
(* it leaves r in order.                                                   *)
LEMMA OneRobot ==
  ASSUME TMInv, NEW r \in Robot,
         tasks' \in [Robot -> Seq(TaskEntry)], active' \in [Robot -> Nat],
         state' \in [Robot -> State],
         told' \in [Robot -> [state: State, active: Task \cup {None}]],
         RobotOK(tasks'[r], active'[r], state'[r]),
         \A s \in Robot : s # r =>
           tasks'[s] = tasks[s] /\ active'[s] = active[s] /\ state'[s] = state[s]
  PROVE  TMInv'
<1>1. \A s \in Robot : RobotOK(tasks[s], active[s], state[s])
  BY InvByRobot
<1>2. \A s \in Robot : RobotOK(tasks'[s], active'[s], state'[s])
  BY <1>1
<1>3. ActiveIsActive'
  BY <1>2 DEF ActiveIsActive, RobotOK, ActiveEntries
<1>4. NeverIdleWithWork'
  BY <1>2 DEF NeverIdleWithWork, RobotOK, Waiting
<1>5. QED
  BY <1>3, <1>4 DEF TMInv, TMTypeOK

-----------------------------------------------------------------------------
(* The actions.                                                            *)

LEMMA AppendWaiting ==
  ASSUME NEW list \in Seq(TaskEntry), NEW t \in Task,
         NEW new, new = Append(list, [id |-> t, status |-> "WAITING"])
  PROVE  /\ new \in Seq(TaskEntry) /\ Len(new) = Len(list) + 1
         /\ ActiveEntries(new) = ActiveEntries(list)
<1>1. [id |-> t, status |-> "WAITING"] \in TaskEntry
  BY DEF TaskEntry
<1>2. /\ new \in Seq(TaskEntry) /\ Len(new) = Len(list) + 1
      /\ \A i \in 1..Len(list) : new[i] = list[i]
      /\ new[Len(list) + 1] = [id |-> t, status |-> "WAITING"]
  BY <1>1, AppendProperties
<1>3. new[Len(list) + 1].status # "ACTIVE"
  BY <1>2
<1>4. QED
  BY <1>2, <1>3 DEF ActiveEntries

LEMMA AssignInv ==
  ASSUME TMInv, NEW r \in Robot, NEW t \in Task, Assign(r, t)
  PROVE  TMInv'
<1> DEFINE old == tasks[r]
           new == Append(old, [id |-> t, status |-> "WAITING"])
<1>1. TMTypeOK /\ old \in Seq(TaskEntry) /\ RobotOK(old, active[r], state[r])
  BY InvByRobot DEF TMTypeOK
<1>2. new \in Seq(TaskEntry) /\ Len(new) = Len(old) + 1 /\ ActiveEntries(new) = ActiveEntries(old)
  BY <1>1, AppendWaiting
<1>3. told' \in [Robot -> [state: State, active: Task \cup {None}]]
  BY <1>1 DEF Assign, TMTypeOK
<1> HIDE DEF new
<1>4. CASE state[r] = "IDLE" /\ active[r] = 0 /\ ActivateNext(r, new)
  <2>1. ActiveEntries(new) = {}
    BY <1>1, <1>2, <1>4 DEF RobotOK
  <2>2. QED
    BY <1>1, <1>2, <1>3, <1>4, <2>1, ActivateNextOK, OneRobot
<1>5. CASE /\ state[r] # "IDLE" \/ active[r] # 0
           /\ tasks' = [tasks EXCEPT ![r] = new] /\ UNCHANGED <<active, state>>
  <2>1. tasks'[r] = new /\ \A s \in Robot : s # r => tasks'[s] = tasks[s]
    BY <1>1, <1>5 DEF TMTypeOK
  <2>2. RobotOK(tasks'[r], active'[r], state'[r])
    BY <1>1, <1>2, <1>5, <2>1 DEF RobotOK
  <2>3. QED
    BY <1>1, <1>2, <1>3, <1>5, <2>1, <2>2, OneRobot DEF TMTypeOK
<1>6. QED
  BY <1>4, <1>5 DEF Assign, new

(* Where the entries are after one is removed.                             *)
LEMMA Removed ==
  ASSUME NEW list \in Seq(TaskEntry), NEW i \in 1..Len(list),
         NEW new, new = RemoveAt(list, i)
  PROVE  /\ new \in Seq(TaskEntry) /\ Len(new) = Len(list) - 1
         /\ \A j \in 1..Len(new) : new[j] = IF j < i THEN list[j] ELSE list[j + 1]
<1> DEFINE before == SubSeq(list, 1, i - 1)
           after == SubSeq(list, i + 1, Len(list))
<1>1. /\ before \in Seq(TaskEntry) /\ Len(before) = i - 1
      /\ \A j \in 1..(i - 1) : before[j] = list[j]
  BY SubSeqProperties
<1>2. /\ after \in Seq(TaskEntry) /\ Len(after) = Len(list) - i
      /\ \A j \in 1..(Len(list) - i) : after[j] = list[i + j]
  BY SubSeqProperties
<1>3. new = before \o after
  BY DEF RemoveAt
<1> HIDE DEF before, after
<1>4. /\ new \in Seq(TaskEntry) /\ Len(new) = Len(list) - 1
      /\ \A j \in 1..Len(new) :
           new[j] = IF j <= Len(before) THEN before[j] ELSE after[j - Len(before)]
  <2>1. /\ before \o after \in Seq(TaskEntry)
        /\ Len(before \o after) = Len(before) + Len(after)
        /\ \A j \in 1..(Len(before) + Len(after)) : (before \o after)[j] =
             IF j <= Len(before) THEN before[j] ELSE after[j - Len(before)]
    BY <1>1, <1>2, ConcatProperties
  <2>2. Len(before) + Len(after) = Len(list) - 1
    BY <1>1, <1>2
  <2>3. QED
    BY <1>3, <2>1, <2>2
<1>5. ASSUME NEW j \in 1..Len(new)
      PROVE  new[j] = IF j < i THEN list[j] ELSE list[j + 1]
  <2>1. CASE j < i
    BY <1>1, <1>4, <2>1
  <2>2. CASE j >= i
    <3>1. j - (i - 1) \in 1..(Len(list) - i) /\ i + (j - (i - 1)) = j + 1
      BY <1>4, <2>2
    <3>2. after[j - (i - 1)] = list[j + 1]
      BY <1>2, <3>1
    <3>3. QED
      BY <1>1, <1>4, <2>2, <3>2
  <2>3. QED
    BY <2>1, <2>2
<1>6. QED
  BY <1>4, <1>5

LEMMA CancelInv ==
  ASSUME TMInv, NEW r \in Robot, NEW t \in Task, Cancel(r, t)
  PROVE  TMInv'
<1>1. /\ TMTypeOK /\ tasks[r] \in Seq(TaskEntry) /\ active[r] \in Nat
      /\ RobotOK(tasks[r], active[r], state[r])
  BY InvByRobot DEF TMTypeOK
<1>2. told' \in [Robot -> [state: State, active: Task \cup {None}]]
  BY <1>1 DEF Cancel, TMTypeOK
<1>3. ASSUME NEW i \in Named(r, t), tasks[r][i].status = "WAITING", RemoveWaiting(r, i)
      PROVE  TMInv'
  <2>1. i \in 1..Len(tasks[r])
    BY DEF Named
  <2>2. PICK new : new = RemoveAt(tasks[r], i)
    OBVIOUS
  <2>3. /\ new \in Seq(TaskEntry) /\ Len(new) = Len(tasks[r]) - 1
        /\ \A j \in 1..Len(new) : new[j] = IF j < i THEN tasks[r][j] ELSE tasks[r][j + 1]
    BY <1>1, <2>1, <2>2, Removed, ZenonT(60)
  <2>4. /\ tasks'[r] = new /\ state'[r] = state[r]
        /\ active'[r] = IF active[r] > i THEN active[r] - 1 ELSE active[r]
    BY <1>1, <1>3, <2>2 DEF RemoveWaiting, TMTypeOK
  <2>5. active[r] # i /\ active[r] <= Len(tasks[r])
    BY <1>1, <1>3, <2>1 DEF RobotOK, ActiveEntries
  <2>6. ActiveEntries(new) = (IF active'[r] = 0 THEN {} ELSE {active'[r]})
    <3>1. \A j \in 1..Len(tasks[r]) : tasks[r][j].status = "ACTIVE" <=> active[r] # 0 /\ j = active[r]
      BY <1>1 DEF RobotOK, ActiveEntries
    <3>2. ASSUME NEW j \in 1..Len(new)
          PROVE  new[j].status = "ACTIVE" <=> active'[r] # 0 /\ j = active'[r]
      <4>1. CASE j < i
        <5>1. new[j] = tasks[r][j] /\ j \in 1..Len(tasks[r])
          BY <1>1, <2>1, <2>3, <4>1
        <5>2. QED
          BY <1>1, <2>1, <2>4, <2>5, <3>1, <4>1, <5>1
      <4>2. CASE j >= i
        <5>1. new[j] = tasks[r][j + 1] /\ j + 1 \in 1..Len(tasks[r])
          BY <1>1, <2>1, <2>3, <4>2, SMTT(30)
        <5>2. QED
          BY <1>1, <2>1, <2>4, <2>5, <3>1, <4>2, <5>1, SMTT(30)
      <4>3. QED
        BY <2>1, <2>3, <4>1, <4>2
    <3>3. active'[r] # 0 => active'[r] \in 1..Len(new)
      BY <1>1, <2>1, <2>3, <2>4, <2>5
    <3>4. QED
      BY <3>2, <3>3 DEF ActiveEntries
  <2>7. active'[r] = 0 <=> active[r] = 0
    BY <1>1, <2>1, <2>4
  <2>8. state[r] # "IDLE"
    BY <1>1, <1>3, <2>1 DEF RobotOK, Waiting
  <2>9. RobotOK(tasks'[r], active'[r], state'[r])
    BY <1>1, <2>4, <2>6, <2>7, <2>8 DEF RobotOK
  <2>10. tasks' \in [Robot -> Seq(TaskEntry)]
    BY <1>1, <1>3, <2>2, <2>3 DEF RemoveWaiting, TMTypeOK
  <2>11. active' \in [Robot -> Nat]
    BY <1>1, <1>3, <2>1 DEF RemoveWaiting, TMTypeOK
  <2>12. /\ state' \in [Robot -> State]
         /\ \A s \in Robot : s # r =>
              tasks'[s] = tasks[s] /\ active'[s] = active[s] /\ state'[s] = state[s]
    BY <1>1, <1>3 DEF RemoveWaiting, TMTypeOK
  <2>13. QED
    BY <1>2, <2>9, <2>10, <2>11, <2>12, OneRobot
<1>4. ASSUME NEW i \in Named(r, t), tasks[r][i].status = "ACTIVE", RemoveActive(r, i)
      PROVE  TMInv'
  <2>1. i \in 1..Len(tasks[r])
    BY DEF Named
  <2>2. PICK new : new = RemoveAt(tasks[r], i)
    OBVIOUS
  <2>3. /\ new \in Seq(TaskEntry) /\ Len(new) = Len(tasks[r]) - 1
        /\ \A j \in 1..Len(new) : new[j] = IF j < i THEN tasks[r][j] ELSE tasks[r][j + 1]
    BY <1>1, <2>1, <2>2, Removed, ZenonT(60)
  <2>4. \A j \in 1..Len(tasks[r]) : tasks[r][j].status = "ACTIVE" => j = i
    BY <1>1, <1>4, <2>1 DEF RobotOK, ActiveEntries
  <2>5. ActiveEntries(new) = {}
    <3>1. ASSUME NEW j \in 1..Len(new) PROVE new[j].status # "ACTIVE"
      BY <1>1, <2>1, <2>3, <2>4, SMTT(30)
    <3>2. QED
      BY <3>1 DEF ActiveEntries
  <2>6. ActivateNext(r, new)
    BY <1>4, <2>2 DEF RemoveActive
  <2>7. QED
    BY <1>1, <1>2, <2>3, <2>5, <2>6, ActivateNextOK, OneRobot
<1>5. CASE UNCHANGED <<tasks, active, state>>
  BY <1>1, <1>2, <1>5, OneRobot DEF TMTypeOK
<1>6. QED
  BY <1>3, <1>4, <1>5 DEF Cancel

LEMMA ControlLoopInv ==
  ASSUME TMInv, NEW r \in Robot, ControlLoop(r)
  PROVE  TMInv'
<1>1. /\ TMTypeOK /\ tasks[r] \in Seq(TaskEntry) /\ active[r] \in Nat /\ state[r] \in State
      /\ RobotOK(tasks[r], active[r], state[r])
  BY InvByRobot DEF TMTypeOK
<1>2. active[r] # 0 => active[r] \in 1..Len(tasks[r])
  BY <1>1 DEF RobotOK, ActiveEntries
<1>3. told' \in [Robot -> [state: State, active: Task \cup {None}]]
  <2>1. active[r] # 0 => tasks[r][active[r]].id \in Task
    <3>1. active[r] # 0 => tasks[r][active[r]] \in TaskEntry
      BY <1>1, <1>2
    <3>2. QED
      BY <3>1 DEF TaskEntry
  <2>2. Current(r) \in [state: State, active: Task \cup {None}]
    BY <1>1, <2>1 DEF Current
  <2>3. QED
    BY <1>1, <2>2 DEF ControlLoop, Report, Advance, Complete, Tell, TMTypeOK
<1>4. CASE Report(r)
  BY <1>1, <1>3, <1>4, OneRobot DEF Report, TMTypeOK
<1>5. CASE Advance(r)
  <2>1. PICK next \in State : /\ <<state[r], next>> \in Following
                              /\ state' = [state EXCEPT ![r] = next]
    BY <1>5 DEF Advance
  <2>2. state[r] # "IDLE" /\ next # "IDLE"
    BY <2>1 DEF Following
  <2>3. state'[r] = next /\ tasks'[r] = tasks[r] /\ active'[r] = active[r]
    BY <1>1, <1>5, <2>1 DEF Advance, TMTypeOK
  <2>4. RobotOK(tasks'[r], active'[r], state'[r])
    BY <1>1, <2>2, <2>3 DEF RobotOK
  <2>5. QED
    BY <1>1, <1>3, <1>5, <2>1, <2>4, OneRobot DEF Advance, TMTypeOK
<1>6. CASE Complete(r)
  <2>1. PICK new : new = SetStatus(tasks[r], active[r], "COMPLETED")
    OBVIOUS
  <2>2. active[r] # 0 /\ active[r] \in 1..Len(tasks[r])
    BY <1>1, <1>2, <1>6 DEF Complete, RobotOK
  <2>3. /\ new \in Seq(TaskEntry) /\ Len(new) = Len(tasks[r])
        /\ new[active[r]].status = "COMPLETED"
        /\ \A j \in 1..Len(tasks[r]) : j # active[r] => new[j] = tasks[r][j]
    <3> DEFINE list == tasks[r]
               i == active[r]
               changed == SetStatus(list, i, "COMPLETED")
    <3>1. list \in Seq(TaskEntry) /\ i \in 1..Len(list)
      BY <1>1, <2>2
    <3> HIDE DEF list, i
    <3>2. /\ changed \in Seq(TaskEntry) /\ Len(changed) = Len(list)
          /\ changed[i].status = "COMPLETED"
          /\ \A j \in 1..Len(list) : j # i => changed[j] = list[j]
      BY <3>1, StatusChange
    <3>3. QED
      BY <2>1, <3>2 DEF list, i
  <2>4. ActiveEntries(new) = {}
    BY <1>1, <2>2, <2>3 DEF RobotOK, ActiveEntries
  <2>5. ActivateNext(r, new)
    BY <1>6, <2>1 DEF Complete
  <2>6. QED
    BY <1>1, <1>3, <2>3, <2>4, <2>5, ActivateNextOK, OneRobot
<1>7. QED
  BY <1>4, <1>5, <1>6 DEF ControlLoop

LEMMA TMInitInv == TMInit => TMInv
<1> SUFFICES ASSUME TMInit PROVE TMInv
  OBVIOUS
<1>1. TMTypeOK
  BY DEF TMInit, TMTypeOK, State
<1>2. \A r \in Robot : tasks[r] = <<>> /\ active[r] = 0 /\ state[r] = "IDLE"
  BY DEF TMInit
<1>3. \A r \in Robot : RobotOK(tasks[r], active[r], state[r])
  BY <1>2 DEF RobotOK, ActiveEntries, Waiting
<1>4. QED
  BY <1>1, <1>3, InvByRobot

LEMMA TMNextInv == TMInv /\ [TMNext]_tmVars => TMInv'
<1> SUFFICES ASSUME TMInv, [TMNext]_tmVars PROVE TMInv'
  OBVIOUS
<1>1. CASE TMNext
  BY <1>1, AssignInv, CancelInv, ControlLoopInv DEF TMNext
<1>2. CASE UNCHANGED tmVars
  BY <1>2 DEF tmVars, TMInv, TMTypeOK, ActiveIsActive, NeverIdleWithWork, Waiting
<1>3. QED
  BY <1>1, <1>2

-----------------------------------------------------------------------------
(* The theorems.                                                           *)

(* The three invariants of the task manager together: each is kept only    *)
(* where the others hold.                                                  *)
THEOREM TMInvariant == TMSpec => []TMInv
BY TMInitInv, TMNextInv, PTL DEF TMSpec

(* Every variable of a task manager keeps its type.                        *)
THEOREM TMTypeCorrect == TMSpec => []TMTypeOK
<1>1. TMInv => TMTypeOK
  BY DEF TMInv
<1>2. QED
  BY <1>1, TMInvariant, PTL

(* The index of the active task always points at the one active entry, and *)
(* the node is idle exactly when there is none.                            *)
THEOREM ActiveIndexed == TMSpec => []ActiveIsActive
<1>1. TMInv => ActiveIsActive
  BY DEF TMInv
<1>2. QED
  BY <1>1, TMInvariant, PTL

(* A task manager is never idle while one of its tasks waits.              *)
THEOREM NoIdleWork == TMSpec => []NeverIdleWithWork
<1>1. TMInv => NeverIdleWithWork
  BY DEF TMInv
<1>2. QED
  BY <1>1, TMInvariant, PTL


-----------------------------------------------------------------------------
(* What a callback does to the task a node executes, to those it has       *)
(* completed, and to those that wait.                                      *)
Executed(r) == IF active[r] = 0 THEN None ELSE tasks[r][active[r]].id

CompletedIn(list, t) ==
  \E i \in 1..Len(list) : list[i] = [id |-> t, status |-> "COMPLETED"]

(* The other nodes are left alone.                                         *)
OthersAlone(r) ==
  \A s \in Robot : s # r => tasks'[s] = tasks[s] /\ active'[s] = active[s]

LEMMA StatusChangeId ==
  ASSUME NEW list \in Seq(TaskEntry), NEW i \in 1..Len(list),
         NEW s \in {"WAITING", "ACTIVE", "COMPLETED"}
  PROVE  SetStatus(list, i, s)[i] = [id |-> list[i].id, status |-> s]
<1>1. list[i] \in TaskEntry
  OBVIOUS
<1>2. [list[i] EXCEPT !.status = s] = [id |-> list[i].id, status |-> s]
  BY <1>1 DEF TaskEntry
<1>3. SetStatus(list, i, s)[i] = [list[i] EXCEPT !.status = s]
  BY DEF SetStatus
<1> QED
  BY <1>2, <1>3

LEMMA ActivateNextEffect ==
  ASSUME TMTypeOK, NEW r \in Robot, NEW list \in Seq(TaskEntry), ActivateNext(r, list)
  PROVE  /\ OthersAlone(r)
         /\ \A t : CompletedIn(list, t) => CompletedIn(tasks'[r], t)
         /\ Waiting(list) = {} => tasks'[r] = list /\ active'[r] = 0
         /\ \A n : Waiting(list) = {n} =>
              /\ active'[r] = n /\ n # 0 /\ tasks'[r][n].id = list[n].id
              /\ Waiting(tasks'[r]) = {}
<1>1. OthersAlone(r)
  BY DEF ActivateNext, OthersAlone, TMTypeOK
<1>2. CASE Waiting(list) = {} /\ tasks' = [tasks EXCEPT ![r] = list]
           /\ active' = [active EXCEPT ![r] = 0]
  BY <1>1, <1>2 DEF TMTypeOK
<1>3. ASSUME NEW i \in NextWaiting(list),
             tasks' = [tasks EXCEPT ![r] = SetStatus(list, i, "ACTIVE")],
             active' = [active EXCEPT ![r] = i]
      PROVE  /\ \A t : CompletedIn(list, t) => CompletedIn(tasks'[r], t)
             /\ Waiting(list) # {}
             /\ \A n : Waiting(list) = {n} =>
                  /\ active'[r] = n /\ n # 0 /\ tasks'[r][n].id = list[n].id
                  /\ Waiting(tasks'[r]) = {}
  <2>1. i \in 1..Len(list) /\ i \in Waiting(list) /\ list[i].status = "WAITING"
    BY DEF NextWaiting, Waiting
  <2>2. PICK new : new = SetStatus(list, i, "ACTIVE")
    OBVIOUS
  <2>3. /\ new \in Seq(TaskEntry) /\ Len(new) = Len(list)
        /\ new[i] = [id |-> list[i].id, status |-> "ACTIVE"]
        /\ \A j \in 1..Len(list) : j # i => new[j] = list[j]
    <3>1. PICK s : s = "ACTIVE" /\ s \in {"WAITING", "ACTIVE", "COMPLETED"}
      OBVIOUS
    <3>2. /\ SetStatus(list, i, s) \in Seq(TaskEntry)
          /\ Len(SetStatus(list, i, s)) = Len(list)
          /\ \A j \in 1..Len(list) : j # i => SetStatus(list, i, s)[j] = list[j]
      BY <2>1, <3>1, StatusChange
    <3>3. SetStatus(list, i, s)[i] = [id |-> list[i].id, status |-> s]
      BY <2>1, <3>1, StatusChangeId
    <3> QED
      BY <2>2, <3>1, <3>2, <3>3
  <2>4. tasks'[r] = new /\ active'[r] = i
    BY <1>3, <2>2 DEF TMTypeOK
  <2>5. ASSUME NEW t, CompletedIn(list, t) PROVE CompletedIn(new, t)
    <3>1. PICK j \in 1..Len(list) : list[j] = [id |-> t, status |-> "COMPLETED"]
      BY <2>5 DEF CompletedIn
    <3>2. j # i
      BY <2>1, <3>1
    <3> QED
      BY <2>3, <3>1, <3>2 DEF CompletedIn
  <2>6. ASSUME NEW n, Waiting(list) = {n}
        PROVE  n = i /\ Waiting(new) = {}
    <3>1. n = i
      BY <2>1, <2>6
    <3>2. \A j \in 1..Len(list) : j # i => new[j].status # "WAITING"
      BY <2>3, <2>6, <3>1 DEF Waiting
    <3>3. new[i].status # "WAITING"
      BY <2>3
    <3> QED
      BY <2>3, <3>1, <3>2, <3>3 DEF Waiting
  <2>7. i # 0 /\ new[i].id = list[i].id
    BY <2>1, <2>3
  <2> QED
    BY <2>1, <2>4, <2>5, <2>6, <2>7
<1> QED
  BY <1>1, <1>2, <1>3 DEF ActivateNext

LEMMA ActiveEntry ==
  ASSUME TMInv, NEW r \in Robot, active[r] # 0
  PROVE  active[r] \in 1..Len(tasks[r]) /\ tasks[r][active[r]].status = "ACTIVE"
         /\ tasks[r][active[r]] \in TaskEntry /\ tasks[r][active[r]].id \in Task
<1>1. RobotOK(tasks[r], active[r], state[r]) /\ tasks[r] \in Seq(TaskEntry)
  BY InvByRobot DEF TMTypeOK
<1>2. active[r] \in 1..Len(tasks[r]) /\ tasks[r][active[r]].status = "ACTIVE"
  BY <1>1 DEF RobotOK, ActiveEntries
<1>3. tasks[r][active[r]] \in TaskEntry
  BY <1>1, <1>2
<1> QED
  BY <1>2, <1>3 DEF TaskEntry

LEMMA AssignEffect ==
  ASSUME TMInv, NEW r \in Robot, NEW t \in Task, Assign(r, t)
  PROVE  /\ OthersAlone(r) /\ UNCHANGED told
         /\ \A u : CompletedIn(tasks[r], u) => CompletedIn(tasks'[r], u)
         /\ Executed(r) # None => Executed(r)' = Executed(r)
         /\ Waiting(tasks[r]) = {} /\ active[r] = 0 =>
              Waiting(tasks'[r]) = {} /\ active'[r] # 0 /\ Executed(r)' = t
<1> DEFINE old == tasks[r]
           e == [id |-> t, status |-> "WAITING"]
           new == Append(old, e)
<1>1. TMTypeOK /\ old \in Seq(TaskEntry) /\ active[r] \in Nat
      /\ (state[r] = "IDLE" <=> active[r] = 0)
  BY DEF TMInv, TMTypeOK, ActiveIsActive
<1>2. e \in TaskEntry
  BY DEF TaskEntry
<1>3. /\ new \in Seq(TaskEntry) /\ Len(new) = Len(old) + 1 /\ new[Len(old) + 1] = e
      /\ \A i \in 1..Len(old) : new[i] = old[i]
  BY <1>1, <1>2, AppendProperties
<1>4. e.id = t /\ e.status = "WAITING"
  OBVIOUS
<1> HIDE DEF new, e
<1>5. \A u : CompletedIn(old, u) => CompletedIn(new, u)
  BY <1>1, <1>3 DEF CompletedIn
<1>6. CASE active[r] = 0
  <2>1. ActivateNext(r, new)
    BY <1>1, <1>6 DEF Assign, new, e
  <2>2. /\ OthersAlone(r)
        /\ \A u : CompletedIn(new, u) => CompletedIn(tasks'[r], u)
        /\ \A n : Waiting(new) = {n} =>
             /\ active'[r] = n /\ n # 0 /\ tasks'[r][n].id = new[n].id
             /\ Waiting(tasks'[r]) = {}
    BY <1>1, <1>3, <2>1, ActivateNextEffect
  <2>3. ASSUME Waiting(old) = {} PROVE Waiting(new) = {Len(old) + 1}
    BY <1>1, <1>3, <1>4, <2>3 DEF Waiting
  <2>4. Waiting(old) = {} =>
          Waiting(tasks'[r]) = {} /\ active'[r] # 0 /\ Executed(r)' = t
    BY <1>3, <1>4, <2>2, <2>3 DEF Executed
  <2> QED
    BY <1>5, <1>6, <2>2, <2>4 DEF Assign, Executed
<1>7. CASE active[r] # 0
  <2>1. tasks' = [tasks EXCEPT ![r] = new] /\ UNCHANGED <<active, told>>
    BY <1>7 DEF Assign, new, e
  <2>2. tasks'[r] = new /\ OthersAlone(r)
    BY <1>1, <2>1 DEF TMTypeOK, OthersAlone
  <2>3. active[r] \in 1..Len(old)
    BY <1>7, ActiveEntry
  <2>4. new[active[r]] = old[active[r]]
    BY <1>3, <2>3
  <2> QED
    BY <1>5, <1>7, <2>1, <2>2, <2>4 DEF Executed
<1> QED
  BY <1>6, <1>7

LEMMA RemovedCompleted ==
  ASSUME NEW list \in Seq(TaskEntry), NEW i \in 1..Len(list),
         list[i].status # "COMPLETED"
  PROVE  /\ \A u : CompletedIn(list, u) => CompletedIn(RemoveAt(list, i), u)
         /\ Waiting(list) = {} => Waiting(RemoveAt(list, i)) = {}
<1> DEFINE new == RemoveAt(list, i)
<1>1. /\ new \in Seq(TaskEntry) /\ Len(new) = Len(list) - 1
      /\ \A j \in 1..Len(new) : new[j] = IF j < i THEN list[j] ELSE list[j + 1]
  BY Removed
<1> HIDE DEF new
<1>2. ASSUME NEW u, CompletedIn(list, u) PROVE CompletedIn(new, u)
  <2>1. PICK j \in 1..Len(list) : list[j] = [id |-> u, status |-> "COMPLETED"]
    BY <1>2 DEF CompletedIn
  <2>2. j # i
    BY <2>1
  <2>3. CASE j < i
    <3>1. j \in 1..Len(new) /\ new[j] = list[j]
      BY <1>1, <2>3
    <3> QED
      BY <2>1, <3>1 DEF CompletedIn
  <2>4. CASE j > i
    <3>1. j - 1 \in 1..Len(new) /\ new[j - 1] = list[j]
      <4> DEFINE k == j - 1
      <4>1. k \in 1..Len(new) /\ ~(k < i) /\ k + 1 = j
        BY <1>1, <2>4
      <4> HIDE DEF k
      <4>2. new[k] = list[j]
        BY <1>1, <4>1
      <4> QED
        BY <4>1, <4>2 DEF k
    <3> QED
      BY <2>1, <3>1 DEF CompletedIn
  <2> QED
    BY <2>2, <2>3, <2>4
<1>3. ASSUME Waiting(list) = {} PROVE Waiting(new) = {}
  <2>1. \A j \in 1..Len(list) : list[j].status # "WAITING"
    BY <1>3 DEF Waiting
  <2>2. ASSUME NEW j \in 1..Len(new) PROVE new[j].status # "WAITING"
    <3>1. j \in 1..Len(list) /\ j + 1 \in 1..Len(list)
      BY <1>1
    <3> QED
      BY <1>1, <2>1, <3>1
  <2> QED
    BY <2>2 DEF Waiting
<1> QED
  BY <1>2, <1>3 DEF new

LEMMA CancelEffect ==
  ASSUME TMInv, NEW r \in Robot, NEW t \in Task, Cancel(r, t)
  PROVE  /\ OthersAlone(r) /\ UNCHANGED told
         /\ \A u : CompletedIn(tasks[r], u) => CompletedIn(tasks'[r], u)
         /\ Executed(r) \notin {None, t} => Executed(r)' = Executed(r)
         /\ Waiting(tasks[r]) = {} =>
              /\ Waiting(tasks'[r]) = {}
              /\ active'[r] \in {0, active[r]} /\ Executed(r)' \in {None, Executed(r)}
<1>1. TMTypeOK /\ tasks[r] \in Seq(TaskEntry) /\ active[r] \in Nat
  BY DEF TMInv, TMTypeOK
<1>2. CASE UNCHANGED <<tasks, active>>
  BY <1>2 DEF Cancel, Executed, OthersAlone
<1>3. ASSUME NEW i \in Named(r, t), tasks[r][i].status = "WAITING", RemoveWaiting(r, i)
      PROVE  /\ OthersAlone(r)
             /\ \A u : CompletedIn(tasks[r], u) => CompletedIn(tasks'[r], u)
             /\ Executed(r) # None => Executed(r)' = Executed(r)
             /\ Waiting(tasks[r]) # {}
  <2>1. i \in 1..Len(tasks[r]) /\ i \in Waiting(tasks[r])
    BY <1>3 DEF Named, Waiting
  <2>2. PICK new : new = RemoveAt(tasks[r], i)
    OBVIOUS
  <2>3. /\ new \in Seq(TaskEntry) /\ Len(new) = Len(tasks[r]) - 1
        /\ \A j \in 1..Len(new) : new[j] = IF j < i THEN tasks[r][j] ELSE tasks[r][j + 1]
    BY <1>1, <2>1, <2>2, Removed, ZenonT(60)
  <2>4. /\ tasks'[r] = new /\ OthersAlone(r)
        /\ active'[r] = IF active[r] > i THEN active[r] - 1 ELSE active[r]
    BY <1>1, <1>3, <2>2 DEF RemoveWaiting, TMTypeOK, OthersAlone
  <2>5. \A u : CompletedIn(tasks[r], u) => CompletedIn(new, u)
    <3>1. tasks[r][i].status # "COMPLETED"
      BY <1>3
    <3> QED
      BY <1>1, <2>1, <2>2, <3>1, RemovedCompleted, Zenon
  <2>6. ASSUME active[r] # 0
        PROVE  active'[r] # 0 /\ new[active'[r]] = tasks[r][active[r]]
    <3> DEFINE a == active[r]
    <3>1. a \in 1..Len(tasks[r]) /\ a # i
      BY <1>3, <2>6, ActiveEntry
    <3>2. CASE a < i
      BY <2>1, <2>3, <2>4, <3>1, <3>2
    <3>3. CASE a > i
      <4>1. PICK k : k = a - 1
        OBVIOUS
      <4>2. k \in 1..Len(new) /\ ~(k < i) /\ k + 1 = a /\ active'[r] = k
        BY <2>1, <2>3, <2>4, <3>1, <3>3, <4>1
      <4>3. new[k] = tasks[r][k + 1]
        BY <2>3, <4>2
      <4> QED
        BY <4>2, <4>3
    <3> QED
      BY <2>1, <3>1, <3>2, <3>3
  <2> QED
    BY <2>1, <2>4, <2>5, <2>6 DEF Executed
<1>4. ASSUME NEW i \in Named(r, t), tasks[r][i].status = "ACTIVE", RemoveActive(r, i)
      PROVE  /\ OthersAlone(r)
             /\ \A u : CompletedIn(tasks[r], u) => CompletedIn(tasks'[r], u)
             /\ Executed(r) = t
             /\ Waiting(tasks[r]) = {} => Waiting(tasks'[r]) = {} /\ active'[r] = 0
  <2>1. i \in 1..Len(tasks[r]) /\ tasks[r][i].id = t
    BY DEF Named
  <2>2. PICK new : new = RemoveAt(tasks[r], i)
    OBVIOUS
  <2>3. new \in Seq(TaskEntry)
    BY <1>1, <2>1, <2>2, Removed, Zenon
  <2>4. /\ \A u : CompletedIn(tasks[r], u) => CompletedIn(new, u)
        /\ Waiting(tasks[r]) = {} => Waiting(new) = {}
    <3>1. tasks[r][i].status # "COMPLETED"
      BY <1>4
    <3> QED
      BY <1>1, <2>1, <2>2, <3>1, RemovedCompleted, Zenon
  <2>5. ActivateNext(r, new)
    BY <1>4, <2>2 DEF RemoveActive
  <2>6. /\ OthersAlone(r)
        /\ \A u : CompletedIn(new, u) => CompletedIn(tasks'[r], u)
        /\ Waiting(new) = {} => tasks'[r] = new /\ active'[r] = 0
    BY <1>1, <2>3, <2>5, ActivateNextEffect
  <2>7. active[r] = i /\ i # 0
    BY <1>4, <2>1 DEF TMInv, ActiveIsActive
  <2> QED
    BY <2>1, <2>4, <2>6, <2>7 DEF Executed
<1> QED
  BY <1>2, <1>3, <1>4 DEF Cancel, Executed

LEMMA ControlLoopEffect ==
  ASSUME TMInv, NEW r \in Robot, ControlLoop(r)
  PROVE  /\ OthersAlone(r)
         /\ told'[r].active = Executed(r)
         /\ \A s \in Robot : s # r => told'[s] = told[s]
         /\ \A u : CompletedIn(tasks[r], u) => CompletedIn(tasks'[r], u)
         /\ Executed(r)' = Executed(r) \/ CompletedIn(tasks'[r], Executed(r))
         /\ Waiting(tasks[r]) = {} =>
              /\ Waiting(tasks'[r]) = {}
              /\ active'[r] \in {0, active[r]} /\ Executed(r)' \in {None, Executed(r)}
<1>1. TMTypeOK /\ tasks[r] \in Seq(TaskEntry) /\ active[r] \in Nat
  BY DEF TMInv, TMTypeOK
<1>2. /\ told'[r].active = Executed(r)
      /\ \A s \in Robot : s # r => told'[s] = told[s]
  BY <1>1 DEF ControlLoop, Report, Advance, Complete, Tell, Current, Executed, TMTypeOK
<1>3. CASE UNCHANGED <<tasks, active>>
  BY <1>2, <1>3 DEF OthersAlone, Executed
<1>4. CASE Complete(r)
  <2>1. PICK new : new = SetStatus(tasks[r], active[r], "COMPLETED")
    OBVIOUS
  <2>2. active[r] # 0
    BY <1>4 DEF Complete, TMInv, ActiveIsActive
  <2>3. active[r] \in 1..Len(tasks[r]) /\ tasks[r][active[r]].status = "ACTIVE"
    BY <2>2, ActiveEntry
  <2>4. /\ new \in Seq(TaskEntry) /\ Len(new) = Len(tasks[r])
        /\ new[active[r]] = [id |-> tasks[r][active[r]].id, status |-> "COMPLETED"]
        /\ \A j \in 1..Len(tasks[r]) : j # active[r] => new[j] = tasks[r][j]
    <3> DEFINE list == tasks[r]
               i == active[r]
    <3>1. list \in Seq(TaskEntry) /\ i \in 1..Len(list)
      BY <1>1, <2>3
    <3> HIDE DEF list, i
    <3>2. /\ SetStatus(list, i, "COMPLETED") \in Seq(TaskEntry)
          /\ Len(SetStatus(list, i, "COMPLETED")) = Len(list)
          /\ SetStatus(list, i, "COMPLETED")[i] = [id |-> list[i].id, status |-> "COMPLETED"]
          /\ \A j \in 1..Len(list) : j # i => SetStatus(list, i, "COMPLETED")[j] = list[j]
      BY <3>1, StatusChange, StatusChangeId
    <3> QED
      BY <2>1, <3>2 DEF list, i
  <2>5. ActivateNext(r, new)
    BY <1>4, <2>1 DEF Complete
  <2>6. /\ OthersAlone(r)
        /\ \A u : CompletedIn(new, u) => CompletedIn(tasks'[r], u)
        /\ Waiting(new) = {} => tasks'[r] = new /\ active'[r] = 0
    BY <1>1, <2>4, <2>5, ActivateNextEffect
  <2>7. CompletedIn(new, Executed(r))
    BY <2>2, <2>3, <2>4 DEF CompletedIn, Executed
  <2>8. ASSUME NEW u, CompletedIn(tasks[r], u) PROVE CompletedIn(new, u)
    <3>1. PICK j \in 1..Len(tasks[r]) : tasks[r][j] = [id |-> u, status |-> "COMPLETED"]
      BY <2>8 DEF CompletedIn
    <3>2. j # active[r]
      BY <2>3, <3>1
    <3> QED
      BY <2>4, <3>1, <3>2 DEF CompletedIn
  <2>9. ASSUME Waiting(tasks[r]) = {} PROVE Waiting(new) = {}
    <3>1. new[active[r]].status # "WAITING"
      BY <2>4
    <3> QED
      BY <2>4, <2>9, <3>1 DEF Waiting
  <2> QED
    BY <1>2, <2>6, <2>7, <2>8, <2>9 DEF Executed
<1> QED
  BY <1>3, <1>4 DEF ControlLoop, Report, Advance
=============================================================================
