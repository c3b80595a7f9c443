-------------------------- MODULE FleetSystemProofs --------------------------
(***************************************************************************)
(* In the composition every step is one the fleet manager may take by      *)
(* itself, one a task manager may, or none of either's: what is proved of  *)
(* each of them holds in the system, whose messages are then the ones that *)
(* arrive.                                                                 *)
(***************************************************************************)
EXTENDS FleetSystem, FleetManagerProofs, FiniteSetTheorems

TMProofs == INSTANCE TaskManagerProofs

(* What the topics carry.                                                  *)
TopicsOK ==
  /\ knows \in [Robot -> Task \cup {None}]
  /\ announced \in [Robot -> SUBSET (Task \cup {None})]
  /\ assignments \in [Robot -> Seq(Task)]
  /\ cancels \in [Robot -> Seq(Task)]

(* Each of the three needs the others: a registration is one the fleet     *)
(* manager expects because a task manager told the beacon of its task, and *)
(* that is a task because the fleet manager assigned it.                   *)
SysInv == IInv /\ TMProofs!TMInv /\ TopicsOK

-----------------------------------------------------------------------------
(* The definitions of TaskManager, reached through either instance.        *)
LEMMA SameStart == TM!TMInit => TMProofs!TMInit
BY DEF TM!TMInit, TMProofs!TMInit

LEMMA SameActivateNext ==
  ASSUME NEW r, NEW list, TM!ActivateNext(r, list)
  PROVE  TMProofs!ActivateNext(r, list)
<1>1. TM!Waiting(list) = TMProofs!Waiting(list)
  BY DEF TM!Waiting, TMProofs!Waiting
<1>2. TM!NextWaiting(list) = TMProofs!NextWaiting(list)
  BY <1>1 DEF TM!NextWaiting, TMProofs!NextWaiting
<1>3. \A i, s : TM!SetStatus(list, i, s) = TMProofs!SetStatus(list, i, s)
  BY DEF TM!SetStatus, TMProofs!SetStatus
<1>4. QED
  BY <1>1, <1>2, <1>3 DEF TM!ActivateNext, TMProofs!ActivateNext

LEMMA SameAssign ==
  ASSUME NEW r, NEW t, TM!Assign(r, t)
  PROVE  TMProofs!Assign(r, t)
BY SameActivateNext DEF TM!Assign, TMProofs!Assign

LEMMA SameCancel ==
  ASSUME NEW r, NEW t, TM!Cancel(r, t)
  PROVE  TMProofs!Cancel(r, t)
<1>1. TM!Named(r, t) = TMProofs!Named(r, t)
  BY DEF TM!Named, TMProofs!Named
<1> \A q, i : TM!RemoveAt(q, i) = TMProofs!RemoveAt(q, i)
  BY DEF TM!RemoveAt, TMProofs!RemoveAt
<1>2. \A i : TM!RemoveWaiting(r, i) => TMProofs!RemoveWaiting(r, i)
  BY DEF TM!RemoveWaiting, TMProofs!RemoveWaiting
<1>3. \A i : TM!RemoveActive(r, i) => TMProofs!RemoveActive(r, i)
  BY SameActivateNext DEF TM!RemoveActive, TMProofs!RemoveActive
<1>4. QED
  BY <1>1, <1>2, <1>3 DEF TM!Cancel, TMProofs!Cancel

LEMMA SameControlLoop ==
  ASSUME NEW r, TM!ControlLoop(r)
  PROVE  TMProofs!ControlLoop(r)
<1>1. TM!Tell(r) => TMProofs!Tell(r)
  BY DEF TM!Tell, TMProofs!Tell, TM!Current, TMProofs!Current
<1>2. TM!Report(r) => TMProofs!Report(r)
  BY <1>1 DEF TM!Report, TMProofs!Report
<1>3. TM!Advance(r) => TMProofs!Advance(r)
  BY <1>1 DEF TM!Advance, TMProofs!Advance, TM!Following, TMProofs!Following,
              TM!State, TMProofs!State
<1>4. ASSUME TM!Complete(r) PROVE TMProofs!Complete(r)
  <2>1. TM!SetStatus(tasks[r], active[r], "COMPLETED")
          = TMProofs!SetStatus(tasks[r], active[r], "COMPLETED")
    BY DEF TM!SetStatus, TMProofs!SetStatus
  <2>2. QED
    BY <1>1, <1>4, <2>1, SameActivateNext DEF TM!Complete, TMProofs!Complete
<1>5. QED
  BY <1>2, <1>3, <1>4 DEF TM!ControlLoop, TMProofs!ControlLoop

LEMMA ManagerAssumption == TMProofs!TaskAssumption
BY NoneAssumption, DataAssumption, BoundAssumption DEF TMProofs!TaskAssumption

-----------------------------------------------------------------------------
(* The steps of the system.                                                *)

(* What FleetManager's types say of the work a robot has.                  *)
LEMMA WorkOfType ==
  ASSUME TypeOK, NEW r \in Robot
  PROVE  WorkOf(r) \in Seq(Task)
<1>1. queues[r] \in Seq(Task)
  BY DEF TypeOK
<1>2. CASE Holds(r)
  <2>1. reservations[r].task \in Task
    BY <1>2, HoldsFields
  <2>2. QED
    BY <1>1, <1>2, <2>1 DEF WorkOf
<1>3. CASE ~Holds(r)
  BY <1>1, <1>3 DEF WorkOf
<1>4. QED
  BY <1>2, <1>3

LEMMA PublishType ==
  ASSUME TypeOK, TypeOK', TopicsOK, Publish, UNCHANGED beacons
  PROVE  TopicsOK'
<1>1. ASSUME NEW r \in Robot PROVE assignments'[r] \in Seq(Task)
  <2> DEFINE t == reservations'[r].task
  <2>1. assignments'[r] = IF Assigned(r) THEN Append(assignments[r], t) ELSE assignments[r]
    BY ONLY r \in Robot, Publish DEF Publish, Assigned, Holds
  <2>2. assignments[r] \in Seq(Task)
    BY DEF TopicsOK
  <2>3. ASSUME Assigned(r) PROVE t \in Task
    <3>1. reservations' \in [Robot -> Reservation \cup {None}]
      BY DEF TypeOK
    <3>2. reservations'[r] # None
      BY ONLY <2>3 DEF Assigned, Holds
    <3>3. reservations'[r] \in Reservation
      BY <3>1, <3>2
    <3>4. QED
      BY ONLY <3>3 DEF Reservation
  <2> HIDE DEF t
  <2>4. QED
    BY <2>1, <2>2, <2>3
<1>2. ASSUME NEW r \in Robot PROVE cancels'[r] \in Seq(Task)
  <2>1. cancels'[r] = cancels[r] \o WorkOf(r) \/ cancels'[r] = cancels[r]
    BY ONLY r \in Robot, Publish DEF Publish, WorkOf, Holds
  <2>2. cancels[r] \in Seq(Task) /\ WorkOf(r) \in Seq(Task)
    BY WorkOfType DEF TopicsOK
  <2>3. cancels[r] \o WorkOf(r) \in Seq(Task)
    BY <2>2, ConcatProperties
  <2>4. QED
    BY <2>1, <2>2, <2>3
<1>3. assignments' \in [Robot -> Seq(Task)] /\ cancels' \in [Robot -> Seq(Task)]
  <2>1. /\ assignments' = [r \in Robot |-> assignments'[r]]
        /\ cancels' = [r \in Robot |-> cancels'[r]]
    BY ONLY Publish DEF Publish, Assigned, WorkOf, Holds
  <2>2. QED
    BY <1>1, <1>2, <2>1
<1>4. QED
  BY <1>3 DEF TopicsOK, beacons

(* What a step of the system is to the fleet manager.                      *)
LEMMA FleetPart ==
  ASSUME TopicsOK, SysNext
  PROVE  [Next]_vars
<1>1. CASE FleetTick
  BY <1>1 DEF FleetTick, Next
<1>2. CASE FleetCallback
  BY <1>2 DEF FleetCallback, Next
<1>3. ASSUME NEW t \in Task, Submit(t) PROVE Next
  BY <1>3 DEF Submit, Next, Message
<1>4. ASSUME NEW t \in Task, OperatorCancel(t) PROVE UNCHANGED vars
  BY <1>4 DEF OperatorCancel
<1>5. ASSUME NEW r \in Failing, FallSilent(r) PROVE Next
  BY <1>5 DEF FallSilent, Next, Message
<1>6. ASSUME NEW r \in Failing, Resume(r) PROVE Next
  BY <1>6, DataAssumption DEF Resume, Next, Message
<1>7. ASSUME NEW r \in Robot,
             ReceiveAssignment(r) \/ ReceiveCancel(r) \/ Work(r) \/ HearState(r) \/ Announce(r)
      PROVE  UNCHANGED vars
  BY <1>7 DEF ReceiveAssignment, ReceiveCancel, Work, HearState, Announce
<1>8. ASSUME NEW r \in Robot, ReceiveRegistration(r) PROVE Next
  <2>1. PICK t \in announced[r], report \in Reports : Register(r, report, t)
    BY <1>8 DEF ReceiveRegistration
  <2>2. t \in Task \cup {None}
    BY DEF TopicsOK
  <2>3. QED
    BY <2>1, <2>2 DEF Next, Message
<1>9. QED
  BY <1>1, <1>2, <1>3, <1>4, <1>5, <1>6, <1>7, <1>8 DEF SysNext

(* What it is to the task managers.                                        *)
LEMMA ManagerPart ==
  ASSUME TopicsOK, SysNext
  PROVE  [TMProofs!TMNext]_(TMProofs!tmVars)
<1>1. CASE FleetTick \/ FleetCallback
  BY <1>1 DEF FleetTick, FleetCallback, managers, TMProofs!tmVars
<1>2. ASSUME NEW t \in Task, Submit(t) \/ OperatorCancel(t)
      PROVE  UNCHANGED TMProofs!tmVars
  BY <1>2 DEF Submit, OperatorCancel, managers, TMProofs!tmVars
<1>3. ASSUME NEW r \in Failing, FallSilent(r) \/ Resume(r)
      PROVE  UNCHANGED TMProofs!tmVars
  BY <1>3 DEF FallSilent, Resume, managers, TMProofs!tmVars
<1>4. ASSUME NEW r \in Robot, HearState(r) \/ Announce(r) \/ ReceiveRegistration(r)
      PROVE  UNCHANGED TMProofs!tmVars
  BY <1>4 DEF HearState, Announce, ReceiveRegistration, managers, TMProofs!tmVars
<1>5. ASSUME NEW r \in Robot, ReceiveAssignment(r) PROVE TMProofs!TMNext
  <2>1. assignments[r] # <<>> /\ TM!Assign(r, Head(assignments[r]))
    BY <1>5 DEF ReceiveAssignment
  <2>2. assignments[r] \in Seq(Task)
    BY DEF TopicsOK
  <2>3. Head(assignments[r]) \in Task
    BY <2>1, <2>2
  <2>4. TMProofs!Assign(r, Head(assignments[r]))
    BY <2>1, SameAssign
  <2>5. QED
    BY <2>3, <2>4 DEF TMProofs!TMNext
<1>6. ASSUME NEW r \in Robot, ReceiveCancel(r) PROVE TMProofs!TMNext
  <2>1. cancels[r] # <<>> /\ TM!Cancel(r, Head(cancels[r]))
    BY <1>6 DEF ReceiveCancel
  <2>2. cancels[r] \in Seq(Task)
    BY DEF TopicsOK
  <2>3. Head(cancels[r]) \in Task
    BY <2>1, <2>2
  <2>4. TMProofs!Cancel(r, Head(cancels[r]))
    BY <2>1, SameCancel
  <2>5. QED
    BY <2>3, <2>4 DEF TMProofs!TMNext
<1>7. ASSUME NEW r \in Robot, Work(r) PROVE TMProofs!TMNext
  <2>1. TMProofs!ControlLoop(r)
    BY <1>7, SameControlLoop DEF Work
  <2>2. QED
    BY <2>1 DEF TMProofs!TMNext
<1>8. QED
  BY <1>1, <1>2, <1>3, <1>4, <1>5, <1>6, <1>7 DEF SysNext

-----------------------------------------------------------------------------
(* The inductive invariant of the system.                                  *)

LEMMA SysInitInv == SysInit => SysInv
<1> SUFFICES ASSUME SysInit PROVE SysInv
  OBVIOUS
<1>1. IInv
  BY InitInv DEF SysInit
<1>2. TMProofs!TMInv
  BY SameStart, ManagerAssumption, TMProofs!TMInitInv DEF SysInit
<1>3. TopicsOK
  <2>1. <<>> \in Seq(Task)
    OBVIOUS
  <2>2. QED
    BY <2>1 DEF SysInit, TopicsOK
<1>4. QED
  BY <1>1, <1>2, <1>3 DEF SysInv

(* A topic carries tasks: the fleet manager sends those it reserved, or    *)
(* had queued, and a beacon announces what its task manager told it.       *)
LEMMA TopicsStep ==
  ASSUME SysInv, TypeOK', [SysNext]_sysVars
  PROVE  TopicsOK'
<1>1. TypeOK /\ TopicsOK
  BY DEF SysInv, IInv
<1>2. ASSUME UNCHANGED <<beacons, orders>> PROVE TopicsOK'
  BY <1>1, <1>2 DEF TopicsOK, beacons, orders
<1>3. CASE FleetTick \/ FleetCallback
  BY <1>1, <1>3, PublishType DEF FleetTick, FleetCallback
<1>4. ASSUME NEW t \in Task, Submit(t) PROVE TopicsOK'
  BY <1>1, <1>4, PublishType DEF Submit
<1>5. ASSUME NEW t \in Task, OperatorCancel(t) PROVE TopicsOK'
  <2>1. PICK r \in Robot : cancels' = [cancels EXCEPT ![r] = Append(@, t)]
    BY <1>5 DEF OperatorCancel
  <2>2. Append(cancels[r], t) \in Seq(Task)
    BY <1>1 DEF TopicsOK
  <2>3. cancels' \in [Robot -> Seq(Task)]
    BY <1>1, <2>1, <2>2 DEF TopicsOK
  <2>4. UNCHANGED <<knows, announced, assignments>>
    BY <1>5 DEF OperatorCancel, beacons
  <2>5. QED
    BY <1>1, <2>3, <2>4 DEF TopicsOK
<1>6. ASSUME NEW r \in Failing, FallSilent(r) \/ Resume(r) PROVE TopicsOK'
  BY <1>2, <1>6 DEF FallSilent, Resume
<1>7. ASSUME NEW r \in Robot, Work(r) PROVE TopicsOK'
  BY <1>2, <1>7 DEF Work
<1>8. ASSUME NEW r \in Robot, ReceiveAssignment(r) PROVE TopicsOK'
  <2>1. /\ assignments[r] # <<>> /\ assignments[r] \in Seq(Task)
        /\ assignments' = [assignments EXCEPT ![r] = Tail(@)]
    BY <1>1, <1>8 DEF ReceiveAssignment, TopicsOK
  <2>2. Tail(assignments[r]) \in Seq(Task)
    BY <2>1
  <2>3. assignments' \in [Robot -> Seq(Task)]
    BY <1>1, <2>1, <2>2 DEF TopicsOK
  <2>4. QED
    BY <1>1, <1>8, <2>3 DEF ReceiveAssignment, TopicsOK, beacons
<1>9. ASSUME NEW r \in Robot, ReceiveCancel(r) PROVE TopicsOK'
  <2>1. /\ cancels[r] # <<>> /\ cancels[r] \in Seq(Task)
        /\ cancels' = [cancels EXCEPT ![r] = Tail(@)]
    BY <1>1, <1>9 DEF ReceiveCancel, TopicsOK
  <2>2. Tail(cancels[r]) \in Seq(Task)
    BY <2>1
  <2>3. cancels' \in [Robot -> Seq(Task)]
    BY <1>1, <2>1, <2>2 DEF TopicsOK
  <2>4. QED
    BY <1>1, <1>9, <2>3 DEF ReceiveCancel, TopicsOK, beacons
<1>10. ASSUME NEW r \in Robot, HearState(r) PROVE TopicsOK'
  <2>1. told[r].active \in Task \cup {None}
    BY DEF SysInv, TMProofs!TMInv, TMProofs!TMTypeOK
  <2>2. knows' \in [Robot -> Task \cup {None}]
    BY <1>1, <1>10, <2>1 DEF HearState, TopicsOK
  <2>3. QED
    BY <1>1, <1>10, <2>2 DEF HearState, TopicsOK, orders
<1>11. ASSUME NEW r \in Robot, Announce(r) \/ ReceiveRegistration(r) PROVE TopicsOK'
  <2>1. knows[r] \in Task \cup {None}
    BY <1>1 DEF TopicsOK
  <2>2. PICK known \in SUBSET (Task \cup {None}) :
          announced' = [announced EXCEPT ![r] = known]
    <3>1. {knows[r]} \in SUBSET (Task \cup {None}) /\ {} \in SUBSET (Task \cup {None})
      BY <2>1
    <3>2. \/ announced' = [announced EXCEPT ![r] = {knows[r]}]
          \/ announced' = [announced EXCEPT ![r] = {}]
      BY <1>11 DEF Announce, ReceiveRegistration
    <3>3. QED
      BY ONLY <3>1, <3>2
  <2>3. announced' \in [Robot -> SUBSET (Task \cup {None})]
    BY <1>1, <2>2 DEF TopicsOK
  <2>4. UNCHANGED <<knows, assignments, cancels>>
    BY <1>11 DEF Announce, ReceiveRegistration, orders
  <2>5. QED
    BY <1>1, <2>3, <2>4 DEF TopicsOK
<1>12. CASE UNCHANGED sysVars
  BY <1>2, <1>12 DEF sysVars
<1>13. QED
  BY <1>3, <1>4, <1>5, <1>6, <1>7, <1>8, <1>9, <1>10, <1>11, <1>12 DEF SysNext

LEMMA SysParts ==
  ASSUME SysInv, [SysNext]_sysVars
  PROVE  [Next]_vars /\ [TMProofs!TMNext]_(TMProofs!tmVars)
<1>1. CASE SysNext
  BY <1>1, FleetPart, ManagerPart DEF SysInv
<1>2. CASE UNCHANGED sysVars
  BY <1>2 DEF sysVars, managers, TMProofs!tmVars
<1>3. QED
  BY <1>1, <1>2

LEMMA SysNextInv == SysInv /\ [SysNext]_sysVars => SysInv'
<1> SUFFICES ASSUME SysInv, [SysNext]_sysVars PROVE SysInv'
  OBVIOUS
<1>1. [Next]_vars /\ [TMProofs!TMNext]_(TMProofs!tmVars)
  BY SysParts
<1>2. IInv'
  BY <1>1, NextInv DEF SysInv
<1>3. TMProofs!TMInv'
  BY <1>1, ManagerAssumption, TMProofs!TMNextInv DEF SysInv
<1>4. TopicsOK'
  BY <1>2, TopicsStep DEF IInv
<1>5. QED
  BY <1>2, <1>3, <1>4 DEF SysInv

-----------------------------------------------------------------------------
(* SysInv holds in every reachable state of the system.                    *)
THEOREM SysInvariant == SysSpec => []SysInv
BY SysInitInv, SysNextInv, PTL DEF SysSpec

(* The system implements the fleet manager: whatever the topics delay and  *)
(* the robots do, _registration_callback and the others run as they do     *)
(* against arbitrary messages.                                             *)
THEOREM ImplementsFleet == SysSpec => Spec
<1>1. SysInit => Init
  BY DEF SysInit
<1>2. SysInv /\ [SysNext]_sysVars => [Next]_vars
  BY SysParts
<1>3. QED
  BY <1>1, <1>2, SysInvariant, PTL DEF SysSpec, Spec

(* And it implements the task managers, one of which runs on every robot:  *)
(* every assignment and cancel that reaches _assignment_callback and       *)
(* _cancel_task_callback is of a task.                                     *)
THEOREM ImplementsManagers == SysSpec => TMProofs!TMSpec
<1>1. SysInit => TMProofs!TMInit
  BY SameStart DEF SysInit
<1>2. SysInv /\ [SysNext]_sysVars => [TMProofs!TMNext]_(TMProofs!tmVars)
  BY SysParts
<1>3. QED
  BY <1>1, <1>2, SysInvariant, PTL DEF SysSpec, TMProofs!TMSpec

(* In the system too no two robots hold cells of each other, no accepted   *)
(* task is lost, and _cell_owners agrees with _reservations.               *)
THEOREM SystemIsSafe ==
  SysSpec => []ExclusiveSegments /\ []NoTaskLost /\ []OwnersMatchReservations
BY ImplementsFleet, Exclusive, TasksKept, OwnersAgree, PTL

(* In the system too a reservation ends only for one of the three reasons, *)
(* and a robot is given no second one before that.                         *)
THEOREM SystemReservations ==
  SysSpec => ReservationsEndForAReason /\ ReservationsAreKept
BY ImplementsFleet, EndsForReason, ReservationsKept, PTL


-----------------------------------------------------------------------------
(* What the topics and the nodes know of a robot's task.                   *)

Exec(r) == TMProofs!Executed(r)

NoneWaits(r) == \A i \in 1..Len(tasks[r]) : tasks[r][i].status # "WAITING"

(* A robot without a reservation has no task, in whatever place one could  *)
(* be known.                                                               *)
HasNothing(r) ==
  /\ assignments[r] = <<>> /\ Exec(r) = None
  /\ told[r].active = None /\ knows[r] = None /\ announced[r] \subseteq {None}

(* A robot that t is reserved for has no other.  The assignment comes      *)
(* before the state, the state before the registration; and once the fleet *)
(* manager has seen that t is executed, a None that follows behind means   *)
(* that it is over in all the places before.                               *)
Follows(r, t, activated) ==
  /\ {Exec(r), told[r].active, knows[r]} \subseteq {None, t}
  /\ announced[r] \subseteq {None, t}
  /\ assignments[r] \in {<<>>, <<t>>}
  /\ assignments[r] = <<t>> =>
       /\ ~activated /\ Exec(r) = None
       /\ told[r].active = None /\ knows[r] = None /\ announced[r] \subseteq {None}
  /\ activated /\ None \in announced[r] => knows[r] = None
  /\ (activated \/ t \in announced[r]) /\ knows[r] = None => told[r].active = None
  /\ (activated \/ t \in announced[r] \/ knows[r] = t) /\ told[r].active = None => Exec(r) = None

Chain(r) ==
  /\ NoneWaits(r)
  /\ ~Holds(r) => HasNothing(r)
  /\ Holds(r) => Follows(r, reservations[r].task, reservations[r].activated)

(* Whose work has never been taken back.                                   *)
LeftAlone(r) == \A loop \in {"heartbeats", "battery"} : <<r, loop>> \notin taken

Chains == \A r \in Robot : LeftAlone(r) => Chain(r)

LEMMA SysInvParts ==
  ASSUME SysInv
  PROVE  /\ IInv /\ TypeOK /\ TMProofs!TMInv /\ TMProofs!TMTypeOK /\ TopicsOK
         /\ \A r \in Robot : Holds(r) => reservations[r].task \in Task /\ reservations[r].task # None
         /\ None \notin Task
BY NoneAssumption, HoldsFields DEF SysInv, IInv, TMProofs!TMInv

LEMMA ExecType ==
  ASSUME SysInv, NEW r \in Robot
  PROVE  /\ Exec(r) \in Task \cup {None}
         /\ Exec(r) = None <=> active[r] = 0
         /\ active[r] # 0 => Exec(r) = tasks[r][active[r]].id
<1>1. CASE active[r] = 0
  BY <1>1 DEF Exec, TMProofs!Executed
<1>2. CASE active[r] # 0
  <2>1. tasks[r][active[r]].id \in Task
    BY <1>2, ManagerAssumption, TMProofs!ActiveEntry DEF SysInv
  <2> QED
    BY <1>2, <2>1, NoneAssumption DEF Exec, TMProofs!Executed
<1> QED
  BY <1>1, <1>2

LEMMA NoneWaitsIff ==
  ASSUME NEW r
  PROVE  NoneWaits(r) <=> TMProofs!Waiting(tasks[r]) = {}
BY DEF NoneWaits, TMProofs!Waiting

(* Steps that leave r's nodes and topics alone.                            *)
SameNodes(r) ==
  /\ tasks'[r] = tasks[r] /\ active'[r] = active[r] /\ told'[r] = told[r]
SameTopics(r) ==
  knows'[r] = knows[r] /\ announced'[r] = announced[r] /\ assignments'[r] = assignments[r]

LEMMA SameExec ==
  ASSUME NEW r, SameNodes(r)
  PROVE  Exec(r)' = Exec(r) /\ NoneWaits(r)' = NoneWaits(r)
BY DEF SameNodes, Exec, TMProofs!Executed, NoneWaits

LEMMA SameChain ==
  ASSUME NEW r, Chain(r), SameNodes(r), SameTopics(r),
         Holds(r)' <=> Holds(r),
         Holds(r) => /\ reservations'[r].task = reservations[r].task
                     /\ reservations'[r].activated = reservations[r].activated
  PROVE  Chain(r)'
BY SameExec DEF Chain, HasNothing, Follows, SameNodes, SameTopics

LEMMA AppendFirst ==
  ASSUME NEW S, NEW t \in S
  PROVE  Append(<<>>, t) = <<t>>
<1>1. <<>> \in Seq(S) /\ Len(<<>>) = 0
  OBVIOUS
<1>2. ASSUME NEW s \in Seq(S)
      PROVE  /\ Append(s, t) \in Seq(S) /\ Len(Append(s, t)) = Len(s) + 1
             /\ Append(s, t)[Len(s) + 1] = t
  BY AppendProperties
<1>3. <<t>> \in Seq(S) /\ Len(<<t>>) = 1 /\ <<t>>[1] = t
  OBVIOUS
<1>4. /\ Append(<<>>, t) \in Seq(S) /\ Len(Append(<<>>, t)) = 1
      /\ Append(<<>>, t)[1] = t
  BY <1>1, <1>2
<1> QED
  BY <1>3, <1>4, SeqEqual

(* A new reservation starts a chain.                                       *)
LEMMA NewChain ==
  ASSUME SysInv, SysInv', NEW r \in Robot, Chain(r), SameNodes(r),
         knows'[r] = knows[r], announced'[r] = announced[r],
         ~Holds(r), Holds(r)', ~reservations'[r].activated,
         assignments'[r] = Append(assignments[r], reservations'[r].task)
  PROVE  Chain(r)'
<1> DEFINE t == reservations'[r].task
<1>1. HasNothing(r) /\ NoneWaits(r)
  BY DEF Chain
<1>2. reservations'[r] \in Reservation
  BY DEF SysInv, IInv, TypeOK, Holds
<1>3. t \in Task /\ t # None
  <2>1. t \in Task
    BY ONLY <1>2 DEF Reservation
  <2> QED
    BY <2>1, NoneAssumption
<1>4. assignments'[r] = <<t>>
  BY <1>1, <1>3, AppendFirst DEF HasNothing
<1>5. /\ Exec(r)' = None /\ told'[r].active = None
      /\ knows'[r] = None /\ announced'[r] \subseteq {None} /\ NoneWaits(r)'
  BY <1>1, SameExec DEF HasNothing, SameNodes
<1>6. Follows(r, reservations[r].task, reservations[r].activated)'
  BY <1>3, <1>4, <1>5 DEF Follows
<1> QED
  BY <1>5, <1>6 DEF Chain

(* The steps of the fleet manager that end none of its reservations.       *)
LEMMA FleetChain ==
  ASSUME SysInv, SysInv', NEW r \in Robot, Chain(r), UNCHANGED <<managers, beacons>>, Publish,
         Steady(r), Holds(r) => Holds(r)'
  PROVE  Chain(r)'
<1>1. SameNodes(r) /\ knows'[r] = knows[r] /\ announced'[r] = announced[r]
  BY DEF SameNodes, managers, beacons
<1>2. assignments'[r] = IF Assigned(r) THEN Append(assignments[r], reservations'[r].task)
                        ELSE assignments[r]
  BY ONLY r \in Robot, Publish DEF Publish, Assigned, Holds
<1>3. CASE ~Holds(r) /\ Holds(r)'
  BY <1>1, <1>2, <1>3, NewChain DEF Assigned, Steady
<1>4. CASE Holds(r)' <=> Holds(r)
  BY <1>1, <1>2, <1>4, SameChain DEF Assigned, Steady, SameTopics
<1> QED
  BY <1>3, <1>4

(* Where a robot's reservation is taken, its work is.                      *)
LEMMA EndsTakenBack ==
  ASSUME IInv, Callback, NEW r \in Robot, Holds(r), ~Holds(r)'
  PROVE  r \in TakenBack
<1>1. RecoverRobot(r) \/ ReleaseForCharging(r)
  BY CallbackSteady
<1>2. pc \in {"heartbeats", "battery"} /\ recovered = <<>> /\ TakeWork(r)
  BY <1>1 DEF RecoverRobot, ReleaseForCharging
<1>3. queues'[r] = <<>>
  BY <1>2 DEF TakeWork, IInv, TypeOK
<1>4. WorkOf(r)' = <<>>
  <2>1. WorkOf(r)' = (IF Holds(r)' THEN <<reservations'[r].task>> ELSE <<>>) \o queues'[r]
    BY DEF WorkOf, Holds
  <2> QED
    BY <1>3, <2>1
<1>5. Contains(WorkOf(r), reservations[r].task)
  BY WorkOfElements DEF IInv
<1>6. WorkOf(r) # <<>>
  BY <1>5, NothingTwice
<1> QED
  BY <1>2, <1>4, <1>6 DEF TakenBack

LEMMA CallbackChain ==
  ASSUME SysInv, SysInv', NEW r \in Robot, Chain(r), FleetCallback, LeftAlone(r)'
  PROVE  Chain(r)'
<1>1. pc \in {"heartbeats", "battery"} => r \notin TakenBack
  <2>1. taken' = taken \cup {<<s, pc>> : s \in TakenBack}
    BY DEF FleetCallback
  <2> QED
    BY <2>1 DEF LeftAlone
<1>2. r \in TakenBack => pc \in {"heartbeats", "battery"}
  BY DEF TakenBack
<1>3. Holds(r) => Holds(r)'
  BY <1>1, <1>2, EndsTakenBack DEF FleetCallback, SysInv
<1>4. Steady(r)
  BY CallbackSteady DEF FleetCallback, SysInv
<1> QED
  BY <1>3, <1>4, FleetChain DEF FleetCallback

(* The task manager of r takes a task over, drops it, or works on it.      *)
LEMMA AssignmentArrives ==
  ASSUME SysInv, NEW r \in Robot, Chain(r), ReceiveAssignment(r)
  PROVE  LET t == reservations[r].task
         IN  /\ Holds(r) /\ t \in Task /\ t # None
             /\ assignments[r] = <<t>> /\ ~reservations[r].activated /\ Exec(r) = None
             /\ told[r].active = None /\ knows[r] = None /\ announced[r] \subseteq {None}
             /\ UNCHANGED <<vars, beacons, told>> /\ assignments'[r] = <<>>
             /\ Exec(r)' = t /\ NoneWaits(r)'
<1> DEFINE t == reservations[r].task
<1>1. assignments[r] # <<>> /\ UNCHANGED <<vars, beacons>>
  BY DEF ReceiveAssignment
<1>2. Holds(r) /\ Follows(r, t, reservations[r].activated)
  BY <1>1 DEF Chain, HasNothing
<1>3. t \in Task /\ t # None
  BY <1>2, SysInvParts
<1>4. /\ assignments[r] = <<t>> /\ ~reservations[r].activated /\ Exec(r) = None
      /\ told[r].active = None /\ knows[r] = None /\ announced[r] \subseteq {None}
  BY <1>1, <1>2 DEF Follows
<1>5. Head(assignments[r]) = t /\ assignments'[r] = <<>>
  <2>1. Head(<<t>>) = t /\ Tail(<<t>>) = <<>>
    OBVIOUS
  <2>2. assignments'[r] = Tail(assignments[r])
    BY DEF ReceiveAssignment, SysInv, TopicsOK
  <2> QED
    BY <1>4, <2>1, <2>2
<1>6. TMProofs!Assign(r, t)
  BY <1>5, SameAssign DEF ReceiveAssignment
<1>7. active[r] = 0
  BY <1>4, ExecType
<1>8. TMProofs!Waiting(tasks[r]) = {}
  BY NoneWaitsIff DEF Chain
<1>9. /\ UNCHANGED told
      /\ TMProofs!Waiting(tasks'[r]) = {} /\ Exec(r)' = t
  BY <1>3, <1>6, <1>7, <1>8, ManagerAssumption, TMProofs!AssignEffect DEF SysInv, Exec
<1>10. NoneWaits(r)'
  BY <1>9 DEF NoneWaits, TMProofs!Waiting
<1> QED
  BY <1>1, <1>2, <1>3, <1>4, <1>5, <1>9, <1>10

LEMMA AssignmentChain ==
  ASSUME SysInv, NEW r \in Robot, Chain(r), ReceiveAssignment(r)
  PROVE  Chain(r)'
<1> DEFINE t == reservations[r].task
<1>1. /\ Holds(r) /\ t # None /\ ~reservations[r].activated
      /\ told[r].active = None /\ knows[r] = None /\ announced[r] \subseteq {None}
      /\ UNCHANGED <<vars, beacons, told>> /\ assignments'[r] = <<>>
      /\ Exec(r)' = t /\ NoneWaits(r)'
  BY AssignmentArrives
<1>2. Holds(r)' /\ reservations' = reservations /\ UNCHANGED <<knows, announced>>
  BY <1>1 DEF vars, traffic, beacons, Holds
<1>3. Follows(r, t, reservations[r].activated)'
  BY <1>1, <1>2 DEF Follows
<1> QED
  BY <1>1, <1>2, <1>3 DEF Chain

LEMMA CancelEnds ==
  ASSUME SysInv, NEW r \in Robot, NoneWaits(r), ReceiveCancel(r)
  PROVE  /\ UNCHANGED <<vars, beacons, assignments, told>>
         /\ NoneWaits(r)' /\ Exec(r)' \in {None, Exec(r)}
<1>1. /\ cancels[r] # <<>> /\ cancels[r] \in Seq(Task)
      /\ TM!Cancel(r, Head(cancels[r])) /\ UNCHANGED <<vars, beacons, assignments>>
  BY DEF ReceiveCancel, SysInv, TopicsOK
<1>2. Head(cancels[r]) \in Task /\ TMProofs!Cancel(r, Head(cancels[r]))
  BY <1>1, SameCancel
<1>3. TMProofs!Waiting(tasks[r]) = {}
  BY NoneWaitsIff
<1>4. /\ UNCHANGED told
      /\ TMProofs!Waiting(tasks'[r]) = {} /\ Exec(r)' \in {None, Exec(r)}
  BY <1>2, <1>3, ManagerAssumption, TMProofs!CancelEffect DEF SysInv, Exec
<1> QED
  BY <1>1, <1>4 DEF NoneWaits, TMProofs!Waiting

LEMMA CancelChain ==
  ASSUME SysInv, NEW r \in Robot, Chain(r), ReceiveCancel(r)
  PROVE  Chain(r)'
<1>1. /\ UNCHANGED <<vars, beacons, assignments, told>>
      /\ NoneWaits(r)' /\ Exec(r)' \in {None, Exec(r)}
  BY CancelEnds DEF Chain
<1>2. /\ Holds(r)' <=> Holds(r)
      /\ UNCHANGED <<reservations, knows, announced, assignments>>
  BY <1>1 DEF vars, traffic, beacons, Holds
<1>3. HasNothing(r) => HasNothing(r)'
  BY <1>1, <1>2 DEF HasNothing
<1>4. Holds(r) => Follows(r, reservations[r].task, reservations[r].activated)'
  BY <1>1, <1>2 DEF Chain, Follows
<1> QED
  BY <1>1, <1>2, <1>3, <1>4 DEF Chain

LEMMA WorkEnds ==
  ASSUME SysInv, NEW r \in Robot, NoneWaits(r), Work(r)
  PROVE  /\ UNCHANGED <<vars, beacons, orders>> /\ told'[r].active = Exec(r)
         /\ NoneWaits(r)' /\ Exec(r)' \in {None, Exec(r)}
<1>1. TMProofs!ControlLoop(r) /\ UNCHANGED <<vars, beacons, orders>>
  BY SameControlLoop DEF Work
<1>2. TMProofs!Waiting(tasks[r]) = {}
  BY NoneWaitsIff
<1>3. /\ told'[r].active = Exec(r)
      /\ TMProofs!Waiting(tasks'[r]) = {} /\ Exec(r)' \in {None, Exec(r)}
  BY <1>1, <1>2, ManagerAssumption, TMProofs!ControlLoopEffect DEF SysInv, Exec
<1> QED
  BY <1>1, <1>3 DEF NoneWaits, TMProofs!Waiting

LEMMA WorkChain ==
  ASSUME SysInv, NEW r \in Robot, Chain(r), Work(r)
  PROVE  Chain(r)'
<1>1. /\ UNCHANGED <<vars, beacons, orders>> /\ told'[r].active = Exec(r)
      /\ NoneWaits(r)' /\ Exec(r)' \in {None, Exec(r)}
  BY WorkEnds DEF Chain
<1>2. /\ Holds(r)' <=> Holds(r)
      /\ UNCHANGED <<reservations, knows, announced, assignments>>
  BY <1>1 DEF vars, traffic, beacons, orders, Holds
<1>3. HasNothing(r) => HasNothing(r)'
  BY <1>1, <1>2 DEF HasNothing
<1>4. Holds(r) => Follows(r, reservations[r].task, reservations[r].activated)'
  BY <1>1, <1>2 DEF Chain, Follows
<1> QED
  BY <1>1, <1>2, <1>3, <1>4 DEF Chain

(* The beacon of r hears of a task, and announces it.                      *)
LEMMA BeaconChain ==
  ASSUME SysInv, NEW r \in Robot, Chain(r), HearState(r) \/ Announce(r)
  PROVE  Chain(r)'
<1>1. /\ SameNodes(r) /\ UNCHANGED <<reservations, assignments>>
      /\ Holds(r)' <=> Holds(r)
  BY DEF HearState, Announce, SameNodes, managers, orders, vars, traffic, Holds
<1>2. \/ knows'[r] = told[r].active /\ announced'[r] = announced[r]
      \/ knows'[r] = knows[r] /\ announced[r] = {} /\ announced'[r] = {knows[r]}
  BY DEF HearState, Announce, SysInv, TopicsOK
<1>3. Exec(r)' = Exec(r) /\ (NoneWaits(r) => NoneWaits(r)') /\ told'[r] = told[r]
  BY <1>1, SameExec DEF SameNodes
<1>4. HasNothing(r) => HasNothing(r)'
  BY <1>1, <1>2, <1>3 DEF HasNothing
<1>5. ASSUME Holds(r)
      PROVE  Follows(r, reservations[r].task, reservations[r].activated)'
  <2> DEFINE t == reservations[r].task
  <2>1. t # None /\ Follows(r, t, reservations[r].activated)
    BY <1>5, SysInvParts DEF Chain
  <2>2. CASE knows'[r] = told[r].active /\ announced'[r] = announced[r]
    BY <1>1, <1>3, <2>1, <2>2 DEF Follows
  <2>3. CASE knows'[r] = knows[r] /\ announced[r] = {} /\ announced'[r] = {knows[r]}
    BY <1>1, <1>3, <2>1, <2>3 DEF Follows
  <2> QED
    BY <1>2, <2>2, <2>3
<1> QED
  BY <1>1, <1>3, <1>4, <1>5 DEF Chain

LEMMA RegistrationChain ==
  ASSUME SysInv, NEW r \in Robot, Chain(r), ReceiveRegistration(r)
  PROVE  Chain(r)'
<1>1. PICK t \in announced[r], report \in Reports : Register(r, report, t)
  BY DEF ReceiveRegistration
<1>2. /\ SameNodes(r) /\ knows'[r] = knows[r] /\ assignments'[r] = assignments[r]
      /\ announced'[r] = {}
  BY DEF ReceiveRegistration, SameNodes, managers, orders, SysInv, TopicsOK
<1>3. Exec(r)' = Exec(r) /\ (NoneWaits(r) => NoneWaits(r)') /\ told'[r] = told[r]
  BY <1>2, SameExec DEF SameNodes
<1>4. CASE /\ Holds(r) /\ reservations[r].task = t
           /\ Holds(r)' /\ reservations'[r].task = t /\ reservations'[r].activated
  <2>1. t # None /\ Follows(r, t, reservations[r].activated)
    BY <1>4, SysInvParts DEF Chain
  <2>2. Follows(r, t, TRUE)'
    BY <1>1, <1>2, <1>3, <2>1 DEF Follows
  <2>3. Follows(r, reservations[r].task, reservations[r].activated)'
    BY <1>4, <2>2 DEF Follows
  <2> QED
    BY <1>3, <1>4, <2>3 DEF Chain
<1>5. CASE Holds(r) /\ t = None /\ reservations[r].activated /\ ~Holds(r)'
  <2>1. Follows(r, reservations[r].task, reservations[r].activated)
    BY <1>5 DEF Chain
  <2>2. HasNothing(r)'
    BY <1>1, <1>2, <1>3, <1>5, <2>1 DEF Follows, HasNothing
  <2> QED
    BY <1>3, <1>5, <2>2 DEF Chain
<1>6. CASE reservations'[r] = reservations[r]
  <2>1. Holds(r)' <=> Holds(r)
    BY <1>6 DEF Holds
  <2>2. HasNothing(r) => HasNothing(r)'
    BY <1>2, <1>3 DEF HasNothing
  <2>3. Holds(r) => Follows(r, reservations[r].task, reservations[r].activated)'
    BY <1>2, <1>3, <1>6 DEF Chain, Follows
  <2> QED
    BY <1>3, <2>1, <2>2, <2>3 DEF Chain
<1> QED
  BY <1>1, <1>4, <1>5, <1>6, RegisterReservation DEF SysInv, IInv

(* What a robot does leaves the others as they are.                        *)
LEMMA OthersUntouched ==
  ASSUME SysInv, NEW r \in Robot, NEW s \in Robot, s # r,
         \/ ReceiveAssignment(s) \/ ReceiveCancel(s) \/ Work(s)
         \/ HearState(s) \/ Announce(s) \/ ReceiveRegistration(s)
  PROVE  SameNodes(r) /\ SameTopics(r) /\ reservations'[r] = reservations[r]
<1>1. TMProofs!TMTypeOK /\ TMProofs!TMInv /\ TopicsOK /\ TypeOK
  BY SysInvParts
<1>2. SameTopics(r)
  BY <1>1 DEF ReceiveAssignment, ReceiveCancel, Work, HearState, Announce, ReceiveRegistration,
              SameTopics, TopicsOK, beacons, orders
<1>3. reservations'[r] = reservations[r]
  <2>1. CASE ReceiveRegistration(s)
    BY <1>1, <2>1, RegisterReservation DEF ReceiveRegistration
  <2> QED
    BY <2>1 DEF ReceiveAssignment, ReceiveCancel, Work, HearState, Announce, vars, traffic
<1>4. SameNodes(r)
  <2>1. ASSUME ReceiveAssignment(s) PROVE SameNodes(r)
    <3>1. TM!Assign(s, Head(assignments[s])) /\ assignments[s] # <<>> /\ assignments[s] \in Seq(Task)
      BY <1>1, <2>1 DEF ReceiveAssignment, TopicsOK
    <3>2. TMProofs!Assign(s, Head(assignments[s])) /\ Head(assignments[s]) \in Task
      BY <3>1, SameAssign
    <3> QED
      BY <1>1, <3>2, ManagerAssumption, TMProofs!AssignEffect DEF SameNodes, TMProofs!OthersAlone
  <2>2. ASSUME ReceiveCancel(s) PROVE SameNodes(r)
    <3>1. TM!Cancel(s, Head(cancels[s])) /\ cancels[s] # <<>> /\ cancels[s] \in Seq(Task)
      BY <1>1, <2>2 DEF ReceiveCancel, TopicsOK
    <3>2. TMProofs!Cancel(s, Head(cancels[s])) /\ Head(cancels[s]) \in Task
      BY <3>1, SameCancel
    <3> QED
      BY <1>1, <3>2, ManagerAssumption, TMProofs!CancelEffect DEF SameNodes, TMProofs!OthersAlone
  <2>3. ASSUME Work(s) PROVE SameNodes(r)
    <3>1. TMProofs!ControlLoop(s)
      BY <2>3, SameControlLoop DEF Work
    <3> QED
      BY <1>1, <3>1, ManagerAssumption, TMProofs!ControlLoopEffect
         DEF SameNodes, TMProofs!OthersAlone
  <2> QED
    BY <2>1, <2>2, <2>3 DEF HearState, Announce, ReceiveRegistration, SameNodes, managers
<1> QED
  BY <1>2, <1>3, <1>4

LEMMA OtherChain ==
  ASSUME SysInv, NEW r \in Robot, NEW s \in Robot, s # r, Chain(r),
         \/ ReceiveAssignment(s) \/ ReceiveCancel(s) \/ Work(s)
         \/ HearState(s) \/ Announce(s) \/ ReceiveRegistration(s)
  PROVE  Chain(r)'
BY OthersUntouched, SameChain DEF Holds

LEMMA ChainNext ==
  ASSUME SysInv, SysInv', NEW r \in Robot, Chain(r), LeftAlone(r)', [SysNext]_sysVars
  PROVE  Chain(r)'
<1>1. ASSUME UNCHANGED <<managers, beacons, assignments, reservations>>
      PROVE  Chain(r)'
  BY <1>1, SameChain DEF SameNodes, SameTopics, managers, beacons, Holds
<1>2. CASE FleetTick
  <2>1. Steady(r) /\ Holds(r)' = Holds(r)
    BY <1>2, SameSteady DEF FleetTick, Tick, traffic, Holds
  <2> QED
    BY <1>2, <2>1, FleetChain DEF FleetTick
<1>3. CASE FleetCallback
  BY <1>3, CallbackChain
<1>4. ASSUME NEW t \in Task, Submit(t) PROVE Chain(r)'
  BY <1>4, AddTaskSteady, FleetChain DEF Submit, SysInv
<1>5. ASSUME NEW t \in Task, OperatorCancel(t) PROVE Chain(r)'
  BY <1>1, <1>5 DEF OperatorCancel, vars, traffic
<1>6. ASSUME NEW s \in Failing, FallSilent(s) \/ Resume(s) PROVE Chain(r)'
  BY <1>1, <1>6 DEF FallSilent, Resume, Silence, Heartbeat, orders, traffic
<1>7. ASSUME NEW s \in Robot,
             \/ ReceiveAssignment(s) \/ ReceiveCancel(s) \/ Work(s)
             \/ HearState(s) \/ Announce(s) \/ ReceiveRegistration(s)
      PROVE  Chain(r)'
  <2>1. CASE s = r
    BY <1>7, <2>1, AssignmentChain, CancelChain, WorkChain, BeaconChain, RegistrationChain
  <2>2. CASE s # r
    BY <1>7, <2>2, OtherChain
  <2> QED
    BY <2>1, <2>2
<1>8. CASE UNCHANGED sysVars
  BY <1>1, <1>8 DEF sysVars, vars, traffic, orders
<1> QED
  BY <1>2, <1>3, <1>4, <1>5, <1>6, <1>7, <1>8 DEF SysNext

LEMMA TakenGrows ==
  ASSUME [SysNext]_sysVars
  PROVE  taken \subseteq taken'
BY DEF SysNext, FleetTick, FleetCallback, Submit, OperatorCancel, FallSilent, Resume,
       ReceiveAssignment, ReceiveCancel, Work, HearState, Announce, ReceiveRegistration,
       history, sysVars

LEMMA ChainsInvariant == SysSpec => []Chains
<1>1. SysInit => Chains
  <2> SUFFICES ASSUME SysInit, NEW r \in Robot PROVE Chain(r)
    BY DEF Chains
  <2>1. ~Holds(r) /\ HasNothing(r) /\ NoneWaits(r)
    BY DEF SysInit, Init, TM!TMInit, Holds, HasNothing, Exec, TMProofs!Executed, NoneWaits
  <2> QED
    BY <2>1 DEF Chain
<1>2. SysInv /\ SysInv' /\ Chains /\ [SysNext]_sysVars => Chains'
  <2> SUFFICES ASSUME SysInv, SysInv', Chains, [SysNext]_sysVars,
                      NEW r \in Robot, LeftAlone(r)'
               PROVE  Chain(r)'
    BY DEF Chains
  <2>1. LeftAlone(r)
    BY TakenGrows DEF LeftAlone
  <2> QED
    BY <2>1, ChainNext DEF Chains
<1> QED
  BY <1>1, <1>2, SysInvariant, PTL DEF SysSpec

(* A task manager whose robot's work was never taken back has at most one  *)
(* task to order, those on their way to it included: the fleet manager     *)
(* keeps the others (_try_dispatch, _enqueue_task).                        *)
THEOREM OneTaskEach == SysSpec => []OneTaskPerManager
<1>1. SysInv /\ Chains => OneTaskPerManager
  <2> SUFFICES ASSUME SysInv, NEW r \in Robot, Chain(r)
               PROVE  Cardinality(Unfinished(r)) + Len(assignments[r]) <= 1
    BY DEF Chains, LeftAlone, OneTaskPerManager
  <2>1. Len(assignments[r]) = 0 \/ (Len(assignments[r]) = 1 /\ active[r] = 0)
    BY ExecType DEF Chain, HasNothing, Follows
  <2>2. CASE active[r] = 0
    <3>1. Unfinished(r) = {}
      <4>1. \A i \in 1..Len(tasks[r]) : tasks[r][i].status \notin {"WAITING", "ACTIVE"}
        BY <2>2 DEF Chain, NoneWaits, SysInv, TMProofs!TMInv, TMProofs!ActiveIsActive
      <4>2. ASSUME NEW i \in 1..Len(tasks[r]) PROVE tasks[r][i] \in TMProofs!TaskEntry
        BY SysInvParts DEF TMProofs!TMTypeOK
      <4> QED
        BY <4>1, <4>2 DEF Unfinished, TMProofs!TaskEntry
    <3>2. Cardinality({}) = 0
      BY FS_EmptySet
    <3>3. Cardinality(Unfinished(r)) = 0
      BY <3>1, <3>2
    <3>4. \A m, n : m = 0 /\ (n = 0 \/ n = 1) => m + n <= 1
      OBVIOUS
    <3> QED
      BY <2>1, <3>3, <3>4, Zenon
  <2>3. CASE active[r] # 0
    <3>1. Unfinished(r) = {active[r]}
      <4>1. \A i \in 1..Len(tasks[r]) : tasks[r][i].status = "ACTIVE" <=> i = active[r]
        BY <2>3 DEF SysInv, TMProofs!TMInv, TMProofs!ActiveIsActive
      <4>2. ASSUME NEW i \in 1..Len(tasks[r]) PROVE tasks[r][i] \in TMProofs!TaskEntry
        BY SysInvParts DEF TMProofs!TMTypeOK
      <4>3. active[r] \in 1..Len(tasks[r])
        BY <2>3, ManagerAssumption, TMProofs!ActiveEntry DEF SysInv
      <4> QED
        BY <4>1, <4>2, <4>3 DEF Unfinished, TMProofs!TaskEntry, Chain, NoneWaits
    <3>2. Cardinality(Unfinished(r)) = 1
      BY <3>1, FS_Singleton
    <3> QED
      BY <2>1, <2>3, <3>2
  <2> QED
    BY <2>2, <2>3
<1> QED
  BY <1>1, ChainsInvariant, SysInvariant, PTL

-----------------------------------------------------------------------------
(* As long as nothing was taken back nothing has to be requeued, and every *)
(* task is in one place.                                                   *)
Undisturbed == taken = {} => recovered = <<>> /\ SinglePlace

LEMMA WorkTaken ==
  ASSUME TypeOK, NEW r \in Robot, TakeWork(r)
  PROVE  WorkOf(r)' = <<>>
<1>1. queues'[r] = <<>> /\ ~Holds(r)'
  BY DEF TakeWork, Release, TypeOK, traffic, Holds
<1>2. WorkOf(r)' = (IF Holds(r)' THEN <<reservations'[r].task>> ELSE <<>>) \o queues'[r]
  BY DEF WorkOf, Holds
<1> QED
  BY <1>1, <1>2

LEMMA NothingRequeued ==
  ASSUME SysInv, [SysNext]_sysVars, recovered = <<>>, taken' = {}
  PROVE  recovered' = <<>>
<1>1. CASE UNCHANGED recovered
  BY <1>1
<1>2. CASE FleetCallback
  <2>1. taken' = taken \cup {<<s, pc>> : s \in TakenBack} /\ Callback
    BY <1>2 DEF FleetCallback
  <2>2. TakenBack = {}
    BY <2>1
  <2>3. ASSUME NEW r \in Robot, RecoverRobot(r) \/ ReleaseForCharging(r)
        PROVE  recovered' = <<>>
    <3>1. pc \in {"heartbeats", "battery"} /\ TakeWork(r)
      BY <2>3 DEF RecoverRobot, ReleaseForCharging
    <3>2. WorkOf(r)' = <<>>
      BY <3>1, WorkTaken DEF SysInv, IInv
    <3>3. WorkOf(r)' = WorkOf(r)
      BY <2>2, <3>1 DEF TakenBack
    <3> QED
      BY <3>1, <3>2, <3>3 DEF TakeWork
  <2> QED
    BY <1>1, <2>1, <2>3 DEF Callback, HeartbeatsDone, Requeue, BatteryDone, CheckTraffic,
       TrafficDone, Dispatch, Steal, DispatchDone, PlaceWaiting, WaitingDone, StealDone
<1>3. ASSUME NEW r \in Robot, ReceiveRegistration(r) PROVE UNCHANGED recovered
  BY <1>3 DEF ReceiveRegistration, Register, control
<1> QED
  BY <1>1, <1>2, <1>3 DEF SysNext, FleetTick, Tick, Submit, AddTask, OperatorCancel, FallSilent,
     Silence, Resume, Heartbeat, ReceiveAssignment, ReceiveCancel, Work, HearState, Announce,
     sysVars, vars, control

LEMMA UndisturbedInvariant == SysSpec => []Undisturbed
<1>1. SysInit /\ SysInv => Undisturbed
  <2> SUFFICES ASSUME SysInit, SysInv PROVE recovered = <<>> /\ SinglePlace
    BY DEF Undisturbed
  <2>1. TypeOK /\ recovered = <<>>
    BY DEF SysInit, Init, SysInv, IInv
  <2>2. Single(queues, waiting)
    BY NothingTwice DEF SysInit, Init, Single, OnceQueued, QueuedApart, ReservedApart, Holds
  <2> QED
    BY <2>1, <2>2, SingleParts
<1>2. SysInv /\ SysInv' /\ Undisturbed /\ [SysNext]_sysVars => Undisturbed'
  <2> SUFFICES ASSUME SysInv, SysInv', Undisturbed, [SysNext]_sysVars, taken' = {}
               PROVE  recovered' = <<>> /\ SinglePlace'
    BY DEF Undisturbed
  <2>1. recovered = <<>> /\ SinglePlace
    BY TakenGrows DEF Undisturbed
  <2>2. recovered' = <<>>
    BY <2>1, NothingRequeued
  <2> QED
    BY <2>1, <2>2, SysParts, StaysSingle DEF SysInv
<1> QED
  BY <1>1, <1>2, SysInvariant, PTL DEF SysSpec

(* As long as no work was taken back, a task is executed by one robot: by  *)
(* the one it is reserved for, and no other holds a reservation of it.     *)
THEOREM ExecutedOnce == SysSpec => []OneExecutor
<1>1. SysInv /\ Chains /\ Undisturbed => OneExecutor
  <2> SUFFICES ASSUME SysInv, Chains, Undisturbed, taken = {},
                      NEW r \in Robot, NEW s \in Robot, NEW t \in Task,
                      Executes(r, t), Executes(s, t)
               PROVE  r = s
    BY DEF OneExecutor
  <2>1. ASSUME NEW x \in Robot, Executes(x, t)
        PROVE  Holds(x) /\ reservations[x].task = t
    <3>1. Chain(x)
      BY DEF Chains, LeftAlone
    <3>2. Exec(x) = t /\ Exec(x) # None
      BY <2>1, ExecType DEF Executes
    <3> QED
      BY <3>1, <3>2 DEF Chain, HasNothing, Follows
  <2>2. Holds(r) /\ Holds(s) /\ reservations[r].task = reservations[s].task
    BY <2>1
  <2>3. ReservedApart(waiting)
    BY SingleParts DEF Undisturbed, SysInv, IInv, Single
  <2> QED
    BY <2>2, <2>3 DEF ReservedApart
<1> QED
  BY <1>1, ChainsInvariant, UndisturbedInvariant, SysInvariant, PTL

-----------------------------------------------------------------------------
(* The life of a task.  What the composition has to know for its mapping   *)
(* to TaskLife, as long as nothing was taken back.                         *)
Known == taken = {} => KnownTasks

LEMMA KnownInvariant == SysSpec => []Known
<1>1. SysInit => Known
  BY DEF SysInit, Init, Known, KnownTasks, TaskExists, Contains, Holds
<1>2. SysInv /\ Undisturbed /\ Undisturbed' /\ Known /\ [SysNext]_sysVars => Known'
  <2> SUFFICES ASSUME SysInv, Undisturbed, Undisturbed', Known, [SysNext]_sysVars, taken' = {}
               PROVE  KnownTasks'
    BY DEF Known
  <2>1. /\ recovered = <<>> /\ SinglePlace /\ recovered' = <<>> /\ KnownTasks
    BY TakenGrows DEF Undisturbed, Known
  <2>2. Single(queues, waiting)
    BY <2>1, SingleParts DEF SysInv, IInv
  <2> QED
    BY <2>1, <2>2, SysParts, KnownNext DEF SysInv
<1> QED
  BY <1>1, <1>2, UndisturbedInvariant, SysInvariant, PTL DEF SysSpec

LifeInv == SysInv /\ Chains /\ Undisturbed /\ Known /\ NoTaskLost

LEMMA ExecutesIff ==
  SysInv => \A r \in Robot, t \in Task : Executes(r, t) <=> Exec(r) = t
BY ExecType, NoneAssumption DEF Executes

(* A task is executed where it is reserved, its assignment having arrived. *)
Arrived(r, t) == Holds(r) /\ reservations[r].task = t /\ assignments[r] = <<>>

LEMMA RunsWhereReserved ==
  ASSUME LifeInv, taken = {}
  PROVE  /\ \A r \in Robot, t \in Task : Exec(r) = t => Arrived(r, t)
         /\ \A r, s \in Robot : Holds(r) /\ Holds(s) /\ reservations[r].task = reservations[s].task
              => r = s
         /\ \A r \in Robot : Holds(r) => reservations[r].task \in accepted
<1>1. ASSUME NEW r \in Robot, NEW t \in Task, Exec(r) = t
      PROVE  Arrived(r, t)
  <2>1. Chain(r) /\ Exec(r) # None
    BY <1>1, NoneAssumption DEF LifeInv, Chains, LeftAlone
  <2>2. Holds(r) /\ Follows(r, reservations[r].task, reservations[r].activated)
    BY <2>1 DEF Chain, HasNothing
  <2> QED
    BY <1>1, <2>1, <2>2 DEF Follows, Arrived
<1>2. ReservedApart(waiting)
  BY SingleParts DEF LifeInv, Undisturbed, SysInv, IInv, Single
<1>3. ASSUME NEW r \in Robot, Holds(r) PROVE reservations[r].task \in accepted
  <2>1. reservations[r].task \in Task
    BY <1>3, SysInvParts DEF LifeInv
  <2> QED
    BY <1>3, <2>1 DEF LifeInv, Known, KnownTasks, TaskExists
<1> QED
  BY <1>1, <1>2, <1>3 DEF ReservedApart

LEMMA OverIff ==
  ASSUME SysInv, NEW t \in Task
  PROVE  Over(t) <=> /\ \E r \in Robot : Arrived(r, t)
                     /\ \A r \in Robot : Exec(r) # t
BY ExecutesIff DEF Over, Arrived

(* What TaskLife sees of the system.                                       *)
Executors == [t \in Task |-> {r \in Robot : Executes(r, t)}]
Ended == {t \in accepted : Over(t)}

Sees ==
  /\ accepted \subseteq Task
  /\ Executors = [t \in Task |-> {r \in Robot : Exec(r) = t}]
  /\ Ended \subseteq Task
  /\ \A t \in Task : t \in Ended <=> /\ t \in accepted
                                     /\ \E r \in Robot : Arrived(r, t)
                                     /\ \A r \in Robot : Exec(r) # t

LEMMA Seen == SysInv => Sees
<1> SUFFICES ASSUME SysInv PROVE Sees
  OBVIOUS
<1>1. accepted \subseteq Task
  BY DEF SysInv, IInv, TypeOK
<1>2. Executors = [t \in Task |-> {r \in Robot : Exec(r) = t}]
  BY ExecutesIff DEF Executors
<1>3. ASSUME NEW t \in Task
      PROVE  t \in Ended <=> /\ t \in accepted
                             /\ \E r \in Robot : Arrived(r, t)
                             /\ \A r \in Robot : Exec(r) # t
  BY OverIff DEF Ended
<1> QED
  BY <1>1, <1>2, <1>3 DEF Sees, Ended

(* A step that starts, ends and counts nothing is none of TaskLife.        *)
LEMMA SameLife ==
  ASSUME SysInv, SysInv', accepted' = accepted,
         \A r \in Robot : Exec(r)' = Exec(r),
         \A r \in Robot, t \in Task : Arrived(r, t)' <=> Arrived(r, t)
  PROVE  accepted' = accepted /\ Executors' = Executors /\ Ended' = Ended
<1>1. Sees /\ Sees'
  BY Seen, PTL
<1>2. Executors' = Executors
  BY <1>1 DEF Sees
<1>3. \A t \in Task : t \in Ended' <=> t \in Ended
  BY <1>1 DEF Sees
<1> QED
  BY <1>1, <1>2, <1>3 DEF Sees

(* A reservation that is made is not one whose assignment has arrived.     *)
LEMMA FleetArrives ==
  ASSUME SysInv, SysInv', NEW r \in Robot, Publish, Steady(r), Holds(r) => Holds(r)',
         NEW t \in Task
  PROVE  Arrived(r, t)' <=> Arrived(r, t)
<1>1. assignments'[r] = IF Assigned(r) THEN Append(assignments[r], reservations'[r].task)
                        ELSE assignments[r]
  BY ONLY r \in Robot, Publish DEF Publish, Assigned, Holds
<1>2. CASE Holds(r)
  BY <1>1, <1>2 DEF Assigned, Steady, Arrived
<1>3. CASE ~Holds(r) /\ Holds(r)'
  <2>1. reservations'[r].task \in Task
    <3>1. reservations'[r] \in Reservation
      BY <1>3 DEF SysInv, IInv, TypeOK, Holds
    <3> QED
      BY ONLY <3>1 DEF Reservation
  <2>2. assignments'[r] # <<>>
    <3>1. assignments[r] \in Seq(Task)
      BY DEF SysInv, TopicsOK
    <3>2. assignments'[r] = Append(assignments[r], reservations'[r].task)
      BY <1>1, <1>3 DEF Assigned
    <3>3. Len(assignments'[r]) = Len(assignments[r]) + 1 /\ Len(assignments[r]) \in Nat
      BY <2>1, <3>1, <3>2
    <3> QED
      BY <3>3
  <2> QED
    BY <1>3, <2>2 DEF Arrived
<1>4. CASE ~Holds(r) /\ ~Holds(r)'
  BY <1>4 DEF Arrived
<1> QED
  BY <1>2, <1>3, <1>4

(* The fleet manager's own callbacks.                                      *)
LEMMA CallbackLife ==
  ASSUME SysInv, SysInv', FleetTick \/ FleetCallback, taken' = {}
  PROVE  accepted' = accepted /\ Executors' = Executors /\ Ended' = Ended
<1>1. UNCHANGED managers /\ Publish
  BY DEF FleetTick, FleetCallback
<1>2. \A r \in Robot : Steady(r) /\ (Holds(r) => Holds(r)')
  <2>1. CASE FleetTick
    BY <2>1, SameSteady DEF FleetTick, Tick, traffic, Holds
  <2>2. CASE FleetCallback
    <3>1. TakenBack = {}
      BY <2>2 DEF FleetCallback
    <3> QED
      BY <2>2, <3>1, CallbackSteady, EndsTakenBack DEF FleetCallback, SysInv
  <2> QED
    BY <2>1, <2>2
<1>3. accepted' = accepted
  BY DEF FleetTick, Tick, FleetCallback, Callback, registry, RecoverRobot, HeartbeatsDone,
     Requeue, ReleaseForCharging, BatteryDone, CheckTraffic, TrafficDone, Dispatch,
     DispatchDone, PlaceWaiting, WaitingDone, Steal, StealDone, Schedule
<1>4. \A r \in Robot : Exec(r)' = Exec(r)
  BY <1>1, SameExec DEF SameNodes, managers
<1> QED
  BY <1>1, <1>2, <1>3, <1>4, FleetArrives, SameLife

LEMMA ChangedAt ==
  ASSUME NEW S, NEW V, NEW f \in [S -> V], NEW g \in [S -> V], NEW t \in S,
         \A u \in S : u # t => g[u] = f[u]
  PROVE  g = [f EXCEPT ![t] = g[t]]
OBVIOUS

LEMMA SubmitLife ==
  ASSUME LifeInv, SysInv', NEW t \in Task, Submit(t)
  PROVE  /\ t \notin accepted /\ accepted' = accepted \cup {t}
         /\ Executors' = Executors /\ Ended' = Ended
<1>1. pc = "idle" /\ ~TaskExists(t) /\ accepted' = accepted \cup {t} /\ Publish /\ UNCHANGED managers
  BY DEF Submit, AddTask
<1>2. recovered = <<>>
  BY <1>1 DEF LifeInv, SysInv, IInv, LoopsOK
<1>3. t \notin accepted
  BY <1>1, <1>2, NothingTwice DEF LifeInv, NoTaskLost
<1>4. \A r \in Robot, u \in Task : Arrived(r, u)' <=> Arrived(r, u)
  BY <1>1, AddTaskSteady, FleetArrives DEF Submit, LifeInv, SysInv
<1>5. \A r \in Robot : Exec(r)' = Exec(r)
  BY <1>1, SameExec DEF SameNodes, managers
<1>6. Sees /\ Sees'
  BY Seen, PTL DEF LifeInv
<1>7. Executors' = Executors
  BY <1>5, <1>6 DEF Sees
<1>8. \A r \in Robot : ~Arrived(r, t)
  BY <1>1 DEF Arrived, TaskExists
<1>9. \A u \in Task : u \in Ended' <=> u \in Ended
  BY <1>1, <1>4, <1>5, <1>6, <1>8 DEF Sees
<1> QED
  BY <1>1, <1>3, <1>6, <1>7, <1>9 DEF Sees

(* A robot's task manager activates the task that arrives.                 *)
LEMMA BeginLife ==
  ASSUME LifeInv, SysInv', taken = {}, NEW r \in Robot, ReceiveAssignment(r)
  PROVE  \E t \in Task : /\ t \in accepted \ Ended /\ Executors[t] = {}
                         /\ Executors' = [Executors EXCEPT ![t] = {r}]
                         /\ accepted' = accepted /\ Ended' = Ended
<1> DEFINE t == reservations[r].task
<1>1. Chain(r) /\ SysInv
  BY DEF LifeInv, Chains, LeftAlone
<1>2. /\ Holds(r) /\ t \in Task /\ t # None /\ assignments[r] = <<t>> /\ Exec(r) = None
      /\ UNCHANGED vars /\ Exec(r)' = t
  BY <1>1, AssignmentArrives
<1>3. ASSUME NEW s \in Robot, s # r
      PROVE  Exec(s)' = Exec(s) /\ \A u \in Task : Arrived(s, u)' <=> Arrived(s, u)
  <2>1. SameNodes(s) /\ SameTopics(s) /\ reservations'[s] = reservations[s]
    BY <1>1, <1>3, OthersUntouched
  <2> QED
    BY <2>1, SameExec DEF SameTopics, Arrived, Holds
<1>4. ~Arrived(r, t) /\ \A u \in Task : Arrived(r, u) \/ Arrived(r, u)' => u = t
  BY <1>2 DEF Arrived, vars, traffic
<1>5. \A s \in Robot : ~Arrived(s, t) /\ Exec(s) # t
  BY <1>2, <1>4, RunsWhereReserved DEF Arrived
<1>6. t \in accepted /\ accepted' = accepted
  BY <1>2, RunsWhereReserved DEF vars, registry
<1>7. Sees /\ Sees'
  BY <1>1, Seen, PTL
<1> HIDE DEF t
<1>8. Executors[t] = {} /\ t \notin Ended
  BY <1>2, <1>5, <1>7 DEF Sees
<1>9. Executors' = [Executors EXCEPT ![t] = {r}]
  <2>1. ASSUME NEW u \in Task, u # t
        PROVE  {s \in Robot : Exec(s)' = u} = {s \in Robot : Exec(s) = u}
    BY <1>2, <1>3, <2>1, NoneAssumption
  <2>2. {s \in Robot : Exec(s)' = t} = {r}
    BY <1>2, <1>3, <1>5
  <2>3. Executors'[t] = {r} /\ \A u \in Task : u # t => Executors'[u] = Executors[u]
    BY <1>2, <1>7, <2>1, <2>2 DEF Sees
  <2>4. Executors \in [Task -> SUBSET Robot] /\ Executors' \in [Task -> SUBSET Robot]
    BY DEF Executors
  <2> QED
    BY <1>2, <2>3, <2>4, ChangedAt
<1>10. \A u \in Task : u \in Ended' <=> u \in Ended
  <2>1. ASSUME NEW u \in Task, u # t
        PROVE  u \in Ended' <=> u \in Ended
    <3>1. \A s \in Robot : (Arrived(s, u)' <=> Arrived(s, u)) /\ (Exec(s)' = u <=> Exec(s) = u)
      BY <1>2, <1>3, <1>4, <2>1, NoneAssumption
    <3> QED
      BY <1>6, <1>7, <3>1 DEF Sees
  <2>2. t \notin Ended'
    BY <1>2, <1>7 DEF Sees
  <2> QED
    BY <1>8, <2>1, <2>2
<1> QED
  BY <1>2, <1>6, <1>7, <1>8, <1>9, <1>10 DEF Sees

(* A task is completed by the control loop of a task manager, or cancelled *)
(* there; it stays reserved until the fleet manager has heard of that.     *)
LEMMA EndLife ==
  ASSUME LifeInv, SysInv', taken = {}, NEW r \in Robot, ReceiveCancel(r) \/ Work(r)
  PROVE  \/ accepted' = accepted /\ Executors' = Executors /\ Ended' = Ended
         \/ \E t \in Task : /\ t \in accepted \ Ended /\ Executors[t] = {r}
                            /\ Executors' = [Executors EXCEPT ![t] = {}]
                            /\ accepted' = accepted /\ Ended' = Ended \cup {t}
<1> DEFINE t == Exec(r)
<1>1. Chain(r) /\ SysInv /\ NoneWaits(r)
  BY DEF LifeInv, Chains, LeftAlone, Chain
<1>2. /\ UNCHANGED <<vars, assignments>>
      /\ Exec(r)' \in {None, t}
  BY <1>1, CancelEnds, WorkEnds DEF orders
<1>3. \A s \in Robot, u \in Task : Arrived(s, u)' <=> Arrived(s, u)
  BY <1>2 DEF Arrived, Holds, vars, traffic
<1>4. \A s \in Robot : s # r => Exec(s)' = Exec(s)
  BY <1>1, OthersUntouched, SameExec
<1>5. accepted' = accepted
  BY <1>2 DEF vars, registry
<1>6. CASE Exec(r)' = Exec(r)
  BY <1>1, <1>3, <1>4, <1>5, <1>6, SameLife
<1>7. CASE Exec(r)' # Exec(r)
  <2>1. Exec(r)' = None /\ t \in Task /\ t # None
    BY <1>1, <1>2, <1>7, ExecType, NoneAssumption
  <2>2. Arrived(r, t) /\ \A s \in Robot : Exec(s) = t => s = r
    BY <2>1, RunsWhereReserved DEF Arrived
  <2>3. t \in accepted
    BY <2>2, RunsWhereReserved DEF Arrived
  <2>4. Sees /\ Sees'
    BY <1>1, Seen, PTL
  <2>5. Executors[t] = {r} /\ t \notin Ended
    BY <2>1, <2>2, <2>4 DEF Sees
  <2>6. Executors' = [Executors EXCEPT ![t] = {}]
    <3>1. ASSUME NEW u \in Task, u # t
          PROVE  {s \in Robot : Exec(s)' = u} = {s \in Robot : Exec(s) = u}
      BY <1>4, <2>1, <3>1, NoneAssumption
    <3>2. {s \in Robot : Exec(s)' = t} = {}
      BY <1>4, <2>1, <2>2
    <3> HIDE DEF t
    <3>3. Executors'[t] = {} /\ \A u \in Task : u # t => Executors'[u] = Executors[u]
      BY <2>1, <2>4, <3>1, <3>2 DEF Sees
    <3>4. Executors \in [Task -> SUBSET Robot] /\ Executors' \in [Task -> SUBSET Robot]
      BY DEF Executors
    <3> QED
      BY <2>1, <3>3, <3>4, ChangedAt
  <2>7. \A u \in Task : u \in Ended' <=> u \in Ended \cup {t}
    <3>1. ASSUME NEW u \in Task, u # t
          PROVE  u \in Ended' <=> u \in Ended
      <4>1. \A s \in Robot : Exec(s)' = u <=> Exec(s) = u
        BY <1>4, <2>1, <3>1, NoneAssumption
      <4> QED
        BY <1>3, <1>5, <2>4, <4>1 DEF Sees
    <3>2. t \in Ended'
      BY <1>3, <1>4, <1>5, <2>1, <2>2, <2>3, <2>4 DEF Sees
    <3> HIDE DEF t
    <3> QED
      BY <3>1, <3>2
  <2> HIDE DEF t
  <2>8. Ended' = Ended \cup {t}
    BY <2>1, <2>4, <2>7 DEF Sees
  <2> QED
    BY <1>5, <2>1, <2>3, <2>5, <2>6, <2>8
<1> QED
  BY <1>6, <1>7

(* The registration that ends a reservation comes when its task is over.   *)
LEMMA CountLife ==
  ASSUME LifeInv, SysInv', taken = {}, NEW r \in Robot, ReceiveRegistration(r)
  PROVE  \/ accepted' = accepted /\ Executors' = Executors /\ Ended' = Ended
         \/ \E t \in Task : /\ t \in Ended
                            /\ accepted' = accepted \ {t} /\ Ended' = Ended \ {t}
                            /\ Executors' = Executors
<1> DEFINE t == reservations[r].task
<1>1. Chain(r) /\ SysInv /\ TypeOK
  BY DEF LifeInv, Chains, LeftAlone, SysInv, IInv
<1>2. PICK heard \in announced[r], report \in Reports : Register(r, report, heard)
  BY DEF ReceiveRegistration
<1>3. UNCHANGED managers /\ UNCHANGED assignments
  BY DEF ReceiveRegistration, orders
<1>4. \A s \in Robot : Exec(s)' = Exec(s)
  BY <1>3, SameExec DEF SameNodes, managers
<1>5. \A s \in Robot, u \in Task : s # r => (Arrived(s, u)' <=> Arrived(s, u))
  BY <1>1, <1>2, <1>3, RegisterReservation DEF Arrived, Holds
<1>6. CASE /\ accepted' = accepted
           /\ Holds(r)' <=> Holds(r)
           /\ Holds(r) => reservations'[r].task = t
  <2>1. \A u \in Task : Arrived(r, u)' <=> Arrived(r, u)
    BY <1>3, <1>6 DEF Arrived
  <2> QED
    BY <1>1, <1>4, <1>5, <1>6, <2>1, SameLife
<1>7. CASE /\ Holds(r) /\ heard = None /\ reservations[r].activated
           /\ accepted' = accepted \ {t} /\ ~Holds(r)'
  <2>1. t \in Task /\ t # None /\ Follows(r, t, TRUE)
    BY <1>1, <1>7, SysInvParts DEF Chain
  <2>2. Exec(r) = None /\ assignments[r] = <<>>
    BY <1>2, <1>7, <2>1 DEF Follows
  <2>3. Arrived(r, t) /\ t \in accepted
    BY <1>7, <2>2, RunsWhereReserved DEF Arrived
  <2>4. \A s \in Robot : Exec(s) # t
    BY <2>1, <2>2, <2>3, RunsWhereReserved DEF Arrived
  <2>5. Sees /\ Sees'
    BY <1>1, Seen, PTL
  <2>6. t \in Ended
    BY <2>1, <2>3, <2>4, <2>5 DEF Sees
  <2>7. Executors' = Executors
    BY <1>4, <2>5 DEF Sees
  <2>8. \A u \in Task : u # t => (Arrived(r, u)' <=> Arrived(r, u))
    BY <1>7 DEF Arrived
  <2>9. \A u \in Task : u \in Ended' <=> u \in Ended \ {t}
    <3>1. ASSUME NEW u \in Task, u # t
          PROVE  u \in Ended' <=> u \in Ended
      BY <1>4, <1>5, <1>7, <2>5, <2>8, <3>1 DEF Sees
    <3>2. t \notin Ended'
      BY <1>7, <2>1, <2>5 DEF Sees
    <3> QED
      BY <3>1, <3>2
  <2>10. Ended' = Ended \ {t}
    BY <2>5, <2>9 DEF Sees
  <2> HIDE DEF t
  <2> QED
    BY <1>7, <2>1, <2>6, <2>7, <2>10
<1>8. CASE accepted' = accepted \ {t} /\ Holds(r) /\ heard = None /\ reservations[r].activated
           /\ Release(r)
  BY <1>1, <1>7, <1>8 DEF Release, TypeOK, Holds
<1>9. CASE /\ accepted' = accepted
           /\ \/ /\ Holds(r) /\ t = heard
                 /\ reservations' = [reservations EXCEPT ![r].activated = TRUE]
              \/ UNCHANGED traffic
  <2>1. CASE UNCHANGED traffic
    BY <1>6, <1>9, <2>1 DEF traffic, Holds
  <2>2. CASE /\ Holds(r)
             /\ reservations' = [reservations EXCEPT ![r].activated = TRUE]
    <3>1. reservations[r] \in Reservation
      BY <1>1, <2>2, HoldsType
    <3>2. reservations'[r] = [reservations[r] EXCEPT !.activated = TRUE]
      BY <1>1, <2>2 DEF TypeOK
    <3>3. reservations'[r].task = t /\ reservations'[r] \in Reservation
      BY ONLY <3>1, <3>2 DEF Reservation
    <3>4. Holds(r)'
      BY <3>3, NoneAssumption DEF Holds
    <3> QED
      BY <1>6, <1>9, <2>2, <3>3, <3>4
  <2> QED
    BY <1>9, <2>1, <2>2
<1> QED
  BY <1>2, <1>8, <1>9 DEF Register

LEMMA OtherLife ==
  ASSUME LifeInv, SysInv', UNCHANGED <<vars, managers, assignments>>
  PROVE  accepted' = accepted /\ Executors' = Executors /\ Ended' = Ended
<1>1. \A s \in Robot, u \in Task : Arrived(s, u)' <=> Arrived(s, u)
  BY DEF Arrived, Holds, vars, traffic
<1>2. \A s \in Robot : Exec(s)' = Exec(s)
  BY SameExec DEF SameNodes, managers
<1> QED
  BY <1>1, <1>2, SameLife DEF LifeInv, vars, registry

LEMMA SilenceLife ==
  ASSUME LifeInv, SysInv', NEW r \in Robot, FallSilent(r) \/ Resume(r)
  PROVE  accepted' = accepted /\ Executors' = Executors /\ Ended' = Ended
<1>1. UNCHANGED <<traffic, accepted, managers, assignments>>
  BY DEF FallSilent, Resume, Silence, Heartbeat, orders
<1>2. \A s \in Robot, u \in Task : Arrived(s, u)' <=> Arrived(s, u)
  BY <1>1 DEF Arrived, Holds, traffic
<1>3. \A s \in Robot : Exec(s)' = Exec(s)
  BY <1>1, SameExec DEF SameNodes, managers
<1> QED
  BY <1>1, <1>2, <1>3, SameLife DEF LifeInv

LEMMA LifeStep ==
  ASSUME LifeInv, SysInv', [SysNext]_sysVars
  PROVE  [Life!Next]_(Life!lifeVars)
<1>1. ASSUME taken' # {} PROVE [Life!Next]_(Life!lifeVars)
  BY <1>1 DEF Life!Next, Life!Disturb
<1> SUFFICES ASSUME taken' = {} PROVE [Life!Next]_(Life!lifeVars)
  BY <1>1
<1>2. taken = {} /\ SysInv
  BY TakenGrows DEF LifeInv
<1>3. ASSUME accepted' = accepted /\ Executors' = Executors /\ Ended' = Ended
      PROVE  UNCHANGED Life!lifeVars
  BY <1>2, <1>3 DEF Life!lifeVars, Executors, Ended
<1>4. CASE FleetTick \/ FleetCallback
  BY <1>2, <1>3, <1>4, CallbackLife
<1>5. ASSUME NEW t \in Task, Submit(t) PROVE [Life!Next]_(Life!lifeVars)
  <2>1. Life!Accept(t)
    BY <1>2, <1>5, SubmitLife DEF Life!Accept, Executors, Ended
  <2> QED
    BY <2>1 DEF Life!Next
<1>6. ASSUME NEW t \in Task, OperatorCancel(t) PROVE UNCHANGED Life!lifeVars
  BY <1>3, <1>6, OtherLife DEF OperatorCancel
<1>7. ASSUME NEW r \in Failing, FallSilent(r) \/ Resume(r) PROVE UNCHANGED Life!lifeVars
  BY <1>3, <1>7, SilenceLife, DataAssumption
<1>8. ASSUME NEW r \in Robot, ReceiveAssignment(r) PROVE [Life!Next]_(Life!lifeVars)
  <2>1. \E t \in Task : Life!Begin(r, t)
    BY <1>2, <1>8, BeginLife DEF Life!Begin, Executors, Ended
  <2> QED
    BY <2>1 DEF Life!Next
<1>9. ASSUME NEW r \in Robot, ReceiveCancel(r) \/ Work(r) PROVE [Life!Next]_(Life!lifeVars)
  <2>1. UNCHANGED Life!lifeVars \/ \E t \in Task : Life!End(r, t)
    BY <1>2, <1>3, <1>9, EndLife DEF Life!End, Executors, Ended
  <2> QED
    BY <2>1 DEF Life!Next
<1>10. ASSUME NEW r \in Robot, HearState(r) \/ Announce(r) PROVE UNCHANGED Life!lifeVars
  BY <1>3, <1>10, OtherLife DEF HearState, Announce, orders
<1>11. ASSUME NEW r \in Robot, ReceiveRegistration(r) PROVE [Life!Next]_(Life!lifeVars)
  <2>1. UNCHANGED Life!lifeVars \/ \E t \in Task : Life!Count(t)
    BY <1>2, <1>3, <1>11, CountLife DEF Life!Count, Executors, Ended
  <2> QED
    BY <2>1 DEF Life!Next
<1>12. CASE UNCHANGED sysVars
  BY <1>3, <1>12, OtherLife DEF sysVars, orders
<1> QED
  BY <1>4, <1>5, <1>6, <1>7, <1>8, <1>9, <1>10, <1>11, <1>12 DEF SysNext

(* As long as no work was taken back every task lives as TaskLife has it:  *)
(* _task_callback accepts it once, a task manager activates it once, ends  *)
(* it, and _check_reservation_release counts it after that.                *)
THEOREM ImplementsLife == SysSpec => LifeSpec
<1>1. SysInit /\ SysInv => Life!Init
  <2> SUFFICES ASSUME SysInit, SysInv PROVE Life!Init
    OBVIOUS
  <2>1. accepted = {} /\ taken = {} /\ \A r \in Robot : active[r] = 0
    BY DEF SysInit, Init, TM!TMInit
  <2> QED
    BY <2>1 DEF Life!Init, Executes
<1>2. LifeInv /\ SysInv' /\ [SysNext]_sysVars => [Life!Next]_(Life!lifeVars)
  BY LifeStep
<1>3. SysSpec => []LifeInv
  BY SysInvariant, ChainsInvariant, UndisturbedInvariant, KnownInvariant, SystemIsSafe, PTL
     DEF LifeInv
<1> QED
  BY <1>1, <1>2, <1>3, SysInvariant, PTL DEF SysSpec, LifeSpec, Life!Spec

-----------------------------------------------------------------------------
(* Unless t was executed to its end on r, or cancelled there, what the     *)
(* fleet manager has seen of it is still so: a registration that names t,  *)
(* or an activated reservation of t, means that the beacon knows t, that   *)
(* the last /task_state named t, and that the task manager executes it.    *)
Trusted(r, t) ==
  /\ Holds(r) /\ reservations[r].task = t /\ reservations[r].activated
       => announced[r] \subseteq {t} /\ knows[r] = t
  /\ t \in announced[r] => knows[r] = t
  /\ knows[r] = t => told[r].active = t
  /\ told[r].active = t => Exec(r) = t

Honest(r, t) == Finished(r, t) \/ MayBeCancelled(r, t) \/ Trusted(r, t)

(* A cancel is on its way only of a task that may be cancelled.            *)
CancelKnown(r, t) == Contains(cancels[r], t) => MayBeCancelled(r, t)

TroublesOK == troubles \in Seq(Task \cup Robot)
HonestInv ==
  TroublesOK /\ \A r \in Robot, t \in Task : CancelKnown(r, t) /\ Honest(r, t)

LEMMA TroublesGrow ==
  ASSUME TroublesOK, NEW x \in Task \cup Robot, troubles' = Append(troubles, x)
  PROVE  /\ TroublesOK'
         /\ \A i \in 1..Len(troubles) : i \in 1..Len(troubles') /\ troubles'[i] = troubles[i]
         /\ \E i \in 1..Len(troubles') : troubles'[i] = x
<1>1. /\ Append(troubles, x) \in Seq(Task \cup Robot)
      /\ Len(Append(troubles, x)) = Len(troubles) + 1
      /\ Append(troubles, x)[Len(troubles) + 1] = x
      /\ \A i \in 1..Len(troubles) : Append(troubles, x)[i] = troubles[i]
  <2>1. ASSUME NEW s \in Seq(Task \cup Robot)
        PROVE  /\ Append(s, x) \in Seq(Task \cup Robot) /\ Len(Append(s, x)) = Len(s) + 1
               /\ Append(s, x)[Len(s) + 1] = x
               /\ \A i \in 1..Len(s) : Append(s, x)[i] = s[i]
    BY AppendProperties
  <2> QED
    BY <2>1 DEF TroublesOK
<1>2. Len(troubles) \in Nat
  BY DEF TroublesOK
<1>3. /\ troubles' \in Seq(Task \cup Robot) /\ Len(troubles') = Len(troubles) + 1
      /\ troubles'[Len(troubles) + 1] = x
      /\ \A i \in 1..Len(troubles) : troubles'[i] = troubles[i]
  BY <1>1
<1> QED
  BY <1>2, <1>3 DEF TroublesOK

LEMMA HistoryGrows ==
  ASSUME TroublesOK, [SysNext]_sysVars
  PROVE  /\ TroublesOK'
         /\ \A r \in Robot, t \in Task : MayBeCancelled(r, t) => MayBeCancelled(r, t)'
<1>1. taken \subseteq taken'
  BY TakenGrows
<1>2. \/ UNCHANGED troubles
      \/ \E x \in Task \cup Robot : troubles' = Append(troubles, x)
  BY DataAssumption
     DEF SysNext, FleetTick, FleetCallback, Submit, OperatorCancel, FallSilent, Resume,
       ReceiveAssignment, ReceiveCancel, Work, HearState, Announce, ReceiveRegistration,
       history, sysVars
<1> QED
  BY <1>1, <1>2, TroublesGrow DEF MayBeCancelled, TroublesOK

(* What a step is to r: one of r's own, or one that only the fleet manager *)
(* takes.                                                                  *)
Own(r) ==
  \/ ReceiveAssignment(r) \/ ReceiveCancel(r) \/ Work(r)
  \/ HearState(r) \/ Announce(r) \/ ReceiveRegistration(r)

Apart(r) ==
  SameNodes(r) /\ knows'[r] = knows[r] /\ announced'[r] = announced[r] /\ Steady(r)

LEMMA OwnOrApart ==
  ASSUME SysInv, NEW r \in Robot, [SysNext]_sysVars
  PROVE  Own(r) \/ Apart(r)
<1>1. ASSUME UNCHANGED <<managers, beacons>>, Steady(r) PROVE Apart(r)
  BY <1>1 DEF Apart, SameNodes, managers, beacons
<1>2. ASSUME reservations'[r] = reservations[r] PROVE Steady(r)
  BY <1>2, SameSteady
<1>3. CASE FleetTick
  BY <1>1, <1>2, <1>3 DEF FleetTick, Tick, traffic
<1>4. CASE FleetCallback
  BY <1>1, <1>4, CallbackSteady DEF FleetCallback, SysInv
<1>5. ASSUME NEW t \in Task, Submit(t) \/ OperatorCancel(t) PROVE Apart(r)
  BY <1>1, <1>2, <1>5, AddTaskSteady DEF Submit, OperatorCancel, SysInv, vars, traffic
<1>6. ASSUME NEW s \in Failing, FallSilent(s) \/ Resume(s) PROVE Apart(r)
  BY <1>1, <1>2, <1>6 DEF FallSilent, Resume, Silence, Heartbeat, traffic
<1>7. ASSUME NEW s \in Robot, Own(s), s # r PROVE Apart(r)
  BY <1>2, <1>7, OthersUntouched DEF Own, Apart, SameTopics
<1>8. CASE UNCHANGED sysVars
  BY <1>1, <1>2, <1>8 DEF sysVars, vars, traffic
<1>9. ASSUME NEW s \in Robot,
             \/ ReceiveAssignment(s) \/ ReceiveCancel(s) \/ Work(s)
             \/ HearState(s) \/ Announce(s) \/ ReceiveRegistration(s)
      PROVE  Own(r) \/ Apart(r)
  BY <1>7, <1>9 DEF Own
<1> QED
  BY <1>3, <1>4, <1>5, <1>6, <1>8, <1>9 DEF SysNext

LEMMA FinishedCompleted ==
  ASSUME NEW r, NEW t
  PROVE  Finished(r, t) <=> TMProofs!CompletedIn(tasks[r], t)
BY DEF Finished, TMProofs!CompletedIn

(* What the task manager of r does to the task it executes, and to those   *)
(* it is done with.                                                        *)
LEMMA OwnEffect ==
  ASSUME SysInv, NEW r \in Robot, NEW t \in Task, Own(r) \/ Apart(r),
         CancelKnown(r, t)
  PROVE  /\ Finished(r, t) => Finished(r, t)'
         /\ Exec(r) = t => Exec(r)' = t \/ Finished(r, t)' \/ MayBeCancelled(r, t)
         /\ told'[r] = told[r] \/ (Work(r) /\ told'[r].active = Exec(r))
<1>1. SysInv /\ TMProofs!TMInv /\ TMProofs!TMTypeOK /\ TopicsOK /\ t # None
  BY SysInvParts
<1>2. Finished(r, t)' <=> TMProofs!CompletedIn(tasks'[r], t)
  BY DEF Finished, TMProofs!CompletedIn
<1>3. CASE SameNodes(r)
  BY <1>3, SameExec DEF SameNodes, Finished
<1>4. CASE ReceiveAssignment(r)
  <2>1. TM!Assign(r, Head(assignments[r])) /\ assignments[r] # <<>> /\ assignments[r] \in Seq(Task)
    BY <1>1, <1>4 DEF ReceiveAssignment, TopicsOK
  <2>2. TMProofs!Assign(r, Head(assignments[r])) /\ Head(assignments[r]) \in Task
    BY <2>1, SameAssign
  <2>3. /\ UNCHANGED told
        /\ \A u : TMProofs!CompletedIn(tasks[r], u) => TMProofs!CompletedIn(tasks'[r], u)
        /\ Exec(r) # None => Exec(r)' = Exec(r)
    BY <1>1, <2>2, ManagerAssumption, TMProofs!AssignEffect DEF Exec
  <2> QED
    BY <1>1, <1>2, <2>3, FinishedCompleted
<1>5. CASE ReceiveCancel(r)
  <2>1. TM!Cancel(r, Head(cancels[r])) /\ cancels[r] # <<>> /\ cancels[r] \in Seq(Task)
    BY <1>1, <1>5 DEF ReceiveCancel, TopicsOK
  <2>2. TMProofs!Cancel(r, Head(cancels[r])) /\ Head(cancels[r]) \in Task
    BY <2>1, SameCancel
  <2>3. /\ UNCHANGED told
        /\ \A u : TMProofs!CompletedIn(tasks[r], u) => TMProofs!CompletedIn(tasks'[r], u)
        /\ Exec(r) \notin {None, Head(cancels[r])} => Exec(r)' = Exec(r)
    BY <1>1, <2>2, ManagerAssumption, TMProofs!CancelEffect DEF Exec
  <2>4. Head(cancels[r]) = t => MayBeCancelled(r, t)
    <3>1. Head(cancels[r]) = cancels[r][1] /\ 1 \in 1..Len(cancels[r])
      BY <2>1
    <3> QED
      BY <3>1 DEF CancelKnown, Contains
  <2> QED
    BY <1>1, <1>2, <2>3, <2>4, FinishedCompleted
<1>6. CASE Work(r)
  <2>1. TMProofs!ControlLoop(r)
    BY <1>6, SameControlLoop DEF Work
  <2>2. /\ told'[r].active = Exec(r)
        /\ \A u : TMProofs!CompletedIn(tasks[r], u) => TMProofs!CompletedIn(tasks'[r], u)
        /\ Exec(r)' = Exec(r) \/ TMProofs!CompletedIn(tasks'[r], Exec(r))
    BY <1>1, <2>1, ManagerAssumption, TMProofs!ControlLoopEffect DEF Exec
  <2> QED
    BY <1>2, <1>6, <2>2, FinishedCompleted
<1> QED
  BY <1>3, <1>4, <1>5, <1>6 DEF Own, Apart, HearState, Announce, ReceiveRegistration,
     SameNodes, managers

LEMMA HonestNext ==
  ASSUME SysInv, HonestInv, [SysNext]_sysVars, NEW r \in Robot, NEW t \in Task
  PROVE  Honest(r, t)'
<1>1. CancelKnown(r, t) /\ Honest(r, t) /\ TroublesOK
  BY DEF HonestInv
<1>2. MayBeCancelled(r, t) => MayBeCancelled(r, t)'
  BY <1>1, HistoryGrows
<1>3. Own(r) \/ Apart(r)
  BY OwnOrApart
<1>4. /\ Finished(r, t) => Finished(r, t)'
      /\ Exec(r) = t => Exec(r)' = t \/ Finished(r, t)' \/ MayBeCancelled(r, t)
      /\ told'[r] = told[r] \/ (Work(r) /\ told'[r].active = Exec(r))
  BY <1>1, <1>3, OwnEffect
<1> SUFFICES ASSUME Trusted(r, t), Exec(r) = t => Exec(r)' = t
             PROVE  Trusted(r, t)'
  BY <1>1, <1>2, <1>4 DEF Honest
<1>5. t # None /\ TypeOK /\ TopicsOK
  BY SysInvParts
<1>6. told'[r].active = t => Exec(r)' = t
  BY <1>4 DEF Trusted
<1>7. knows[r] = t => told'[r].active = t
  BY <1>4 DEF Trusted
<1>8. CASE knows'[r] = knows[r] /\ announced'[r] = announced[r] /\ Steady(r)
  <2>1. Holds(r)' /\ reservations'[r].task = t /\ reservations'[r].activated
          => Holds(r) /\ reservations[r].task = t /\ reservations[r].activated
    BY <1>8 DEF Steady
  <2> QED
    BY <1>6, <1>7, <1>8, <2>1 DEF Trusted, Holds
<1>9. CASE HearState(r) \/ Announce(r)
  <2>1. told' = told /\ reservations' = reservations
    BY <1>9 DEF HearState, Announce, managers, vars, traffic
  <2>2. \/ knows'[r] = told[r].active /\ announced'[r] = announced[r]
        \/ knows'[r] = knows[r] /\ announced[r] = {} /\ announced'[r] = {knows[r]}
    BY <1>5, <1>9 DEF HearState, Announce, TopicsOK
  <2> QED
    BY <1>6, <2>1, <2>2 DEF Trusted, Holds
<1>10. CASE ReceiveRegistration(r)
  <2>1. PICK u \in announced[r], report \in Reports : Register(r, report, u)
    BY <1>10 DEF ReceiveRegistration
  <2>2. announced'[r] = {} /\ knows' = knows
    BY <1>5, <1>10 DEF ReceiveRegistration, TopicsOK
  <2>3. Holds(r)' /\ reservations'[r].task = t /\ reservations'[r].activated
          => \/ u = t
             \/ Holds(r) /\ reservations[r].task = t /\ reservations[r].activated
    BY <1>5, <2>1, RegisterReservation DEF Holds
  <2> QED
    BY <1>6, <1>7, <2>2, <2>3 DEF Trusted, Holds
<1>11. CASE ReceiveAssignment(r) \/ ReceiveCancel(r) \/ Work(r)
  <2>1. Steady(r) /\ knows'[r] = knows[r] /\ announced'[r] = announced[r]
    BY <1>11, SameSteady DEF ReceiveAssignment, ReceiveCancel, Work, beacons, vars, traffic
  <2> QED
    BY <1>8, <2>1
<1> QED
  BY <1>3, <1>8, <1>9, <1>10, <1>11 DEF Own, Apart

(* A cancel on its way was sent by an operator, or by _check_battery.      *)
LEMMA CancelNext ==
  ASSUME SysInv, HonestInv, [SysNext]_sysVars, NEW r \in Robot, NEW t \in Task
  PROVE  CancelKnown(r, t)'
<1>1. CancelKnown(r, t) /\ TroublesOK /\ TopicsOK /\ TypeOK /\ cancels[r] \in Seq(Task)
  BY SysInvParts DEF HonestInv, TopicsOK
<1>2. MayBeCancelled(r, t) => MayBeCancelled(r, t)'
  BY <1>1, HistoryGrows
<1>3. CASE cancels'[r] = cancels[r]
  BY <1>1, <1>2, <1>3 DEF CancelKnown, Contains
<1>4. ASSUME Publish, pc # "battery" \/ r \notin TakenBack PROVE cancels'[r] = cancels[r]
  BY <1>4 DEF Publish, TakenBack, WorkOf, Holds
<1>5. CASE FleetCallback
  <2>1. CASE pc = "battery" /\ r \in TakenBack
    <3>1. <<r, "battery">> \in taken'
      BY <1>5, <2>1 DEF FleetCallback
    <3> QED
      BY <3>1 DEF MayBeCancelled, CancelKnown
  <2> QED
    BY <1>3, <1>4, <1>5, <2>1 DEF FleetCallback
<1>6. CASE FleetTick
  BY <1>3, <1>4, <1>6 DEF FleetTick, Tick
<1>7. ASSUME NEW u \in Task, Submit(u) PROVE CancelKnown(r, t)'
  BY <1>3, <1>4, <1>7 DEF Submit, AddTask
<1>8. ASSUME NEW u \in Task, OperatorCancel(u) PROVE CancelKnown(r, t)'
  <2>1. troubles' = Append(troubles, u) /\ \E s \in Robot : cancels' = [cancels EXCEPT ![s] = Append(@, u)]
    BY <1>8 DEF OperatorCancel
  <2>2. cancels'[r] = cancels[r] \/ cancels'[r] = Append(cancels[r], u)
    BY <1>1, <2>1 DEF TopicsOK
  <2>3. Contains(Append(cancels[r], u), t) => Contains(cancels[r], t) \/ t = u
    BY <1>1, AppendOnce
  <2>4. t = u => MayBeCancelled(r, t)'
    BY <1>1, <2>1, TroublesGrow DEF MayBeCancelled
  <2>5. CASE cancels'[r] = Append(cancels[r], u)
    BY <1>1, <1>2, <2>3, <2>4, <2>5 DEF CancelKnown, Contains
  <2> QED
    BY <1>3, <2>2, <2>5
<1>9. ASSUME NEW s \in Robot, ReceiveCancel(s) PROVE CancelKnown(r, t)'
  <2>1. cancels' = [cancels EXCEPT ![s] = Tail(@)] /\ cancels[s] # <<>>
    BY <1>9 DEF ReceiveCancel
  <2>2. CASE s = r
    <3>1. cancels'[r] = Tail(cancels[r]) /\ cancels[r] # <<>>
      BY <1>1, <2>1, <2>2 DEF TopicsOK
    <3>2. /\ Len(Tail(cancels[r])) = Len(cancels[r]) - 1
          /\ \A i \in 1..Len(Tail(cancels[r])) : Tail(cancels[r])[i] = cancels[r][i + 1]
      BY <1>1, <3>1
    <3>3. Contains(Tail(cancels[r]), t) => Contains(cancels[r], t)
      <4> SUFFICES ASSUME NEW i \in 1..Len(Tail(cancels[r])), Tail(cancels[r])[i] = t
                   PROVE  i + 1 \in 1..Len(cancels[r]) /\ cancels[r][i + 1] = t
        BY DEF Contains
      <4> QED
        BY <1>1, <3>2
    <3> QED
      BY <1>1, <1>2, <3>1, <3>3 DEF CancelKnown, Contains
  <2> QED
    BY <1>1, <1>3, <2>1, <2>2 DEF TopicsOK
<1> QED
  BY <1>3, <1>5, <1>6, <1>7, <1>8, <1>9 DEF SysNext, FallSilent, Resume,
     ReceiveAssignment, Work, HearState, Announce, ReceiveRegistration, sysVars, orders

LEMMA HonestInvariant == SysSpec => []HonestInv
<1>1. SysInit => HonestInv
  <2> SUFFICES ASSUME SysInit PROVE HonestInv
    OBVIOUS
  <2>1. \A r \in Robot : /\ ~Holds(r) /\ announced[r] = {} /\ knows[r] = None
                         /\ told[r].active = None /\ cancels[r] = <<>>
    BY DEF SysInit, Init, TM!TMInit, Holds
  <2>2. troubles \in Seq(Task \cup Robot)
    BY DEF SysInit
  <2> QED
    BY <2>1, <2>2, NoneAssumption, NothingTwice
       DEF HonestInv, TroublesOK, CancelKnown, Honest, Trusted
<1>2. SysInv /\ HonestInv /\ [SysNext]_sysVars => HonestInv'
  <2> SUFFICES ASSUME SysInv, HonestInv, [SysNext]_sysVars PROVE HonestInv'
    OBVIOUS
  <2>1. TroublesOK'
    BY HistoryGrows DEF HonestInv
  <2> QED
    BY <2>1, HonestNext, CancelNext DEF HonestInv
<1> QED
  BY <1>1, <1>2, SysInvariant, PTL DEF SysSpec

(* The fleet manager counts no completion that was none, however its       *)
(* assignments, the states and the registrations cross and whoever falls   *)
(* silent: _check_reservation_release ends a reservation on a None only    *)
(* after the task was named, and the None then comes after the task's end. *)
THEOREM CompletionsAreTrue == SysSpec => CompletionIsTrue
<1>1. SysInv /\ HonestInv /\ [SysNext]_sysVars =>
        [\A r \in Robot : pc = "idle" /\ Holds(r) /\ ~Holds(r)' =>
           \/ Finished(r, reservations[r].task)
           \/ MayBeCancelled(r, reservations[r].task)]_sysVars
  <2> SUFFICES ASSUME SysInv, HonestInv, [SysNext]_sysVars,
                      NEW r \in Robot, pc = "idle", Holds(r), ~Holds(r)'
               PROVE  \/ Finished(r, reservations[r].task)
                      \/ MayBeCancelled(r, reservations[r].task)
    OBVIOUS
  <2> DEFINE t == reservations[r].task
  <2>1. t \in Task /\ t # None /\ TypeOK
    BY SysInvParts
  <2>2. ReceiveRegistration(r)
    <3>1. reservations'[r] # reservations[r]
      BY DEF Holds
    <3>2. ~FleetCallback
      BY CallbackSteady DEF FleetCallback, SysInv, RecoverRobot, ReleaseForCharging
    <3>3. \A u \in Task : ~Submit(u)
      BY AddTaskSteady DEF Submit, SysInv
    <3>4. \A s \in Robot : s # r => ~ReceiveRegistration(s)
      BY <3>1, OthersUntouched
    <3> QED
      BY <3>1, <3>2, <3>3, <3>4 DEF SysNext, FleetTick, Tick, OperatorCancel, FallSilent, Silence,
         Resume, Heartbeat, ReceiveAssignment, ReceiveCancel, Work, HearState, Announce,
         sysVars, vars, traffic
  <2>3. PICK u \in announced[r], report \in Reports : Register(r, report, u)
    BY <2>2 DEF ReceiveRegistration
  <2>4. u = None /\ reservations[r].activated
    BY <2>1, <2>3, RegisterReservation DEF Holds
  <2>5. ~Trusted(r, t)
    BY <2>1, <2>3, <2>4 DEF Trusted
  <2> QED
    BY <2>1, <2>5 DEF HonestInv, Honest
<1> QED
  BY <1>1, HonestInvariant, SysInvariant, PTL DEF SysSpec, CompletionIsTrue
=============================================================================
