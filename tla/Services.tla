------------------------------ MODULE Services ------------------------------
(***************************************************************************)
(* The verification of heartbeats, and the clients that keep the backend's *)
(* picture of the robots up to date: batches that report on robots, and an *)
(* operator who registers, changes and deletes robots.  The services are   *)
(* coroutines of one event loop and run without an await; the batches run  *)
(* in threads beside them.                                                 *)
(***************************************************************************)
EXTENDS Ledger

CONSTANTS
  MaxChanges,   \* bound: how often the fleet's view of a robot changes
  MaxUpsets     \* bound: interventions of an operator, and restarts

ASSUME ChangesAssumption == MaxChanges \in Nat /\ MaxUpsets \in Nat

VARIABLES
  view,      \* what the fleet reports of each robot
  changes,   \* how often the view has changed
  upsets     \* how often an operator or a restart has disturbed the backend

clientVars == <<view, changes, upsets>>
allVars == <<ledgerVars, clientVars>>

Alive == [status |-> "ONLINE", charging |-> FALSE, low |-> FALSE,
          current |-> Nobody, fresh |-> TRUE]

-----------------------------------------------------------------------------
(* The fleet: a robot goes offline, docks or leaves the charger, runs low; *)
(* its reports carry the time it was last seen.                            *)
Change(r) ==
  /\ changes < MaxChanges
  /\ \/ view' = [view EXCEPT ![r].charging = ~@]
     \/ view' = [view EXCEPT ![r].low = ~@]
     \/ view' = [view EXCEPT ![r].status = "OFFLINE", ![r].fresh = FALSE]
     \/ view' = [view EXCEPT ![r].fresh = FALSE]
  /\ changes' = changes + 1
  /\ UNCHANGED <<ledgerVars, upsets>>

(* The fleet hears of the robot again.                                     *)
Seen(r) ==
  /\ view[r].status = "OFFLINE" \/ ~view[r].fresh
  /\ view' = [view EXCEPT ![r].status = "ONLINE", ![r].fresh = TRUE]
  /\ UNCHANGED <<ledgerVars, changes, upsets>>

(* A batch arrives; the bridge posts one after the other, but one that it  *)
(* has given up on may still be running.                                   *)
PostBatch ==
  /\ \E q \in Request : requests[q] = Idle
  /\ LET q == CHOOSE q \in Request : requests[q] = Idle
     IN Receive(q, [robots |-> view, tasks |-> <<>>, reservations |-> {}])
  /\ UNCHANGED <<view, changes, upsets>>

Process(q) ==
  /\ Store(q) \/ Derive(q)
  /\ UNCHANGED clientVars

Respond(q) ==
  /\ requests[q].step = "done"
  /\ requests' = [requests EXCEPT ![q] = Idle]
  /\ UNCHANGED <<db, overdue, restarts, clientVars>>

-----------------------------------------------------------------------------
(* The operator: POST, PATCH and DELETE /api/robots; and a restart.        *)

RobotCreate(r) ==
  /\ db' = UpsertRobots(db, [NoReports EXCEPT ![r] = Alive])
  /\ UNCHANGED <<requests, overdue, restarts>>

RobotPatch(r) ==
  /\ db.robots[r] # NoRow
  /\ \E charging \in BOOLEAN : db' = [db EXCEPT !.robots[r].charging = charging]
  /\ UNCHANGED <<requests, overdue, restarts>>

Upset ==
  /\ upsets < MaxUpsets /\ upsets' = upsets + 1
  /\ \/ \E r \in Robot : RobotCreate(r) \/ RobotPatch(r) \/ RobotDelete(r)
     \/ Restart
  /\ UNCHANGED <<view, changes>>

(* The service that verifies heartbeats; it may be paused at any time,     *)
(* which is why no fairness is asked of it.                                *)
Heartbeat ==
  /\ VerifyHeartbeats \/ \E r \in Robot : FlagOffline(r)
  /\ UNCHANGED clientVars

Late(r) ==
  /\ Overdue(r)
  /\ UNCHANGED clientVars

-----------------------------------------------------------------------------
ServicesInit ==
  /\ LedgerInit
  /\ view = [r \in Robot |-> Alive]
  /\ changes = 0 /\ upsets = 0

ServicesNext ==
  \/ \E r \in Robot : Change(r) \/ Seen(r) \/ Late(r)
  \/ PostBatch \/ Upset \/ Heartbeat
  \/ \E q \in Request : Process(q) \/ Respond(q)

-----------------------------------------------------------------------------
(* When batches do not overlap, and nothing else writes the rows of robots *)
(* but the heartbeat verification, a robot has at most one charging session*)
(* open, and has it only while it charges.                                 *)
SessionsArePaired ==
  /\ \A p, q \in Request : p = q
  /\ upsets = 0
  /\ \A q \in Request : requests[q].step # "derive"
  =>
    \A r \in Robot : db.open[r] <= 1 /\ (db.open[r] = 1 => db.robots[r].charging)

(* A robot that the fleet has back online is ONLINE in the database again, *)
(* whatever the verification of heartbeats made of a late batch.           *)
OnlineAgain ==
  \A r \in Robot : []<>(db.robots[r] # NoRow /\ db.robots[r].status = "ONLINE")
=============================================================================
