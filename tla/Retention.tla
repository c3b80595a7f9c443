------------------------------ MODULE Retention ------------------------------
(***************************************************************************)
(* The retention of events by two background services of the backend: the  *)
(* cleanup deletes the rows that are older than retention.events_days, the *)
(* archive moves the rows that are older than the same limit to another    *)
(* table.  Each runs in its own period unless it is paused.                *)
(***************************************************************************)
EXTENDS Naturals

CONSTANTS
  Event,     \* the rows of the events table that are followed
  MaxDeaths  \* bound: how often the backend dies

ASSUME DeathsAssumption == MaxDeaths \in Nat

VARIABLES
  rows,      \* the rows of the events table: absent, young, old or deleted
  archived,  \* how often each row has been copied to events_archive
  paused,    \* _paused
  deaths     \* how often the backend has died within the archive service

retentionVars == <<rows, archived, paused, deaths>>

Service == {"cleanup", "archive"}
Old == {e \in Event : rows[e] = "old"}

(* prune: the rows whose time is before the limit are deleted.             *)
Prune == rows' = [e \in Event |-> IF e \in Old THEN "deleted" ELSE rows[e]]

WriteEvent(e) ==
  /\ rows[e] = "absent"
  /\ rows' = [rows EXCEPT ![e] = "young"]
  /\ UNCHANGED <<archived, paused, deaths>>

(* The row becomes older than retention.events_days.                       *)
GrowOld(e) ==
  /\ rows[e] = "young"
  /\ rows' = [rows EXCEPT ![e] = "old"]
  /\ UNCHANGED <<archived, paused, deaths>>

(* _run_service runs a service that is not paused.                         *)
Cleanup ==
  /\ "cleanup" \notin paused
  /\ Prune
  /\ UNCHANGED <<archived, paused, deaths>>

(* Mutant: the rows are left to the cleanup.                               *)
ArchiveCopies ==
  /\ "archive" \notin paused
  /\ archived' = [e \in Event |-> IF e \in Old THEN archived[e] + 1 ELSE archived[e]]
  /\ UNCHANGED <<rows, paused, deaths>>

(* The copy and the deletion are two commits.                              *)
Archive ==
  /\ "archive" \notin paused
  /\ archived' = [e \in Event |-> IF e \in Old THEN archived[e] + 1 ELSE archived[e]]
  /\ \/ Prune /\ UNCHANGED deaths
     \/ deaths < MaxDeaths /\ deaths' = deaths + 1 /\ UNCHANGED rows
  /\ paused' = IF deaths' = deaths THEN paused ELSE {}

(* POST /api/services/{name}/pause and /resume.                            *)
Pause(name) ==
  /\ paused' = paused \cup {name}
  /\ UNCHANGED <<rows, archived, deaths>>

Resume(name) ==
  /\ paused' = paused \ {name}
  /\ UNCHANGED <<rows, archived, deaths>>

RetentionInit ==
  /\ rows = [e \in Event |-> "absent"]
  /\ archived = [e \in Event |-> 0]
  /\ paused = {} /\ deaths = 0

RetentionNext ==
  \/ \E e \in Event : WriteEvent(e) \/ GrowOld(e)
  \/ Cleanup \/ Archive
  \/ \E name \in Service : Pause(name) \/ Resume(name)

-----------------------------------------------------------------------------
(* Every further copy of a row in the archive has its crash of the backend *)
(* between the copy and the deletion: without one a row is archived once.  *)
ArchivedOncePerLife == \A e \in Event : archived[e] <= deaths + 1
=============================================================================
