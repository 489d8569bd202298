------------------------------- MODULE Monitors -------------------------------
(***************************************************************************)
(* A monitor, its schedule registration and the schedule Beat projects     *)
(* from it (application/monitors.py, repositories/monitors.py, beat.py),   *)
(* and its attached sources (application/sources.py).  Requests to the API *)
(* are handled beside each other, at the database's READ COMMITTED.        *)
(***************************************************************************)
EXTENDS Naturals, FiniteSets

CONSTANTS
  Clients, None,
  Crons, Zones,
  Created,      \* the schedule in the request that created the monitor
  Edits,        \* the update requests that are made; None: field not given
  Keys,         \* source_name and instance_key of a source
  MaxCalls      \* bound: requests

MonitorStatus == {"active", "paused", "archived"}
MonitorRows == [status : MonitorStatus, cron : Crons, zone : Zones]
EditRequests == [status : MonitorStatus \cup {None}, cron : Crons \cup {None}, zone : Zones \cup {None}]

ASSUME MonitorsAssumption ==
  /\ None \notin MonitorStatus \cup Crons \cup Zones \cup Nat
  /\ None \notin [id : Nat, cron : Crons, zone : Zones]
  /\ Created \in [cron : Crons, zone : Zones]
  /\ Edits \subseteq EditRequests
  /\ MaxCalls \in Nat

VARIABLES
  monitor,       \* the Monitor row
  registration,  \* its ScheduleRegistration row, or None
  inserted,      \* registrations inserted so far: the next one's id
  projected,     \* Beat's entry for the monitor, or None
  source,        \* attached sources: key |-> enabled
  call,          \* each client's request
  calls,         \* auxiliary: requests so far
  raced          \* auxiliary: an update overlapped one that it could not see

monitorVars == <<monitor, registration, inserted, projected, raced>>

Registrations == [id : 0 .. MaxCalls, cron : Crons, zone : Zones]
Idle == [op |-> "idle"]
LoadCalls == [op : {"load"}, edit : Edits, monitor : MonitorRows]
WriteCalls == [op : {"write"}, edit : Edits, monitor : MonitorRows,
               registration : Registrations \cup {None}, torn : BOOLEAN]

MonitorsTypeOK ==
  /\ monitor \in MonitorRows
  /\ registration \in Registrations \cup {None}
  /\ inserted \in 0 .. MaxCalls
  /\ projected \in [cron : Crons, zone : Zones] \cup {None}
  /\ DOMAIN source \subseteq Keys /\ \A k \in DOMAIN source : source[k] \in BOOLEAN
  /\ calls \in 0 .. MaxCalls /\ raced \in BOOLEAN

\* create: monitor and registration in one transaction.
MonitorsInit ==
  /\ monitor = [status |-> "active", cron |-> Created.cron, zone |-> Created.zone]
  /\ registration = [id |-> 0, cron |-> Created.cron, zone |-> Created.zone]
  /\ inserted = 0 /\ projected = None
  /\ source = [k \in {} |-> TRUE]
  /\ call = [c \in Clients |-> Idle] /\ calls = 0 /\ raced = FALSE

\* A client makes its next request.
Request(c, record) ==
  /\ call[c] = Idle /\ calls < MaxCalls
  /\ calls' = calls + 1
  /\ call' = [call EXCEPT ![c] = record]

Answer(c) == call' = [call EXCEPT ![c] = Idle]

-----------------------------------------------------------------------------
(* MonitorService.update.  get loads the monitor's row, and its            *)
(* registration with a second query.                                       *)
Load(c, edit) ==
  /\ Request(c, [op |-> "load", edit |-> edit, monitor |-> monitor])
  /\ UNCHANGED <<monitorVars, source>>

LoadRegistration(c) ==
  /\ call[c].op = "load"
  /\ call' = [call EXCEPT ![c] =
       [op |-> "write", edit |-> @.edit, monitor |-> @.monitor,
        registration |-> registration, torn |-> monitor # @.monitor]]
  /\ UNCHANGED <<monitorVars, source, calls>>

\* What the session flushes of a row: the columns it set to another value
\* than the one it had loaded.
Flushed(row, loaded, set) ==
  [f \in DOMAIN row |-> IF f \in DOMAIN set /\ set[f] # loaded[f] THEN set[f] ELSE row[f]]

\* upsert_active selects the registration again; a row that was loaded before
\* keeps its loaded columns in the session.
Upserted(loaded, cron, zone) ==
  IF registration = None
  THEN [id |-> inserted + 1, cron |-> cron, zone |-> zone]
  ELSE Flushed(registration,
               IF loaded # None /\ loaded.id = registration.id THEN loaded ELSE registration,
               [cron |-> cron, zone |-> zone])

\* Mutant: resuming leaves the registration to a later edit.
WriteStatusOnly(c) ==
  LET old == call[c].monitor
      new == [f \in DOMAIN old |-> IF call[c].edit[f] = None THEN old[f] ELSE call[c].edit[f]]
  IN /\ call[c].op = "write"
     /\ monitor' = Flushed(monitor, old, new)
     /\ registration' = IF new.status # "active" THEN None ELSE registration
     /\ raced' = (raced \/ call[c].torn \/ call[c].registration # registration)
     /\ Answer(c)
     /\ UNCHANGED <<inserted, projected, source, calls>>

\* The update of the monitor's row locks it, so what follows up to the commit
\* is one step; an update without a changed column writes, if anything, a
\* registration that was missing.
Write(c) ==
  LET old == call[c].monitor
      new == [f \in DOMAIN old |-> IF call[c].edit[f] = None THEN old[f] ELSE call[c].edit[f]]
      loaded == call[c].registration
      Id(r) == IF r = None THEN None ELSE r.id
  IN /\ call[c].op = "write"
     /\ monitor' = Flushed(monitor, old, new)
     /\ IF new.status = "active"
        THEN /\ registration' = Upserted(loaded, new.cron, new.zone)
             /\ inserted' = IF registration = None THEN inserted + 1 ELSE inserted
        ELSE registration' = None /\ UNCHANGED inserted
     /\ raced' = (raced \/ call[c].torn \/ Id(loaded) # Id(registration)
                        \/ (registration = None /\ registration' # None /\ monitor # old))
     /\ Answer(c)
     /\ UNCHANGED <<projected, source, calls>>

-----------------------------------------------------------------------------
(* MonitorSourceService: uq_monitor_sources_identity refuses a second one. *)
WithSource(k) == [x \in DOMAIN source \cup {k} |-> IF x = k THEN TRUE ELSE source[x]]

Attach(c, k) ==
  /\ Request(c, Idle)
  /\ source' = IF k \in DOMAIN source THEN source ELSE WithSource(k)
  /\ UNCHANGED monitorVars

Enable(c, k, enabled) ==
  /\ Request(c, Idle)
  /\ k \in DOMAIN source /\ source' = [source EXCEPT ![k] = enabled]
  /\ UNCHANGED monitorVars

-----------------------------------------------------------------------------
(* SchedulePlanner.project: the registrations of active monitors.          *)
Projection ==
  IF registration # None /\ monitor.status = "active"
  THEN [cron |-> registration.cron, zone |-> registration.zone] ELSE None

\* Mutant: entries are added and updated, never dropped.
TickKeepsEntry ==
  /\ projected' = IF Projection = None THEN projected ELSE Projection
  /\ UNCHANGED <<monitor, registration, inserted, raced, source, call, calls>>

Tick ==
  /\ projected' = Projection
  /\ UNCHANGED <<monitor, registration, inserted, raced, source, call, calls>>

MonitorsNext ==
  \/ Tick
  \/ \E c \in Clients :
       \/ LoadRegistration(c) \/ Write(c)
       \/ \E e \in Edits : Load(c, e)
       \/ \E k \in Keys : Attach(c, k) \/ \E enabled \in BOOLEAN : Enable(c, k, enabled)

-----------------------------------------------------------------------------
(* Properties.                                                             *)

\* A monitor has a registration exactly when it is active, with the monitor's
\* own schedule.  Updates of different fields may overlap; only one that did
\* not see a registration come or go, that inserts one from a monitor's row
\* that has changed, or that read the two rows from different moments, may
\* break this.  (application/monitors.py:73-101)
RegistrationFollows ==
  raced \/ IF monitor.status = "active"
           THEN /\ registration # None
                /\ registration.cron = monitor.cron /\ registration.zone = monitor.zone
           ELSE registration = None

\* When the edits are over, Beat fires an active monitor by its schedule and
\* a paused one not at all.  (beat.py:147-158)
BeatCatchesUp ==
  <>[](raced \/ projected = IF monitor.status = "active"
                            THEN [cron |-> monitor.cron, zone |-> monitor.zone] ELSE None)
=============================================================================
