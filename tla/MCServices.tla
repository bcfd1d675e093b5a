------------------------------- MODULE MCServices -------------------------------
(***************************************************************************)
(* The services around the dispatch share no state with one another.  They *)
(* are checked side by side: `part` says which of them runs.               *)
(***************************************************************************)
EXTENDS CommittedEvents, FinishSubscriptions, Schedules, DirectorySync

VARIABLE part

servicesVars == <<eventVars, finishVars, scheduleVars, directoryVars, part>>

FirstPlan == [status |-> "active", next |-> 1, cadence |-> 1, max |-> 1, expires |-> 0]

ServicesInit ==
  /\ part \in {"events", "finish", "messages", "schedules", "directory"}
  /\ EventsInit /\ FinishInit /\ SchedulesInit /\ DirectoryInit
  /\ part # "schedules" => plan = FirstPlan
  /\ part # "finish" => ~remote

EventsPart ==
  part = "events" /\ EventsNext /\ UNCHANGED <<finishVars, scheduleVars, directoryVars, part>>
FinishPart ==
  part = "finish" /\ FinishNext /\ UNCHANGED <<eventVars, scheduleVars, directoryVars, part>>
MessagesPart ==
  /\ part = "messages"
  /\ MessagesNext
  /\ UNCHANGED <<store, watches, closed, world, owed, troubles>>
  /\ UNCHANGED <<eventVars, scheduleVars, directoryVars, part>>
SchedulesPart ==
  part = "schedules" /\ SchedulesNext /\ UNCHANGED <<eventVars, finishVars, directoryVars, part>>
DirectoryPart ==
  part = "directory" /\ DirectoryNext /\ UNCHANGED <<eventVars, finishVars, scheduleVars, part>>

ServicesNext == EventsPart \/ FinishPart \/ MessagesPart \/ SchedulesPart \/ DirectoryPart

\* Nothing that is fair can happen in a part that does not run.
ServicesSpec ==
  /\ ServicesInit /\ [][ServicesNext]_servicesVars
  /\ EventsFairness /\ FinishFairness

\* Each component's variables keep their shape.
ServicesTypeOK == EventsTypeOK /\ FinishTypeOK /\ SchedulesTypeOK /\ DirectoryTypeOK
=============================================================================
