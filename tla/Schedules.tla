------------------------------- MODULE Schedules -------------------------------
(***************************************************************************)
(* One schedule: its stored record, the ticks that act on lists they read  *)
(* earlier, the run that is under way, and the edits, crashes and lost     *)
(* writes beside them.  Every change of the record is one serialized       *)
(* update of the store.  A slot is the moment it is due; 0 stands for no   *)
(* next slot, no limit and no expiry.                                      *)
(***************************************************************************)
EXTENDS Naturals, Sequences, FiniteSets

CONSTANTS
  Cadences,   \* intervals between slots
  Limits,     \* run limits, 0 for none
  Expiries,   \* moments of expiry, 0 for none
  Ticks,      \* ticks that overlap: a tick waits for the runs it starts
  MaxTime,    \* bound: moments
  MaxRuns,    \* bound: runs
  MaxEdits,   \* bound: edits, one-shot runs and the loss of the target
  MaxMishaps  \* bound: crashes and lost writes

ASSUME SchedulesAssumption ==
  /\ Cadences \subseteq Nat \ {0} /\ Limits \subseteq Nat /\ Expiries \subseteq Nat
  /\ {MaxTime, MaxRuns, MaxEdits, MaxMishaps} \subseteq Nat /\ MaxTime # 0

VARIABLES
  now,
  plan,      \* the stored schedule, without its runs
  runs,      \* its runs
  target,    \* the agent it is for exists
  list,      \* what the list of each tick asks, and when it was read
  held,      \* the run the service reserved the schedule for
  limit,     \* the largest limit the schedule ever had
  unsaved,   \* outcomes that could not be saved
  crashes, edits

scheduleVars == <<now, plan, runs, target, list, held, limit, unsaved, crashes, edits>>

Statuses == {"active", "paused", "completed", "deleted"}
Plans == [status : Statuses, next : Nat, cadence : Cadences, max : Limits, expires : Expiries]

NoList == [asks |-> "nothing", at |-> 0]
NotHeld == [pc |-> "none", manual |-> FALSE, at |-> 0]

SchedulesInit ==
  /\ now = 1
  /\ plan \in {[status |-> "active", next |-> n, cadence |-> c, max |-> m, expires |-> e] :
                 n \in {1, 2}, c \in Cadences, m \in Limits, e \in Expiries}
  /\ runs = <<>>
  /\ target = TRUE
  /\ list = [t \in Ticks |-> NoList]
  /\ held = NotHeld
  /\ limit = plan.max
  /\ unsaved = 0 /\ crashes = 0 /\ edits = 0

Ended(rs) == Cardinality({i \in DOMAIN rs : rs[i].status # "running"})

\* A schedule is over when it expired or when enough of its runs ended.
ShouldComplete(p, rs, at) ==
  \/ p.expires # 0 /\ p.expires <= at
  \/ p.max # 0 /\ Ended(rs) >= p.max

Completed(p) == [p EXCEPT !.status = "completed", !.next = 0]

\* The first slot after t that is not yet due.
AdvancePast(c, t, at) == IF t > at THEN t ELSE t + c * ((at - t) \div c + 1)

-----------------------------------------------------------------------------
(* Ticks *)

\* What a record asks of a tick.
Asks(p, rs, at) ==
  IF p.status # "active" \/ p.next = 0 THEN "nothing"
  ELSE IF ShouldComplete(p, rs, at) THEN "end"
  ELSE IF p.next <= at THEN "run" ELSE "nothing"

\* A tick lists the schedules; the runs of others may keep it before it comes to this one.
TickLists(t) ==
  /\ list[t] = NoList
  /\ Asks(plan, runs, now) # "nothing"
  /\ list' = [list EXCEPT ![t] = [asks |-> Asks(plan, runs, now), at |-> now]]
  /\ UNCHANGED <<now, plan, runs, target, held, limit, unsaved, crashes, edits>>

\* It passes a schedule that runs.  It completes one that its list says is over, if it still is, and
\* reserves one that its list says is due.
TickVisits(t) ==
  LET seen == list[t] IN
  /\ seen # NoList
  /\ list' = [list EXCEPT ![t] = NoList]
  /\ \/ held.pc # "none" /\ UNCHANGED <<plan, held>>
     \/ /\ held.pc = "none" /\ seen.asks = "end"
        /\ plan' = IF Asks(plan, runs, seen.at) = "end" THEN Completed(plan) ELSE plan
        /\ UNCHANGED held
     \/ /\ held.pc = "none" /\ seen.asks = "run"
        /\ held' = [pc |-> "claim", manual |-> FALSE, at |-> seen.at]
        /\ UNCHANGED plan
  /\ UNCHANGED <<now, runs, target, limit, unsaved, crashes, edits>>

Begin(slot) ==
  runs' = Append(runs, [slot |-> slot, at |-> held.at, manual |-> held.manual, status |-> "running"])

\* Slip: a claim leaves it to the end of the run to advance the slot.
ClaimOnly ==
  /\ held.pc = "claim" /\ Len(runs) < MaxRuns
  /\ IF Asks(plan, runs, held.at) = "run"
     THEN Begin(plan.next) /\ held' = [held EXCEPT !.pc = "run"]
     ELSE held' = NotHeld /\ UNCHANGED runs
  /\ UNCHANGED <<now, plan, target, list, limit, unsaved, crashes, edits>>

\* The claim looks again at what is stored; it takes the slot and advances to the next in one update.
\* The last run that the limit allows has no next slot.
ClaimDueRun ==
  /\ held.pc = "claim" /\ Len(runs) < MaxRuns
  /\ IF Asks(plan, runs, held.at) = "run"
     THEN /\ Begin(plan.next)
          /\ plan' = [plan EXCEPT !.next =
               IF plan.max # 0 /\ Ended(runs) + 1 >= plan.max THEN 0
               ELSE AdvancePast(plan.cadence, plan.next + plan.cadence, held.at)]
          /\ held' = [held EXCEPT !.pc = "run"]
     ELSE held' = NotHeld /\ UNCHANGED <<plan, runs>>
  /\ UNCHANGED <<now, target, list, limit, unsaved, crashes, edits>>

Edit == edits < MaxEdits /\ edits' = edits + 1

\* A one-shot run takes the same reservation, ...
RunOnce ==
  /\ Edit
  /\ plan.status \notin {"completed", "deleted"}
  /\ held.pc = "none"
  /\ held' = [pc |-> "append", manual |-> TRUE, at |-> now]
  /\ UNCHANGED <<now, plan, runs, target, list, limit, unsaved, crashes>>

\* ... and begins whatever became of the schedule meanwhile, unless it was deleted.
AppendRunningRun ==
  /\ held.pc = "append" /\ Len(runs) < MaxRuns
  /\ IF plan.status = "deleted"
     THEN held' = NotHeld /\ UNCHANGED runs
     ELSE Begin(held.at) /\ held' = [held EXCEPT !.pc = "run"]
  /\ UNCHANGED <<now, plan, target, list, limit, unsaved, crashes, edits>>

Running == Len(runs)
EndRun == runs' = [runs EXCEPT ![Running].status = "ended"]

\* Slip: a final slot keeps having no successor, although the limit was raised meanwhile.
FinishAtLimit ==
  /\ held.pc = "run"
  /\ held' = NotHeld
  /\ IF plan.status = "deleted"
     THEN UNCHANGED <<plan, runs>>
     ELSE /\ EndRun
          /\ \E gone \in {FALSE, ~target} : plan' =
               IF gone THEN Completed(plan)
               ELSE IF plan.status = "completed" \/ held.manual \/ plan.next = 0 THEN plan
               ELSE IF ShouldComplete(plan, runs', now) THEN Completed(plan)
               ELSE [plan EXCEPT !.next = AdvancePast(plan.cadence, plan.next, now)]
  /\ UNCHANGED <<now, target, list, limit, unsaved, crashes, edits>>

\* The outcome is recorded.  A schedule whose target the run found gone is over; one that was
\* completed stays so; a one-shot run changes nothing else; a paused one keeps no slot; any other goes on.
FinishRun ==
  /\ held.pc = "run"
  /\ held' = NotHeld
  /\ IF plan.status = "deleted"
     THEN UNCHANGED <<plan, runs>>
     ELSE /\ EndRun
          /\ \E gone \in {FALSE, ~target} : plan' =
               IF gone THEN Completed(plan)
               ELSE IF plan.status = "completed" \/ held.manual THEN plan
               ELSE IF ShouldComplete(plan, runs', now) THEN Completed(plan)
               ELSE IF plan.status = "paused" THEN [plan EXCEPT !.next = 0]
               ELSE [plan EXCEPT !.next = AdvancePast(plan.cadence,
                       IF plan.next # 0 THEN plan.next ELSE runs[Running].slot + plan.cadence, now)]
  /\ UNCHANGED <<now, target, list, limit, unsaved, crashes, edits>>

Mishap == crashes + unsaved < MaxMishaps

\* The outcome cannot be saved: the run keeps looking as if it ran.
OutcomeUnsaved ==
  /\ Mishap
  /\ held.pc = "run"
  /\ held' = NotHeld
  /\ unsaved' = unsaved + 1
  /\ UNCHANGED <<now, plan, runs, target, list, limit, crashes, edits>>

-----------------------------------------------------------------------------
(* Edits *)

Editable == plan.status \notin {"completed", "deleted"}
Others == <<now, runs, target, list, held, unsaved, crashes>>

Pause ==
  /\ Edit /\ Editable /\ plan.status = "active"
  /\ plan' = [plan EXCEPT !.status = "paused", !.next = 0]
  /\ UNCHANGED <<Others, limit>>

Resume ==
  /\ Editable /\ plan.status = "paused"
  /\ plan' = [plan EXCEPT !.status = "active", !.next = now + plan.cadence]
  /\ UNCHANGED <<Others, limit, edits>>

Larger(m) == IF limit = 0 \/ m = 0 THEN 0 ELSE IF m > limit THEN m ELSE limit

\* An update that names no cadence leaves the slot as it is; it also reaches a completed schedule.
UpdateCadence(c) ==
  /\ Edit /\ plan.status # "deleted"
  /\ plan' = [plan EXCEPT !.cadence = c, !.next = IF plan.status = "active" THEN now + c ELSE 0]
  /\ UNCHANGED <<Others, limit>>

UpdateLimits(m, e) ==
  /\ Edit /\ plan.status # "deleted"
  /\ plan' = [plan EXCEPT !.max = m, !.expires = e]
  /\ limit' = Larger(m)
  /\ UNCHANGED Others

\* Creating it again refreshes it, due now or one interval later.  No two things happen at one moment.
Replace(c, m, e) ==
  /\ Edit /\ Editable
  /\ \E next \in {now, now + c} :
       /\ \A i \in DOMAIN runs : runs[i].slot < next
       /\ plan' = [status |-> "active", next |-> next, cadence |-> c, max |-> m, expires |-> e]
  /\ limit' = Larger(m)
  /\ UNCHANGED Others

Delete ==
  /\ plan.status # "deleted"
  /\ plan' = [plan EXCEPT !.status = "deleted", !.next = 0]
  /\ UNCHANGED <<Others, limit, edits>>

\* The target is archived or deleted; its schedules are completed after that.
TargetGone ==
  /\ Edit
  /\ target /\ target' = FALSE
  /\ UNCHANGED <<now, plan, runs, list, held, limit, unsaved, crashes>>

CompleteForAgent ==
  /\ ~target /\ plan.status \notin {"completed", "deleted"}
  /\ plan' = Completed(plan)
  /\ UNCHANGED <<Others, limit, edits>>

-----------------------------------------------------------------------------
(* Time and restarts *)

Tock ==
  /\ now < MaxTime
  /\ now' = now + 1
  /\ UNCHANGED <<plan, runs, target, list, held, limit, unsaved, crashes, edits>>

FirstRunning == {i \in DOMAIN runs : runs[i].status = "running"
                                     /\ \A j \in 1..(i - 1) : runs[j].status # "running"}

\* Slip: recovery drops the interrupted run.
RecoverForgetting ==
  /\ Mishap
  /\ crashes' = crashes + 1
  /\ runs' = [i \in DOMAIN runs |->
       IF i \in FirstRunning THEN [runs[i] EXCEPT !.status = "running"] ELSE runs[i]]
  /\ plan' = IF plan.status = "active" /\ plan.next # 0 /\ plan.next <= now
             THEN [plan EXCEPT !.next = AdvancePast(plan.cadence, plan.next + plan.cadence, now)]
             ELSE plan
  /\ held' = NotHeld
  /\ list' = [t \in Ticks |-> NoList]
  /\ UNCHANGED <<now, target, limit, unsaved, edits>>

\* A restarted daemon marks the first run it finds running as failed, completes the schedule if that
\* ends it or its target is gone, and skips slots that were missed.
RecoverInterrupted ==
  /\ Mishap
  /\ crashes' = crashes + 1
  /\ runs' = IF plan.status = "deleted" THEN runs ELSE
       [i \in DOMAIN runs |-> IF i \in FirstRunning THEN [runs[i] EXCEPT !.status = "ended"] ELSE runs[i]]
  /\ plan' = IF plan.status = "deleted" THEN plan
             ELSE IF \/ FirstRunning # {} /\ ShouldComplete(plan, runs', now)
                     \/ ~target /\ plan.status # "completed" THEN Completed(plan)
             ELSE IF plan.status = "active" /\ plan.next # 0 /\ plan.next <= now
             THEN [plan EXCEPT !.next = AdvancePast(plan.cadence, plan.next + plan.cadence, now)]
             ELSE plan
  /\ held' = NotHeld
  /\ list' = [t \in Ticks |-> NoList]
  /\ UNCHANGED <<now, target, limit, unsaved, edits>>

SchedulesNext ==
  \/ \E t \in Ticks : TickLists(t) \/ TickVisits(t)
  \/ ClaimDueRun \/ RunOnce \/ AppendRunningRun \/ FinishRun \/ OutcomeUnsaved
  \/ Pause \/ Resume \/ Delete \/ TargetGone \/ CompleteForAgent
  \/ \E c \in Cadences : UpdateCadence(c)
  \/ \E m \in Limits, e \in Expiries : UpdateLimits(m, e)
  \/ \E c \in Cadences, m \in Limits, e \in Expiries : Replace(c, m, e)
  \/ Tock \/ RecoverInterrupted

SchedulesSpec == SchedulesInit /\ [][SchedulesNext]_scheduleVars

-----------------------------------------------------------------------------
(* Properties *)

\* The records keep their shape, and the run under way is the last one begun.
SchedulesTypeOK ==
  /\ now \in 1..MaxTime
  /\ plan \in Plans
  /\ runs \in Seq([slot : Nat, at : Nat, manual : BOOLEAN, status : {"running", "ended"}])
  /\ Len(runs) <= MaxRuns
  /\ list \in [Ticks -> [asks : {"nothing", "end", "run"}, at : Nat]]
  /\ held.pc \in {"none", "claim", "append", "run"}
  /\ held.pc = "run" /\ plan.status # "deleted" =>
       runs # <<>> /\ runs[Len(runs)].status = "running" /\ runs[Len(runs)].manual = held.manual
  /\ limit \in Limits

\* Every slot is run at most once, in order and not before it is due, whatever lists the ticks hold.
SlotOnce ==
  LET scheduled == {i \in DOMAIN runs : ~runs[i].manual} IN
  /\ \A i \in scheduled : runs[i].slot <= runs[i].at
  /\ \A i, j \in scheduled : i < j => runs[i].slot < runs[j].slot

\* As long as outcomes can be saved, no more slots are run than the largest limit the schedule had,
\* across restarts.
WithinLimit ==
  limit # 0 /\ unsaved = 0 => Cardinality({i \in DOMAIN runs : ~runs[i].manual}) <= limit

\* A schedule that is paused or over has no next slot, whatever run ends later; one that is active
\* has one, or a run under way that will give it one or end it.  A crash or an outcome that could not
\* be saved during the run of a final slot whose limit was raised leaves an active schedule with no
\* slot, for good.
NextSlot ==
  /\ plan.status # "active" => plan.next = 0
  /\ plan.status = "active" /\ crashes + unsaved = 0 =>
       plan.next # 0 \/ (held.pc = "run" /\ ~held.manual)
=============================================================================
