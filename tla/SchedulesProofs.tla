---------------------------- MODULE SchedulesProofs ----------------------------
(***************************************************************************)
(* What Schedules promises for every set of cadences, limits, expiries and *)
(* ticks: the stored record keeps its shape, no slot is run twice, limits  *)
(* hold, and an active schedule has a next slot.                           *)
(***************************************************************************)
EXTENDS Schedules, SequenceTheorems, FiniteSetTheorems, TLAPS

RunRecords == [slot : Nat, at : Nat, manual : BOOLEAN, status : {"running", "ended"}]
HeldRecords == [pc : {"none", "claim", "append", "run"}, manual : BOOLEAN, at : Nat]
Lists == [asks : {"nothing", "end", "run"}, at : Nat]

\* The run under way is the last one begun.
RunLast ==
  held.pc = "run" /\ plan.status # "deleted" =>
    runs # <<>> /\ runs[Len(runs)].status = "running" /\ runs[Len(runs)].manual = held.manual

\* Only a one-shot run begins without a claim.
Reserved == held \in HeldRecords /\ (held.pc = "append" => held.manual)

\* A reservation and a list are not of a later moment.
Past == held.at <= now /\ \A t \in Ticks : list[t].at <= now

\* Every run was due when it began.
Due == \A i \in DOMAIN runs : runs[i].slot <= runs[i].at /\ runs[i].at <= now

\* Scheduled slots are run in order.
Ordered ==
  \A i, j \in DOMAIN runs :
    i < j /\ ~runs[i].manual /\ ~runs[j].manual => runs[i].slot < runs[j].slot

\* The next slot comes after all of them.
Ahead == plan.next # 0 => \A i \in DOMAIN runs : ~runs[i].manual => runs[i].slot < plan.next

ScheduleInv ==
  /\ SchedulesTypeOK
  /\ Reserved /\ Past /\ Due /\ Ordered /\ Ahead

-----------------------------------------------------------------------------

\* Whatever moment a slot is advanced past, the result is not before the slot.
LEMMA AdvanceLater ==
  ASSUME NEW c \in Nat \ {0}, NEW t \in Nat, NEW at \in Nat
  PROVE  AdvancePast(c, t, at) \in Nat /\ t <= AdvancePast(c, t, at)
<1>1. CASE t > at
  BY <1>1 DEF AdvancePast
<1>2. CASE t <= at
  <2> DEFINE k == (at - t) \div c
  <2>1. k \in Nat
    BY <1>2
  <2>2. AdvancePast(c, t, at) = t + c * (k + 1)
    BY <1>2 DEF AdvancePast
  <2> HIDE DEF k
  <2>3. c * (k + 1) \in Nat
    BY <2>1
  <2> QED BY <2>2, <2>3
<1> QED BY <1>1, <1>2

LEMMA PlanTyped ==
  ASSUME SchedulesTypeOK
  PROVE  /\ plan = [status |-> plan.status, next |-> plan.next, cadence |-> plan.cadence,
                    max |-> plan.max, expires |-> plan.expires]
         /\ plan.status \in Statuses /\ plan.next \in Nat /\ plan.cadence \in Nat \ {0}
         /\ plan.cadence \in Cadences /\ plan.max \in Limits /\ plan.expires \in Expiries
         /\ now \in Nat /\ now # 0 /\ runs \in Seq(RunRecords)
<1>1. plan \in Plans /\ runs \in Seq(RunRecords)
  BY DEF SchedulesTypeOK, RunRecords
<1>2. plan.cadence \in Nat \ {0}
  BY <1>1, SchedulesAssumption DEF Plans
<1>3. now \in Nat /\ now # 0
  BY SchedulesAssumption DEF SchedulesTypeOK
<1> QED BY <1>1, <1>2, <1>3 DEF Plans

\* A run is appended to the record.
LEMMA BeginAppends ==
  ASSUME ScheduleInv, NEW slot \in Nat, Begin(slot), Len(runs) < MaxRuns
  PROVE  LET r == [slot |-> slot, at |-> held.at, manual |-> held.manual, status |-> "running"] IN
         /\ r \in RunRecords
         /\ runs' \in Seq(RunRecords) /\ Len(runs') = Len(runs) + 1 /\ Len(runs') <= MaxRuns
         /\ runs' # <<>> /\ runs'[Len(runs')] = r
         /\ DOMAIN runs' = 1..Len(runs) + 1 /\ DOMAIN runs = 1..Len(runs)
         /\ \A i \in DOMAIN runs : runs'[i] = runs[i]
<1> DEFINE r == [slot |-> slot, at |-> held.at, manual |-> held.manual, status |-> "running"]
<1>1. r \in RunRecords
  BY DEF ScheduleInv, Reserved, HeldRecords, RunRecords
<1>2. runs \in Seq(RunRecords) /\ MaxRuns \in Nat
  BY SchedulesAssumption DEF ScheduleInv, SchedulesTypeOK, RunRecords
<1>3. runs' = Append(runs, r)
  BY DEF Begin
<1> HIDE DEF r
<1>4. runs' \in Seq(RunRecords) /\ Len(runs') = Len(runs) + 1 /\ runs'[Len(runs) + 1] = r
      /\ \A i \in 1..Len(runs) : runs'[i] = runs[i]
  BY <1>1, <1>2, <1>3
<1>5. Len(runs') <= MaxRuns /\ runs' # <<>> /\ DOMAIN runs' = 1..Len(runs) + 1 /\ DOMAIN runs = 1..Len(runs)
  BY <1>2, <1>4
<1> QED BY <1>1, <1>4, <1>5 DEF r

\* Ending runs changes nothing but their status.
LEMMA RunsEnded ==
  ASSUME ScheduleInv, NEW S \in SUBSET DOMAIN runs,
         runs' = [i \in DOMAIN runs |-> IF i \in S THEN [runs[i] EXCEPT !.status = "ended"] ELSE runs[i]]
  PROVE  /\ runs' \in Seq(RunRecords) /\ Len(runs') = Len(runs) /\ DOMAIN runs' = DOMAIN runs
         /\ \A i \in DOMAIN runs : /\ runs'[i].slot = runs[i].slot /\ runs'[i].at = runs[i].at
                                   /\ runs'[i].manual = runs[i].manual
<1>1. runs \in Seq(RunRecords)
  BY DEF ScheduleInv, SchedulesTypeOK, RunRecords
<1>2. \A i \in DOMAIN runs : runs[i] \in RunRecords /\ runs'[i] \in RunRecords
                              /\ runs'[i].slot = runs[i].slot /\ runs'[i].at = runs[i].at
                              /\ runs'[i].manual = runs[i].manual
  <2> TAKE i \in DOMAIN runs
  <2>1. runs[i] \in RunRecords
    BY <1>1
  <2> QED BY <2>1 DEF RunRecords
<1>3. DOMAIN runs' = 1..Len(runs) /\ Len(runs) \in Nat /\ DOMAIN runs = 1..Len(runs)
  BY <1>1
<1>4. runs' = [i \in 1..Len(runs) |-> runs'[i]]
  BY <1>3
<1>5. runs' \in Seq(RunRecords) /\ Len(runs') = Len(runs)
  BY <1>2, <1>3, <1>4
<1> QED BY <1>2, <1>3, <1>5

\* With the same runs, a plan whose next slot is not before the old one, or not before this moment
\* and past it, stays ahead of its runs.
LEMMA AheadKept ==
  ASSUME ScheduleInv, NEW next \in Nat, next = 0 \/ (plan.next # 0 /\ plan.next <= next) \/ now < next
  PROVE  next # 0 => \A i \in DOMAIN runs : ~runs[i].manual => runs[i].slot < next
<1> SUFFICES ASSUME next # 0, NEW i \in DOMAIN runs, ~runs[i].manual PROVE runs[i].slot < next
  OBVIOUS
<1>1. runs[i] \in RunRecords
  BY PlanTyped DEF ScheduleInv
<1>2. runs[i].slot \in Nat /\ runs[i].at \in Nat /\ plan.next \in Nat /\ now \in Nat
  BY <1>1, PlanTyped DEF ScheduleInv, RunRecords
<1>3. runs[i].slot <= runs[i].at /\ runs[i].at <= now
  BY DEF ScheduleInv, Due
<1>4. plan.next # 0 => runs[i].slot < plan.next
  BY DEF ScheduleInv, Ahead
<1> QED BY <1>2, <1>3, <1>4

-----------------------------------------------------------------------------
(* Steps *)

LEMMA InvInit == SchedulesInit => ScheduleInv
<1> SUFFICES ASSUME SchedulesInit PROVE ScheduleInv
  OBVIOUS
<1>1. plan \in Plans /\ runs = <<>> /\ now = 1 /\ limit = plan.max
  BY DEF SchedulesInit, Plans, Statuses
<1>2. list \in [Ticks -> Lists] /\ held \in HeldRecords /\ held.pc = "none" /\ Past
  BY DEF SchedulesInit, NoList, NotHeld, Lists, HeldRecords, Past
<1>3. runs \in Seq(RunRecords) /\ Len(runs) <= MaxRuns /\ DOMAIN runs = {}
  BY <1>1, SchedulesAssumption
<1>4. now \in 1..MaxTime /\ limit \in Limits
  BY <1>1, SchedulesAssumption DEF Plans
<1>5. SchedulesTypeOK
  BY <1>1, <1>2, <1>3, <1>4 DEF SchedulesTypeOK, Lists, RunRecords
<1> QED BY <1>2, <1>3, <1>5 DEF ScheduleInv, Reserved, Due, Ordered, Ahead

\* What an action has to show when it leaves the runs alone.
LEMMA SameRuns ==
  ASSUME ScheduleInv, UNCHANGED runs, now' \in 1..MaxTime, now <= now',
         plan' \in Plans, limit' \in Limits,
         list' \in [Ticks -> Lists], Reserved', Past',
         \/ held'.pc # "run"
         \/ UNCHANGED held /\ (plan.status = "deleted" => plan'.status = "deleted"),
         Ahead'
  PROVE  ScheduleInv'
<1>1. runs \in Seq(RunRecords) /\ now \in Nat /\ now' \in Nat
  BY PlanTyped, SchedulesAssumption DEF ScheduleInv
<1>2. SchedulesTypeOK'
  <2>1. RunLast'
    BY DEF ScheduleInv, SchedulesTypeOK, RunLast
  <2> QED BY <1>1, <2>1 DEF ScheduleInv, Reserved, SchedulesTypeOK, RunLast, RunRecords, HeldRecords, Lists
<1>3. Due'
  <2> SUFFICES ASSUME NEW i \in DOMAIN runs PROVE runs[i].slot <= runs[i].at /\ runs[i].at <= now'
    BY DEF Due
  <2>1. runs[i] \in RunRecords
    BY <1>1
  <2>2. runs[i].at \in Nat
    BY <2>1 DEF RunRecords
  <2> QED BY <1>1, <2>2 DEF ScheduleInv, Due
<1>4. Ordered'
  BY DEF ScheduleInv, Ordered
<1> QED BY <1>2, <1>3, <1>4 DEF ScheduleInv

\* What an action has to show that ends runs and begins none.
LEMMA EndedRuns ==
  ASSUME ScheduleInv, UNCHANGED <<now, limit>>, NEW S \in SUBSET DOMAIN runs,
         runs' = [i \in DOMAIN runs |-> IF i \in S THEN [runs[i] EXCEPT !.status = "ended"] ELSE runs[i]],
         plan' \in Plans, list' \in [Ticks -> Lists], held' = NotHeld, Past',
         plan'.next # 0 => \A i \in DOMAIN runs : ~runs[i].manual => runs[i].slot < plan'.next
  PROVE  ScheduleInv'
<1>1. /\ runs' \in Seq(RunRecords) /\ Len(runs') = Len(runs) /\ DOMAIN runs' = DOMAIN runs
      /\ \A i \in DOMAIN runs : /\ runs'[i].slot = runs[i].slot /\ runs'[i].at = runs[i].at
                                /\ runs'[i].manual = runs[i].manual
  BY RunsEnded
<1>2. held' \in HeldRecords /\ held'.pc = "none"
  BY DEF NotHeld, HeldRecords
<1>3. SchedulesTypeOK'
  BY <1>1, <1>2 DEF ScheduleInv, SchedulesTypeOK, RunRecords, Lists
<1>4. Ahead'
  BY <1>1 DEF Ahead
<1>5. Due' /\ Ordered'
  BY <1>1 DEF ScheduleInv, Due, Ordered
<1> QED BY <1>2, <1>3, <1>4, <1>5 DEF ScheduleInv, Reserved

\* What an action has to show that begins a run: a scheduled one takes the plan's slot, and the plan
\* goes on behind it.
LEMMA BegunRun ==
  ASSUME ScheduleInv, NEW slot \in Nat, Begin(slot), Len(runs) < MaxRuns, slot <= held.at,
         UNCHANGED <<now, list, limit>>, held' = [held EXCEPT !.pc = "run"],
         plan' \in Plans, plan'.next = 0 \/ (plan.next # 0 /\ plan.next <= plan'.next),
         held.manual \/ (slot = plan.next /\ slot # 0 /\ (plan'.next # 0 => slot < plan'.next))
  PROVE  ScheduleInv'
<1> DEFINE last == Len(runs')
<1>1. /\ runs' \in Seq(RunRecords) /\ Len(runs') = Len(runs) + 1 /\ Len(runs') <= MaxRuns
      /\ runs' # <<>> /\ DOMAIN runs' = 1..Len(runs) + 1 /\ DOMAIN runs = 1..Len(runs)
      /\ \A i \in DOMAIN runs : runs'[i] = runs[i]
      /\ runs'[last].slot = slot /\ runs'[last].at = held.at /\ runs'[last].manual = held.manual
      /\ runs'[last].status = "running"
  <2> DEFINE r == [slot |-> slot, at |-> held.at, manual |-> held.manual, status |-> "running"]
  <2>1. /\ runs' \in Seq(RunRecords) /\ Len(runs') = Len(runs) + 1 /\ Len(runs') <= MaxRuns
        /\ runs' # <<>> /\ runs'[last] = r
        /\ DOMAIN runs' = 1..Len(runs) + 1 /\ DOMAIN runs = 1..Len(runs)
        /\ \A i \in DOMAIN runs : runs'[i] = runs[i]
    BY BeginAppends
  <2> QED BY <2>1
<1>2. held \in HeldRecords /\ held.at <= now /\ held.at \in Nat /\ now \in Nat
  BY PlanTyped DEF ScheduleInv, Reserved, Past, HeldRecords
<1>3. Reserved' /\ held'.pc = "run" /\ held'.manual = held.manual /\ held'.at = held.at
  BY <1>2 DEF Reserved, HeldRecords
<1>4. Past'
  BY <1>2, <1>3 DEF ScheduleInv, Past
<1>5. SchedulesTypeOK'
  BY <1>1, <1>3 DEF ScheduleInv, SchedulesTypeOK, RunRecords, Lists
<1>6. Len(runs) \in Nat /\ \A i \in DOMAIN runs' : i \in DOMAIN runs \/ i = last
  <2>1. Len(runs) \in Nat
    BY PlanTyped DEF ScheduleInv
  <2> QED BY <1>1, <2>1
<1>7. Due'
  BY <1>1, <1>2, <1>6 DEF ScheduleInv, Due
<1>8. Ordered'
  <2> SUFFICES ASSUME NEW i \in DOMAIN runs', NEW j \in DOMAIN runs', i < j,
                      ~runs'[i].manual, ~runs'[j].manual
               PROVE  runs'[i].slot < runs'[j].slot
    BY DEF Ordered
  <2>1. i \in DOMAIN runs
    BY <1>1, <1>6
  <2>2. CASE j \in DOMAIN runs
    BY <1>1, <2>1, <2>2 DEF ScheduleInv, Ordered
  <2>3. CASE j = last
    BY <1>1, <2>1, <2>3 DEF ScheduleInv, Ahead
  <2> QED BY <1>6, <2>2, <2>3
<1>9. Ahead'
  <2> SUFFICES ASSUME plan'.next # 0, NEW i \in DOMAIN runs', ~runs'[i].manual
               PROVE  runs'[i].slot < plan'.next
    BY DEF Ahead
  <2>1. CASE i \in DOMAIN runs
    <3>1. runs[i] \in RunRecords
      BY <2>1, PlanTyped DEF ScheduleInv
    <3>2. runs[i].slot \in Nat /\ plan.next \in Nat /\ plan'.next \in Nat
      BY <3>1, PlanTyped DEF ScheduleInv, RunRecords, Plans
    <3> QED BY <1>1, <2>1, <3>2 DEF ScheduleInv, Ahead
  <2>2. CASE i = last
    BY <1>1, <2>2
  <2> QED BY <1>6, <2>1, <2>2
<1> QED BY <1>3, <1>4, <1>5, <1>7, <1>8, <1>9 DEF ScheduleInv

LEMMA InvStep == ScheduleInv /\ [SchedulesNext]_scheduleVars => ScheduleInv'
<1> SUFFICES ASSUME ScheduleInv, [SchedulesNext]_scheduleVars PROVE ScheduleInv'
  OBVIOUS
<1>0. /\ plan.status \in Statuses /\ plan.next \in Nat /\ plan.cadence \in Nat \ {0}
      /\ plan.cadence \in Cadences /\ plan.max \in Limits /\ plan.expires \in Expiries
      /\ plan \in Plans /\ now \in Nat /\ now \in 1..MaxTime /\ now <= now
      /\ list \in [Ticks -> Lists] /\ limit \in Limits /\ runs \in Seq(RunRecords)
      /\ Reserved /\ Past /\ Ahead /\ held.at <= now /\ held \in HeldRecords
  BY PlanTyped DEF ScheduleInv, SchedulesTypeOK, Lists, Reserved, Past
<1>1. NotHeld \in HeldRecords /\ NotHeld.pc = "none" /\ NotHeld.at <= now
  BY <1>0 DEF NotHeld, HeldRecords
<1>2. Completed(plan) \in Plans /\ Completed(plan).next = 0
  BY <1>0 DEF Completed, Plans, Statuses
\* Edits of the plan: the runs, the reservation and the lists stay.
<1>3. ASSUME UNCHANGED <<now, runs, list, held>>, plan' \in Plans, limit' \in Limits, Ahead',
             plan.status = "deleted" => plan'.status = "deleted"
      PROVE  ScheduleInv'
  <2>1. Reserved' /\ Past'
    BY <1>0, <1>3 DEF Reserved, Past
  <2> QED BY <1>0, <1>3, <2>1, SameRuns
<1>a. ASSUME NEW t \in Ticks, TickLists(t) PROVE ScheduleInv'
  <2>1. Asks(plan, runs, now) \in {"nothing", "end", "run"}
    BY DEF Asks
  <2>2. list' \in [Ticks -> Lists] /\ \A u \in Ticks : list'[u].at <= now
    BY <1>0, <1>a, <2>1 DEF TickLists, Lists, Past
  <2>3. UNCHANGED <<now, plan, runs, held, limit>>
    BY <1>a DEF TickLists
  <2>4. Reserved' /\ Past' /\ Ahead'
    BY <1>0, <2>2, <2>3 DEF Reserved, Past, Ahead
  <2> QED BY <1>0, <2>2, <2>3, <2>4, SameRuns
<1>b. ASSUME NEW t \in Ticks, TickVisits(t) PROVE ScheduleInv'
  <2>1. list' = [list EXCEPT ![t] = NoList] /\ UNCHANGED <<now, runs, limit>>
    BY <1>b DEF TickVisits
  <2>2. list' \in [Ticks -> Lists] /\ \A u \in Ticks : list'[u].at <= now
    BY <1>0, <2>1 DEF NoList, Lists, Past
  <2>3. \/ UNCHANGED <<plan, held>>
        \/ held.pc = "none" /\ UNCHANGED held /\ plan' = Completed(plan) /\ plan.status = "active"
        \/ held' = [pc |-> "claim", manual |-> FALSE, at |-> list[t].at] /\ UNCHANGED plan
    BY <1>b DEF TickVisits, Asks
  <2>4. list[t].at \in Nat /\ list[t].at <= now
    BY <1>0 DEF Lists, Past
  <2>5. CASE UNCHANGED <<plan, held>>
    <3>1. Reserved' /\ Past' /\ Ahead'
      BY <1>0, <2>1, <2>2, <2>5 DEF Reserved, Past, Ahead
    <3> QED BY <1>0, <2>1, <2>2, <2>5, <3>1, SameRuns
  <2>6. CASE held.pc = "none" /\ UNCHANGED held /\ plan' = Completed(plan) /\ plan.status = "active"
    <3>1. Reserved' /\ Past' /\ Ahead'
      BY <1>0, <1>2, <2>1, <2>2, <2>6 DEF Reserved, Past, Ahead
    <3> QED BY <1>0, <1>2, <2>1, <2>2, <2>6, <3>1, SameRuns
  <2>7. CASE held' = [pc |-> "claim", manual |-> FALSE, at |-> list[t].at] /\ UNCHANGED plan
    <3>1. Reserved' /\ Past' /\ Ahead' /\ held'.pc = "claim"
      BY <1>0, <2>1, <2>2, <2>4, <2>7 DEF Reserved, Past, Ahead, HeldRecords
    <3> QED BY <1>0, <2>1, <2>2, <2>7, <3>1, SameRuns
  <2> QED BY <2>3, <2>5, <2>6, <2>7
<1>c. CASE ClaimDueRun
  <2>1. UNCHANGED <<now, list, limit>> /\ Len(runs) < MaxRuns
    BY <1>c DEF ClaimDueRun
  <2>2. CASE Asks(plan, runs, held.at) = "run"
    <3> DEFINE next == IF plan.max # 0 /\ Ended(runs) + 1 >= plan.max THEN 0
                       ELSE AdvancePast(plan.cadence, plan.next + plan.cadence, held.at)
    <3>1. plan.next # 0 /\ plan.next <= held.at
      BY <2>2 DEF Asks
    <3>2. Begin(plan.next) /\ plan' = [plan EXCEPT !.next = next] /\ held' = [held EXCEPT !.pc = "run"]
      BY <1>c, <2>2 DEF ClaimDueRun
    <3>3. next \in Nat /\ (next # 0 => plan.next < next)
      <4>1. held.at \in Nat
        BY <1>0 DEF HeldRecords
      <4>2. AdvancePast(plan.cadence, plan.next + plan.cadence, held.at) \in Nat
            /\ plan.next + plan.cadence <= AdvancePast(plan.cadence, plan.next + plan.cadence, held.at)
        <5>1. plan.next + plan.cadence \in Nat
          BY <1>0
        <5> QED BY <1>0, <4>1, <5>1, AdvanceLater
      <4> QED BY <1>0, <4>2
    <3> HIDE DEF next
    <3>4. plan' \in Plans /\ plan'.next = next
      BY <1>0, <3>2, <3>3 DEF Plans
    <3>5. /\ plan'.next = 0 \/ (plan.next # 0 /\ plan.next <= plan'.next)
          /\ plan'.next # 0 => plan.next < plan'.next
      BY <1>0, <3>1, <3>3, <3>4
    <3> QED BY <1>0, <2>1, <3>1, <3>2, <3>4, <3>5, BegunRun
  <2>3. CASE Asks(plan, runs, held.at) # "run"
    <3>1. held' = NotHeld /\ UNCHANGED <<plan, runs>>
      BY <1>c, <2>3 DEF ClaimDueRun
    <3>2. Reserved' /\ Past' /\ Ahead'
      BY <1>0, <1>1, <2>1, <3>1 DEF Reserved, Past, Ahead
    <3> QED BY <1>0, <1>1, <2>1, <3>1, <3>2, SameRuns
  <2> QED BY <2>2, <2>3
<1>d. CASE RunOnce
  <2>1. held' = [pc |-> "append", manual |-> TRUE, at |-> now] /\ UNCHANGED <<now, plan, runs, list, limit>>
    BY <1>d DEF RunOnce
  <2>2. Reserved' /\ Past' /\ Ahead' /\ held'.pc = "append"
    BY <1>0, <2>1 DEF Reserved, Past, Ahead, HeldRecords
  <2> QED BY <1>0, <2>1, <2>2, SameRuns
<1>e. CASE AppendRunningRun
  <2>1. UNCHANGED <<now, plan, list, limit>> /\ Len(runs) < MaxRuns /\ held.manual
    BY <1>0, <1>e DEF AppendRunningRun, Reserved
  <2>2. CASE plan.status = "deleted"
    <3>1. held' = NotHeld /\ UNCHANGED runs
      BY <1>e, <2>2 DEF AppendRunningRun
    <3>2. Reserved' /\ Past' /\ Ahead'
      BY <1>0, <1>1, <2>1, <3>1 DEF Reserved, Past, Ahead
    <3> QED BY <1>0, <1>1, <2>1, <3>1, <3>2, SameRuns
  <2>3. CASE plan.status # "deleted"
    <3>1. Begin(held.at) /\ held' = [held EXCEPT !.pc = "run"] /\ held.at \in Nat
      BY <1>0, <1>e, <2>3 DEF AppendRunningRun, HeldRecords
    <3> QED BY <1>0, <2>1, <3>1, BegunRun
  <2> QED BY <2>2, <2>3
<1>f. CASE FinishRun
  <2>1. UNCHANGED <<now, list, limit>> /\ held' = NotHeld /\ held.pc = "run"
    BY <1>f DEF FinishRun
  <2>2. Reserved' /\ Past' /\ held'.pc = "none"
    BY <1>0, <1>1, <2>1 DEF Reserved, Past
  <2>3. CASE plan.status = "deleted"
    <3>1. UNCHANGED <<plan, runs>>
      BY <1>f, <2>3 DEF FinishRun
    <3>2. Ahead'
      BY <1>0, <3>1 DEF Ahead
    <3> QED BY <1>0, <2>1, <2>2, <3>1, <3>2, SameRuns
  <2>4. CASE plan.status # "deleted"
    <3>1. EndRun /\ RunLast
      BY <1>f, <2>4 DEF FinishRun, ScheduleInv, SchedulesTypeOK, RunLast
    <3>2. runs # <<>> /\ Len(runs) \in DOMAIN runs /\ runs[Len(runs)].manual = held.manual
      BY <1>0, <2>1, <2>4, <3>1 DEF RunLast
    <3>3. runs[Len(runs)].slot \in Nat
      <4>1. runs[Len(runs)] \in RunRecords
        BY <1>0, <3>2
      <4> QED BY <4>1 DEF RunRecords
    <3>4. runs' = [i \in DOMAIN runs |->
                     IF i \in {Len(runs)} THEN [runs[i] EXCEPT !.status = "ended"] ELSE runs[i]]
      BY <1>0, <3>1, <3>2 DEF EndRun, Running
    <3> DEFINE slot == IF plan.next # 0 THEN plan.next ELSE runs[Len(runs)].slot + plan.cadence
               next == AdvancePast(plan.cadence, slot, now)
    <3>5. \/ plan' = Completed(plan) \/ plan' = plan \/ plan' = [plan EXCEPT !.next = 0]
          \/ ~held.manual /\ plan' = [plan EXCEPT !.next = next]
      BY <1>f, <2>4 DEF FinishRun, Running
    <3>6. slot \in Nat /\ next \in Nat /\ slot <= next
      <4>1. slot \in Nat
        BY <1>0, <3>3
      <4> HIDE DEF slot
      <4> QED BY <1>0, <4>1, AdvanceLater
    <3>7. ~held.manual => \A i \in DOMAIN runs : ~runs[i].manual => runs[i].slot < slot
      <4> SUFFICES ASSUME ~held.manual, NEW i \in DOMAIN runs, ~runs[i].manual PROVE runs[i].slot < slot
        OBVIOUS
      <4>1. runs[i] \in RunRecords /\ i \in Nat /\ i <= Len(runs) /\ Len(runs) \in Nat
        BY <1>0
      <4>2. runs[i].slot \in Nat
        BY <4>1 DEF RunRecords
      <4>3. runs[i].slot <= runs[Len(runs)].slot
        BY <3>2, <3>3, <4>1, <4>2 DEF ScheduleInv, Ordered
      <4> QED BY <1>0, <3>3, <4>2, <4>3 DEF Ahead
    <3> HIDE DEF next, slot
    <3>8. plan' \in Plans
      BY <1>0, <1>2, <3>5, <3>6 DEF Plans
    <3>9. plan'.next # 0 => \A i \in DOMAIN runs : ~runs[i].manual => runs[i].slot < plan'.next
      <4> SUFFICES ASSUME plan'.next # 0, NEW i \in DOMAIN runs, ~runs[i].manual
                   PROVE  runs[i].slot < plan'.next
        OBVIOUS
      <4>1. runs[i] \in RunRecords
        BY <1>0
      <4>2. runs[i].slot \in Nat
        BY <4>1 DEF RunRecords
      <4>3. plan' = plan \/ (~held.manual /\ plan'.next = next)
        BY <1>0, <1>2, <3>5 DEF Plans
      <4> QED BY <1>0, <3>6, <3>7, <4>2, <4>3 DEF Ahead
    <3> HIDE DEF RunLast
    <3> QED BY <2>1, <2>2, <3>2, <3>4, <3>8, <3>9, <1>0, EndedRuns
  <2> QED BY <2>3, <2>4
<1>g. CASE OutcomeUnsaved
  <2>1. held' = NotHeld /\ UNCHANGED <<now, plan, runs, list, limit>>
    BY <1>g DEF OutcomeUnsaved
  <2>2. Reserved' /\ Past' /\ Ahead' /\ held'.pc = "none"
    BY <1>0, <1>1, <2>1 DEF Reserved, Past, Ahead
  <2> QED BY <1>0, <2>1, <2>2, SameRuns
<1>h. CASE Pause \/ Delete
  <2>1. UNCHANGED <<now, runs, list, held, limit>> /\ plan.status # "deleted"
    BY <1>h DEF Pause, Delete, Others, Editable
  <2>2. \E st \in {"paused", "deleted"} : plan' = [plan EXCEPT !.status = st, !.next = 0]
    BY <1>h DEF Pause, Delete
  <2>3. plan' \in Plans /\ plan'.next = 0
    <3>1. PICK st \in {"paused", "deleted"} : plan' = [plan EXCEPT !.status = st, !.next = 0]
      BY <2>2
    <3>2. st \in Statuses
      BY DEF Statuses
    <3> QED BY <1>0, <3>1, <3>2 DEF Plans
  <2> QED BY <1>0, <1>3, <2>1, <2>3 DEF Ahead
<1>i. CASE Resume
  <2>1. UNCHANGED <<now, runs, list, held, limit>> /\ plan.status # "deleted"
        /\ plan' = [plan EXCEPT !.status = "active", !.next = now + plan.cadence]
    BY <1>i DEF Resume, Editable, Others
  <2>2. now + plan.cadence \in Nat /\ now < now + plan.cadence
    BY <1>0
  <2>3. plan' \in Plans /\ plan'.next = now + plan.cadence
    BY <1>0, <2>1, <2>2 DEF Plans, Statuses
  <2>4. Ahead'
    BY <2>1, <2>2, <2>3, AheadKept DEF Ahead
  <2> QED BY <1>0, <1>3, <2>1, <2>3, <2>4
<1>j. ASSUME NEW c \in Cadences, UpdateCadence(c) PROVE ScheduleInv'
  <2>1. UNCHANGED <<now, runs, list, held, limit>> /\ plan.status # "deleted"
        /\ \E n \in {0, now + c} : plan' = [plan EXCEPT !.cadence = c, !.next = n]
    BY <1>j DEF UpdateCadence, Others
  <2>2. now + c \in Nat /\ now < now + c
    BY <1>0, SchedulesAssumption
  <2>3. plan' \in Plans /\ plan'.next \in {0, now + c}
    <3>1. PICK n \in {0, now + c} : plan' = [plan EXCEPT !.cadence = c, !.next = n]
      BY <2>1
    <3>2. n \in Nat
      BY <2>2
    <3> QED BY <1>0, <3>1, <3>2 DEF Plans
  <2>4. plan'.next = 0 \/ now < plan'.next
    BY <2>2, <2>3
  <2>5. plan'.next \in Nat
    BY <2>3 DEF Plans
  <2>6. Ahead'
    BY <2>1, <2>4, <2>5, AheadKept DEF Ahead
  <2> QED BY <1>0, <1>3, <2>1, <2>3, <2>6
<1>4. ASSUME NEW m \in Limits PROVE Larger(m) \in Limits
  BY <1>0, SchedulesAssumption DEF Larger
<1>k. ASSUME NEW m \in Limits, NEW e \in Expiries, UpdateLimits(m, e) PROVE ScheduleInv'
  <2>1. UNCHANGED <<now, runs, list, held>> /\ plan' \in Plans /\ plan.status # "deleted"
        /\ plan'.next = plan.next /\ limit' = Larger(m)
    BY <1>0, <1>k DEF UpdateLimits, Others, Plans
  <2> QED BY <1>0, <1>3, <1>4, <2>1 DEF Ahead
<1>l. ASSUME NEW c \in Cadences, NEW m \in Limits, NEW e \in Expiries, Replace(c, m, e) PROVE ScheduleInv'
  <2>1. UNCHANGED <<now, runs, list, held>> /\ limit' = Larger(m) /\ plan.status # "deleted"
    BY <1>l DEF Replace, Others, Editable
  <2>2. PICK next \in {now, now + c} :
          /\ \A i \in DOMAIN runs : runs[i].slot < next
          /\ plan' = [status |-> "active", next |-> next, cadence |-> c, max |-> m, expires |-> e]
    BY <1>l DEF Replace
  <2>3. next \in Nat
    BY <1>0, SchedulesAssumption
  <2>4. plan' \in Plans /\ Ahead'
    BY <2>1, <2>2, <2>3 DEF Plans, Statuses, Ahead
  <2> QED BY <1>0, <1>3, <1>4, <2>1, <2>4
<1>m. CASE TargetGone
  <2>1. UNCHANGED <<now, plan, runs, list, held, limit>>
    BY <1>m DEF TargetGone
  <2> QED BY <1>0, <1>3, <2>1 DEF Ahead
<1>n. CASE CompleteForAgent
  <2>1. UNCHANGED <<now, runs, list, held, limit>> /\ plan' = Completed(plan) /\ plan.status # "deleted"
    BY <1>n DEF CompleteForAgent, Others
  <2> QED BY <1>0, <1>2, <1>3, <2>1 DEF Ahead
<1>o. CASE Tock
  <2>1. now' = now + 1 /\ now' \in 1..MaxTime /\ UNCHANGED <<plan, runs, list, held, limit>>
    BY <1>0, <1>o, SchedulesAssumption DEF Tock
  <2>2. Reserved' /\ Ahead'
    BY <1>0, <2>1 DEF Reserved, Ahead
  <2>3. Past'
    BY <1>0, <2>1 DEF Past, HeldRecords, Lists
  <2> QED BY <1>0, <2>1, <2>2, <2>3, SameRuns
<1>p. CASE RecoverInterrupted
  <2>1. held' = NotHeld /\ list' = [t \in Ticks |-> NoList] /\ UNCHANGED <<now, limit>>
    BY <1>p DEF RecoverInterrupted
  <2>2. list' \in [Ticks -> Lists] /\ Past'
    BY <1>0, <1>1, <2>1 DEF NoList, Lists, Past
  <2> DEFINE S == IF plan.status = "deleted" THEN {} ELSE FirstRunning
             next == AdvancePast(plan.cadence, plan.next + plan.cadence, now)
  <2>3. S \in SUBSET DOMAIN runs
    BY DEF FirstRunning
  <2>4. runs' = [i \in DOMAIN runs |-> IF i \in S THEN [runs[i] EXCEPT !.status = "ended"] ELSE runs[i]]
    <3>1. CASE plan.status = "deleted"
      BY <1>0, <1>p, <3>1 DEF RecoverInterrupted
    <3>2. CASE plan.status # "deleted"
      BY <1>p, <3>2 DEF RecoverInterrupted
    <3> QED BY <3>1, <3>2
  <2>5. plan' \in {plan, Completed(plan)} \/ (plan.next # 0 /\ plan' = [plan EXCEPT !.next = next])
    BY <1>p DEF RecoverInterrupted
  <2>6. next \in Nat /\ plan.next <= next
    <3>1. plan.next + plan.cadence \in Nat /\ plan.next <= plan.next + plan.cadence
      BY <1>0
    <3>2. next \in Nat /\ plan.next + plan.cadence <= next
      BY <1>0, <3>1, AdvanceLater
    <3> QED BY <1>0, <3>1, <3>2
  <2> HIDE DEF S, next
  <2>7. plan' \in Plans
        /\ (plan'.next = 0 \/ (plan.next # 0 /\ plan.next <= plan'.next))
    BY <1>0, <1>2, <2>5, <2>6 DEF Plans
  <2>8. plan'.next \in Nat
    BY <2>7 DEF Plans
  <2>9. plan'.next # 0 => \A i \in DOMAIN runs : ~runs[i].manual => runs[i].slot < plan'.next
    BY <2>7, <2>8, AheadKept
  <2> QED BY <2>1, <2>2, <2>3, <2>4, <2>7, <2>9, EndedRuns
<1>q. CASE UNCHANGED scheduleVars
  <2>1. UNCHANGED <<now, plan, runs, list, held, limit>>
    BY <1>q DEF scheduleVars
  <2> QED BY <1>0, <1>3, <2>1 DEF Ahead
<1> QED BY <1>a, <1>b, <1>c, <1>d, <1>e, <1>f, <1>g, <1>h, <1>i, <1>j, <1>k, <1>l, <1>m, <1>n, <1>o, <1>p,
           <1>q DEF SchedulesNext

-----------------------------------------------------------------------------
(* The next slot *)

\* A claim is for a slot, and NextSlot is inductive with that.
SlotInv ==
  /\ crashes \in Nat /\ unsaved \in Nat
  /\ held.pc = "claim" => ~held.manual
  /\ NextSlot

LEMMA SlotStep == ScheduleInv /\ SlotInv /\ [SchedulesNext]_scheduleVars => SlotInv'
<1> SUFFICES ASSUME ScheduleInv, SlotInv, [SchedulesNext]_scheduleVars PROVE SlotInv'
  OBVIOUS
<1>1. /\ plan \in Plans /\ plan.next \in Nat /\ plan.cadence \in Nat \ {0} /\ now \in Nat /\ now # 0
      /\ held \in HeldRecords /\ (held.pc = "append" => held.manual)
  BY PlanTyped DEF ScheduleInv, SchedulesTypeOK, Reserved
<1>2. Completed(plan).next = 0 /\ Completed(plan).status = "completed"
  BY <1>1 DEF Completed, Plans
<1>3. NotHeld.pc = "none"
  BY DEF NotHeld
<1>a. ASSUME NEW t \in Ticks, TickLists(t) \/ TickVisits(t) PROVE SlotInv'
  <2>1. \/ UNCHANGED <<plan, held>>
        \/ held.pc = "none" /\ UNCHANGED held /\ plan' = Completed(plan)
        \/ held.pc = "none" /\ UNCHANGED plan
           /\ held' = [pc |-> "claim", manual |-> FALSE, at |-> list[t].at]
    BY <1>a DEF TickLists, TickVisits
  <2>2. UNCHANGED <<crashes, unsaved>>
    BY <1>a DEF TickLists, TickVisits
  <2> QED BY <1>2, <2>1, <2>2 DEF SlotInv, NextSlot
<1>b. CASE ClaimDueRun
  <2>1. UNCHANGED <<crashes, unsaved>> /\ held.pc = "claim"
    BY <1>b DEF ClaimDueRun
  <2>2. CASE Asks(plan, runs, held.at) = "run"
    <3>1. plan.status = "active" /\ held' = [held EXCEPT !.pc = "run"]
          /\ \E n : plan' = [plan EXCEPT !.next = n]
      BY <1>b, <2>2 DEF ClaimDueRun, Asks
    <3>2. plan'.status = "active" /\ held'.pc = "run" /\ held'.manual = held.manual
      BY <1>1, <3>1 DEF Plans, HeldRecords
    <3> QED BY <2>1, <3>2 DEF SlotInv, NextSlot
  <2>3. CASE Asks(plan, runs, held.at) # "run"
    <3>1. held' = NotHeld /\ UNCHANGED plan
      BY <1>b, <2>3 DEF ClaimDueRun
    <3> QED BY <1>3, <2>1, <3>1 DEF SlotInv, NextSlot
  <2> QED BY <2>2, <2>3
<1>c. CASE RunOnce \/ AppendRunningRun
  <2>1. /\ UNCHANGED <<crashes, unsaved, plan>>
        /\ held.pc # "run" /\ held'.pc # "claim"
    BY <1>1, <1>3, <1>c DEF RunOnce, AppendRunningRun, HeldRecords
  <2> QED BY <2>1 DEF SlotInv, NextSlot
<1>d. CASE FinishRun
  <2>1. UNCHANGED <<crashes, unsaved>> /\ held' = NotHeld /\ held.pc = "run"
    BY <1>d DEF FinishRun
  <2>2. CASE plan.status = "deleted"
    BY <1>3, <1>d, <2>1, <2>2 DEF FinishRun, SlotInv, NextSlot
  <2>3. CASE plan.status # "deleted"
    <3> DEFINE slot == IF plan.next # 0 THEN plan.next ELSE runs[Len(runs)].slot + plan.cadence
               next == AdvancePast(plan.cadence, slot, now)
    <3>1. \/ plan' = Completed(plan)
          \/ plan' = plan /\ (plan.status = "completed" \/ held.manual)
          \/ plan' = [plan EXCEPT !.next = 0] /\ plan.status = "paused"
          \/ plan' = [plan EXCEPT !.next = next] /\ plan.status \notin {"completed", "paused"}
      BY <1>d, <2>3 DEF FinishRun, Running
    <3>2. slot \in Nat /\ slot # 0
      <4>1. runs \in Seq(RunRecords) /\ runs # <<>>
        BY <2>1, <2>3, PlanTyped DEF ScheduleInv, SchedulesTypeOK
      <4>2. runs[Len(runs)] \in RunRecords
        BY <4>1
      <4>3. runs[Len(runs)].slot \in Nat
        BY <4>2 DEF RunRecords
      <4> QED BY <1>1, <4>3
    <3> HIDE DEF slot
    <3>3. next \in Nat /\ next # 0
      <4>1. next \in Nat /\ slot <= next
        BY <1>1, <3>2, AdvanceLater
      <4> HIDE DEF next
      <4> QED BY <3>2, <4>1
    <3> HIDE DEF next
    <3>4. plan.status \in Statuses
      BY <1>1 DEF Plans
    <3>5. /\ plan'.status # "active" => plan'.next = 0
          /\ plan'.status = "active" /\ crashes + unsaved = 0 => plan'.next # 0
      <4>1. CASE plan' = Completed(plan)
        BY <1>2, <4>1
      <4>2. CASE plan' = plan /\ (plan.status = "completed" \/ held.manual)
        BY <4>2 DEF SlotInv, NextSlot
      <4>3. CASE plan' = [plan EXCEPT !.next = 0] /\ plan.status = "paused"
        BY <1>1, <4>3 DEF Plans
      <4>4. CASE plan' = [plan EXCEPT !.next = next] /\ plan.status \notin {"completed", "paused"}
        BY <1>1, <2>3, <3>3, <3>4, <4>4 DEF Plans, Statuses
      <4> QED BY <3>1, <4>1, <4>2, <4>3, <4>4
    <3> QED BY <1>3, <2>1, <3>5 DEF SlotInv, NextSlot
  <2> QED BY <2>2, <2>3
<1>e. CASE OutcomeUnsaved \/ RecoverInterrupted
  <2>1. crashes' \in Nat /\ unsaved' \in Nat /\ crashes' + unsaved' # 0 /\ held' = NotHeld
    BY <1>e DEF OutcomeUnsaved, RecoverInterrupted, SlotInv, NextSlot
  <2>2. \/ plan' = plan \/ plan' = Completed(plan)
        \/ plan.status = "active" /\ plan'.status = plan.status
    BY <1>1, <1>e DEF OutcomeUnsaved, RecoverInterrupted, Plans
  <2> QED BY <1>2, <1>3, <2>1, <2>2 DEF SlotInv, NextSlot
\* Edits of the plan leave the reservation alone.
<1>4. ASSUME UNCHANGED <<crashes, unsaved, held>>,
             \/ plan' = plan
             \/ plan'.status # "active" /\ plan'.next = 0
             \/ plan'.status = "active" /\ plan'.next # 0
             \/ plan'.status = plan.status /\ plan'.next = plan.next
      PROVE  SlotInv'
  BY <1>4 DEF SlotInv, NextSlot
<1>f. CASE Pause \/ Delete \/ CompleteForAgent
  <2>1. UNCHANGED <<crashes, unsaved, held>>
    BY <1>f DEF Pause, Delete, CompleteForAgent, Others
  <2>2. plan'.status # "active" /\ plan'.next = 0
    BY <1>1, <1>2, <1>f DEF Pause, Delete, CompleteForAgent, Plans
  <2> QED BY <1>4, <2>1, <2>2
<1>g. CASE Resume
  <2>1. UNCHANGED <<crashes, unsaved, held>> /\ plan'.status = "active" /\ plan'.next = now + plan.cadence
    BY <1>1, <1>g DEF Resume, Others, Plans
  <2> QED BY <1>1, <1>4, <2>1
<1>h. ASSUME NEW c \in Cadences, UpdateCadence(c) PROVE SlotInv'
  <2>1. c \in Nat \ {0}
    BY SchedulesAssumption
  <2>2. UNCHANGED <<crashes, unsaved, held>> /\ plan'.status = plan.status
        /\ plan'.next = IF plan.status = "active" THEN now + c ELSE 0
    BY <1>1, <1>h DEF UpdateCadence, Others, Plans
  <2> QED BY <1>1, <1>4, <2>1, <2>2
<1>i. ASSUME NEW m \in Limits, NEW e \in Expiries, UpdateLimits(m, e) PROVE SlotInv'
  <2>1. UNCHANGED <<crashes, unsaved, held>> /\ plan'.status = plan.status /\ plan'.next = plan.next
    BY <1>1, <1>i DEF UpdateLimits, Others, Plans
  <2> QED BY <1>4, <2>1
<1>j. ASSUME NEW c \in Cadences, NEW m \in Limits, NEW e \in Expiries, Replace(c, m, e) PROVE SlotInv'
  <2>1. c \in Nat \ {0}
    BY SchedulesAssumption
  <2>2. UNCHANGED <<crashes, unsaved, held>> /\ plan'.status = "active" /\ plan'.next \in {now, now + c}
    BY <1>j DEF Replace, Others
  <2> QED BY <1>1, <1>4, <2>1, <2>2
<1>k. CASE TargetGone \/ Tock \/ UNCHANGED scheduleVars
  <2>1. UNCHANGED <<crashes, unsaved, held, plan>>
    BY <1>k DEF TargetGone, Tock, scheduleVars
  <2> QED BY <1>4, <2>1
<1> QED BY <1>a, <1>b, <1>c, <1>d, <1>e, <1>f, <1>g, <1>h, <1>i, <1>j, <1>k DEF SchedulesNext

-----------------------------------------------------------------------------
(* The run limit *)

\* A limit in force is not above the largest there was.  As long as outcomes can be saved, the only
\* run that looks as if it ran is the one the service holds.
Bounded == limit # 0 => plan.max # 0 /\ plan.max <= limit
OneRuns ==
  unsaved = 0 /\ plan.status # "deleted" =>
    \A i \in DOMAIN runs : runs[i].status = "running" => i = Len(runs) /\ held.pc = "run"

LimitInv == unsaved \in Nat /\ Bounded /\ OneRuns /\ WithinLimit

Scheduled(rs) == {i \in DOMAIN rs : ~rs[i].manual}

LEMMA UpTo ==
  ASSUME NEW n \in Nat
  PROVE  IsFiniteSet(1..n) /\ Cardinality(1..n) = n
<1>1. 1 \in Int /\ n \in Int
  OBVIOUS
<1>2. IsFiniteSet(1..n) /\ Cardinality(1..n) = IF 1 > n THEN 0 ELSE n - 1 + 1
  BY <1>1, FS_Interval
<1> QED BY <1>2

\* With no run under way a schedule that may run has fewer runs than its limit.
LEMMA RoomLeft ==
  ASSUME ScheduleInv, OneRuns, unsaved = 0, plan.status # "deleted", held.pc # "run", plan.max # 0,
         ~ShouldComplete(plan, runs, held.at)
  PROVE  Len(runs) < plan.max
<1>1. runs \in Seq(RunRecords) /\ DOMAIN runs = 1..Len(runs) /\ Len(runs) \in Nat
  BY PlanTyped DEF ScheduleInv
<1>2. {i \in DOMAIN runs : runs[i].status # "running"} = 1..Len(runs)
  BY <1>1 DEF OneRuns
<1>3. Cardinality(1..Len(runs)) = Len(runs)
  BY <1>1, UpTo
<1>4. Ended(runs) = Len(runs)
  BY <1>2, <1>3 DEF Ended
<1>5. plan.max \in Nat
  BY PlanTyped, SchedulesAssumption DEF ScheduleInv
<1> QED BY <1>1, <1>4, <1>5 DEF ShouldComplete

\* No more slots are run than there are runs.
LEMMA NoMoreThanRuns ==
  ASSUME NEW rs \in Seq(RunRecords)
  PROVE  Cardinality(Scheduled(rs)) \in Nat /\ Cardinality(Scheduled(rs)) <= Len(rs)
<1>1. DOMAIN rs = 1..Len(rs) /\ Len(rs) \in Nat /\ Scheduled(rs) \in SUBSET (1..Len(rs))
  BY DEF Scheduled
<1>2. IsFiniteSet(1..Len(rs)) /\ Cardinality(1..Len(rs)) = Len(rs)
  BY <1>1, UpTo
<1>3. IsFiniteSet(Scheduled(rs)) /\ Cardinality(Scheduled(rs)) <= Cardinality(1..Len(rs))
  BY <1>1, <1>2, FS_Subset
<1> QED BY <1>2, <1>3, FS_CardinalityType

\* What an action has to show that begins no run.
LEMMA NoneBegun ==
  ASSUME ScheduleInv, LimitInv, DOMAIN runs' = DOMAIN runs, Len(runs') = Len(runs),
         \A i \in DOMAIN runs :
           runs'[i].manual = runs[i].manual /\ (runs'[i].status = "running" => runs[i].status = "running"),
         unsaved' \in Nat, unsaved' = 0 => unsaved = 0, plan.status = "deleted" => plan'.status = "deleted",
         \/ held'.pc = "run" <=> held.pc = "run"
         \/ unsaved' # 0
         \/ plan'.status = "deleted"
         \/ \A i \in DOMAIN runs' : runs'[i].status # "running",
         limit' # 0 => limit # 0 /\ limit <= limit', limit' \in Limits, Bounded'
  PROVE  LimitInv'
<1>1. OneRuns'
  BY DEF LimitInv, OneRuns
<1>2. Scheduled(runs)' = Scheduled(runs)
  BY DEF Scheduled
<1>3. WithinLimit'
  <2>1. Cardinality(Scheduled(runs)) \in Nat
    BY NoMoreThanRuns, PlanTyped DEF ScheduleInv
  <2>2. limit \in Nat /\ limit' \in Nat
    BY SchedulesAssumption DEF ScheduleInv, SchedulesTypeOK
  <2>3. limit # 0 /\ unsaved = 0 => Cardinality(Scheduled(runs)) <= limit
    BY DEF LimitInv, WithinLimit, Scheduled
  <2>4. limit' # 0 /\ unsaved' = 0 => Cardinality(Scheduled(runs))' <= limit'
    BY <1>2, <2>1, <2>2, <2>3
  <2> QED BY <2>4 DEF WithinLimit, Scheduled
<1> QED BY <1>1, <1>3 DEF LimitInv

\* What an action has to show that begins a run.
LEMMA OneBegun ==
  ASSUME ScheduleInv, LimitInv, NEW slot \in Nat, Begin(slot), Len(runs) < MaxRuns, UNCHANGED <<limit, unsaved>>,
         held \in HeldRecords, held.pc # "run", plan.status # "deleted", held' = [held EXCEPT !.pc = "run"],
         plan'.max = plan.max,
         held.manual \/ (plan.max # 0 => ~ShouldComplete(plan, runs, held.at))
  PROVE  LimitInv'
<1>1. /\ runs' \in Seq(RunRecords) /\ Len(runs') = Len(runs) + 1
      /\ DOMAIN runs' = 1..Len(runs) + 1 /\ DOMAIN runs = 1..Len(runs)
      /\ \A i \in DOMAIN runs : runs'[i] = runs[i]
      /\ runs'[Len(runs')].manual = held.manual
  <2> DEFINE r == [slot |-> slot, at |-> held.at, manual |-> held.manual, status |-> "running"]
  <2>1. /\ runs' \in Seq(RunRecords) /\ Len(runs') = Len(runs) + 1
        /\ DOMAIN runs' = 1..Len(runs) + 1 /\ DOMAIN runs = 1..Len(runs)
        /\ \A i \in DOMAIN runs : runs'[i] = runs[i]
        /\ runs'[Len(runs')] = r
    BY BeginAppends
  <2> QED BY <2>1
<1>2. Len(runs) \in Nat /\ \A i \in DOMAIN runs' : i \in DOMAIN runs \/ i = Len(runs')
  BY <1>1, PlanTyped DEF ScheduleInv
<1>3. OneRuns'
  BY <1>1, <1>2 DEF LimitInv, OneRuns, HeldRecords
<1>4. Bounded'
  BY DEF LimitInv, Bounded
<1>5. limit \in Nat /\ plan.max \in Nat
  BY PlanTyped, SchedulesAssumption DEF ScheduleInv, SchedulesTypeOK
<1>6. CASE held.manual
  <2>1. Scheduled(runs)' = Scheduled(runs)
    <3>1. DOMAIN runs \subseteq DOMAIN runs'
      BY <1>1, <1>2
    <3>2. \A i \in DOMAIN runs' : ~runs'[i].manual => i \in DOMAIN runs
      BY <1>1, <1>2, <1>6
    <3>3. \A i \in DOMAIN runs : runs'[i].manual = runs[i].manual
      BY <1>1
    <3> QED BY <3>1, <3>2, <3>3 DEF Scheduled
  <2>2. limit # 0 /\ unsaved = 0 => Cardinality(Scheduled(runs)) <= limit
    BY DEF LimitInv, WithinLimit, Scheduled
  <2>3. limit' # 0 /\ unsaved' = 0 => Cardinality(Scheduled(runs))' <= limit'
    BY <2>1, <2>2
  <2>4. WithinLimit'
    BY <2>3 DEF WithinLimit, Scheduled
  <2> QED BY <1>3, <1>4, <2>4 DEF LimitInv
<1>7. CASE ~held.manual
  <2>1. ASSUME limit # 0, unsaved = 0 PROVE Len(runs) < limit
    <3>1. plan.max # 0 /\ plan.max <= limit
      BY <2>1 DEF LimitInv, Bounded
    <3>2. Len(runs) < plan.max
      BY <1>7, <2>1, <3>1, RoomLeft DEF LimitInv
    <3> QED BY <1>2, <1>5, <3>1, <3>2
  <2>2. Cardinality(Scheduled(runs))' \in Nat /\ Cardinality(Scheduled(runs))' <= Len(runs')
    BY <1>1, NoMoreThanRuns
  <2>3. limit # 0 /\ unsaved = 0 => Cardinality(Scheduled(runs))' <= limit
    BY <1>1, <1>2, <1>5, <2>1, <2>2
  <2> QED BY <1>3, <1>4, <2>3 DEF LimitInv, WithinLimit, Scheduled
<1> QED BY <1>6, <1>7

LEMMA LimitStep == ScheduleInv /\ SlotInv /\ LimitInv /\ [SchedulesNext]_scheduleVars => LimitInv'
<1> SUFFICES ASSUME ScheduleInv, SlotInv, LimitInv, [SchedulesNext]_scheduleVars PROVE LimitInv'
  OBVIOUS
<1>1. /\ plan \in Plans /\ plan.max \in Nat /\ limit \in Nat /\ limit \in Limits /\ unsaved \in Nat
      /\ held \in HeldRecords /\ (held.pc = "append" => held.manual)
      /\ runs \in Seq(RunRecords) /\ DOMAIN runs = 1..Len(runs) /\ Len(runs) \in Nat
  BY PlanTyped, SchedulesAssumption DEF ScheduleInv, SchedulesTypeOK, Reserved, LimitInv
<1>2. Completed(plan).status = "completed" /\ Completed(plan).max = plan.max
  BY <1>1 DEF Completed, Plans
<1>3. NotHeld.pc = "none"
  BY DEF NotHeld
\* Nothing but the plan or an idle reservation changes.
<1>4. ASSUME UNCHANGED <<runs, unsaved, limit>>, plan'.max = plan.max,
             plan.status = "deleted" => plan'.status = "deleted", held'.pc = "run" <=> held.pc = "run"
      PROVE  LimitInv'
  <2>1. Bounded'
    BY <1>4 DEF LimitInv, Bounded
  <2> QED BY <1>1, <1>4, <2>1, NoneBegun
<1>a. ASSUME NEW t \in Ticks, TickLists(t) \/ TickVisits(t) PROVE LimitInv'
  <2>1. UNCHANGED <<runs, unsaved, limit>>
    BY <1>a DEF TickLists, TickVisits
  <2>2. \/ UNCHANGED <<plan, held>>
        \/ UNCHANGED held /\ plan' = Completed(plan) /\ plan.status = "active"
        \/ held.pc = "none" /\ UNCHANGED plan /\ held'.pc = "claim"
    BY <1>a DEF TickLists, TickVisits, Asks
  <2> QED BY <1>2, <1>4, <2>1, <2>2
<1>b. CASE ClaimDueRun
  <2>1. UNCHANGED <<unsaved, limit>> /\ held.pc = "claim" /\ Len(runs) < MaxRuns
    BY <1>b DEF ClaimDueRun
  <2>2. CASE Asks(plan, runs, held.at) = "run"
    <3>1. /\ Begin(plan.next) /\ held' = [held EXCEPT !.pc = "run"] /\ plan.status = "active"
          /\ ~ShouldComplete(plan, runs, held.at)
          /\ \E n : plan' = [plan EXCEPT !.next = n]
      BY <1>b, <2>2 DEF ClaimDueRun, Asks
    <3>2. plan'.max = plan.max /\ plan.next \in Nat
      BY <1>1, <3>1 DEF Plans
    <3> QED BY <1>1, <2>1, <3>1, <3>2, OneBegun
  <2>3. CASE Asks(plan, runs, held.at) # "run"
    <3>1. held' = NotHeld /\ UNCHANGED <<plan, runs>>
      BY <1>b, <2>3 DEF ClaimDueRun
    <3> QED BY <1>3, <1>4, <2>1, <3>1
  <2> QED BY <2>2, <2>3
<1>c. CASE RunOnce
  <2>1. UNCHANGED <<runs, unsaved, limit, plan>> /\ held.pc = "none" /\ held'.pc = "append"
    BY <1>c DEF RunOnce
  <2> QED BY <1>4, <2>1
<1>d. CASE AppendRunningRun
  <2>1. UNCHANGED <<unsaved, limit, plan>> /\ held.pc = "append" /\ Len(runs) < MaxRuns
    BY <1>d DEF AppendRunningRun
  <2>2. CASE plan.status = "deleted"
    BY <1>3, <1>4, <1>d, <2>1, <2>2 DEF AppendRunningRun
  <2>3. CASE plan.status # "deleted"
    <3>1. Begin(held.at) /\ held' = [held EXCEPT !.pc = "run"]
      BY <1>d, <2>3 DEF AppendRunningRun
    <3>2. held.at \in Nat
      BY <1>1 DEF HeldRecords
    <3> QED BY <1>1, <2>1, <2>3, <3>1, <3>2, OneBegun
  <2> QED BY <2>2, <2>3
<1>e. CASE FinishRun
  <2>1. UNCHANGED <<limit, unsaved>> /\ held' = NotHeld /\ held.pc = "run"
    BY <1>e DEF FinishRun
  <2>2. plan'.max = plan.max /\ (plan.status = "deleted" => plan'.status = "deleted")
    <3>1. plan' = plan \/ (plan.status # "deleted" /\ (plan' = Completed(plan) \/ \E n : plan' = [plan EXCEPT !.next = n]))
      BY <1>e DEF FinishRun
    <3> QED BY <1>1, <1>2, <3>1 DEF Plans
  <2>3. Bounded'
    BY <2>1, <2>2 DEF LimitInv, Bounded
  <2>4. CASE plan.status = "deleted"
    <3>1. UNCHANGED runs
      BY <1>e, <2>4 DEF FinishRun
    <3> QED BY <1>1, <2>1, <2>2, <2>3, <2>4, <3>1, NoneBegun
  <2>5. CASE plan.status # "deleted"
    <3>1. runs' = [runs EXCEPT ![Len(runs)].status = "ended"]
      BY <1>e, <2>5 DEF FinishRun, EndRun, Running
    <3>2. Len(runs) \in DOMAIN runs
      BY <1>1, <2>1, <2>5 DEF ScheduleInv, SchedulesTypeOK
    <3>3. /\ DOMAIN runs' = DOMAIN runs
          /\ \A i \in DOMAIN runs : /\ runs'[i].manual = runs[i].manual
                                    /\ runs'[i].status = IF i = Len(runs) THEN "ended" ELSE runs[i].status
      <4>1. \A i \in DOMAIN runs : runs[i] \in RunRecords
        BY <1>1
      <4> QED BY <3>1, <3>2, <4>1 DEF RunRecords
    <3>4. Len(runs') = Len(runs)
      BY <1>1, <3>1, <3>3
    <3>5. unsaved = 0 => \A i \in DOMAIN runs' : runs'[i].status # "running"
      BY <2>5, <3>3 DEF LimitInv, OneRuns
    <3> QED BY <1>1, <2>1, <2>2, <2>3, <3>3, <3>4, <3>5, NoneBegun
  <2> QED BY <2>4, <2>5
<1>f. CASE OutcomeUnsaved
  <2>1. UNCHANGED <<runs, plan, limit>> /\ unsaved' = unsaved + 1
    BY <1>f DEF OutcomeUnsaved
  <2>2. Bounded'
    BY <2>1 DEF LimitInv, Bounded
  <2> QED BY <1>1, <2>1, <2>2, NoneBegun
<1>g. CASE RecoverInterrupted
  <2>1. UNCHANGED <<limit, unsaved>> /\ held' = NotHeld
    BY <1>g DEF RecoverInterrupted
  <2>2. plan'.max = plan.max /\ (plan.status = "deleted" => plan'.status = "deleted")
    <3>1. plan' = plan \/ (plan.status # "deleted" /\ (plan' = Completed(plan) \/ \E n : plan' = [plan EXCEPT !.next = n]))
      BY <1>g DEF RecoverInterrupted
    <3> QED BY <1>1, <1>2, <3>1 DEF Plans
  <2>3. Bounded'
    BY <2>1, <2>2 DEF LimitInv, Bounded
  <2>4. CASE plan.status = "deleted"
    <3>1. UNCHANGED runs
      BY <1>g, <2>4 DEF RecoverInterrupted
    <3> QED BY <1>1, <2>1, <2>2, <2>3, <2>4, <3>1, NoneBegun
  <2>5. CASE plan.status # "deleted"
    <3>1. FirstRunning \in SUBSET DOMAIN runs
          /\ runs' = [i \in DOMAIN runs |->
                        IF i \in FirstRunning THEN [runs[i] EXCEPT !.status = "ended"] ELSE runs[i]]
      BY <1>g, <2>5 DEF RecoverInterrupted, FirstRunning
    <3>2. Len(runs') = Len(runs) /\ DOMAIN runs' = DOMAIN runs
          /\ \A i \in DOMAIN runs : runs'[i].manual = runs[i].manual
      BY <3>1, RunsEnded
    <3>3. \A i \in DOMAIN runs :
            runs'[i].status = IF i \in FirstRunning THEN "ended" ELSE runs[i].status
      <4>1. \A i \in DOMAIN runs : runs[i] \in RunRecords
        BY <1>1
      <4> QED BY <3>1, <4>1 DEF RunRecords
    <3>4. unsaved = 0 => \A i \in DOMAIN runs : runs[i].status = "running" => i \in FirstRunning
      BY <1>1, <2>5 DEF LimitInv, OneRuns, FirstRunning
    <3>5. unsaved = 0 => \A i \in DOMAIN runs' : runs'[i].status # "running"
      BY <3>2, <3>3, <3>4
    <3> QED BY <1>1, <2>1, <2>2, <2>3, <3>2, <3>3, <3>5, NoneBegun
  <2> QED BY <2>4, <2>5
<1>h. CASE Pause \/ Resume \/ Delete \/ CompleteForAgent \/ \E c \in Cadences : UpdateCadence(c)
  <2>1. UNCHANGED <<runs, unsaved, limit, held>>
    BY <1>h DEF Pause, Resume, Delete, CompleteForAgent, UpdateCadence, Others
  <2>2. plan'.max = plan.max /\ (plan.status = "deleted" => plan'.status = "deleted")
    BY <1>1, <1>2, <1>h DEF Pause, Resume, Delete, CompleteForAgent, UpdateCadence, Editable, Plans
  <2> QED BY <1>4, <2>1, <2>2
\* A larger limit may follow, or none.
<1>5. ASSUME NEW m \in Limits, limit' = Larger(m), plan'.max = m, UNCHANGED <<runs, unsaved, held>>,
             plan.status = "deleted" => plan'.status = "deleted"
      PROVE  LimitInv'
  <2>1. m \in Nat
    BY SchedulesAssumption
  <2>2. /\ limit' # 0 => limit # 0 /\ limit <= limit' /\ m # 0 /\ m <= limit'
        /\ limit' \in Limits
    BY <1>1, <1>5, <2>1, SchedulesAssumption DEF Larger
  <2>3. Bounded'
    BY <1>5, <2>2 DEF Bounded
  <2> QED BY <1>1, <1>5, <2>2, <2>3, NoneBegun
<1>i. ASSUME NEW m \in Limits, NEW e \in Expiries, UpdateLimits(m, e) PROVE LimitInv'
  <2>1. limit' = Larger(m) /\ UNCHANGED <<runs, unsaved, held>> /\ plan.status # "deleted"
    BY <1>i DEF UpdateLimits, Others
  <2>2. plan'.max = m
    BY <1>1, <1>i DEF UpdateLimits, Plans
  <2> QED BY <1>5, <2>1, <2>2
<1>j. ASSUME NEW c \in Cadences, NEW m \in Limits, NEW e \in Expiries, Replace(c, m, e) PROVE LimitInv'
  <2>1. limit' = Larger(m) /\ UNCHANGED <<runs, unsaved, held>> /\ plan.status # "deleted" /\ plan'.max = m
    BY <1>j DEF Replace, Others, Editable
  <2> QED BY <1>5, <2>1
<1>k. CASE TargetGone \/ Tock \/ UNCHANGED scheduleVars
  <2>1. UNCHANGED <<runs, unsaved, limit, held, plan>>
    BY <1>k DEF TargetGone, Tock, scheduleVars
  <2> QED BY <1>4, <2>1
<1> QED BY <1>a, <1>b, <1>c, <1>d, <1>e, <1>f, <1>g, <1>h, <1>i, <1>j, <1>k DEF SchedulesNext

LEMMA MoreInit == SchedulesInit => SlotInv /\ LimitInv
<1> SUFFICES ASSUME SchedulesInit PROVE SlotInv /\ LimitInv
  OBVIOUS
<1>1. /\ plan.status = "active" /\ plan.next # 0 /\ held.pc = "none" /\ crashes = 0 /\ unsaved = 0
      /\ runs = <<>> /\ limit = plan.max /\ plan.max \in Limits
  BY DEF SchedulesInit, NotHeld
<1>2. SlotInv
  BY <1>1 DEF SlotInv, NextSlot
<1>3. runs \in Seq(RunRecords) /\ Len(runs) = 0 /\ DOMAIN runs = {}
  BY <1>1
<1>4. Cardinality(Scheduled(runs)) \in Nat /\ Cardinality(Scheduled(runs)) <= 0
  BY <1>3, NoMoreThanRuns
<1>5. limit \in Nat
  BY <1>1, SchedulesAssumption
<1>6. WithinLimit
  BY <1>4, <1>5 DEF WithinLimit, Scheduled
<1>7. Bounded /\ OneRuns
  BY <1>1, <1>3, <1>5 DEF Bounded, OneRuns
<1> QED BY <1>1, <1>2, <1>6, <1>7 DEF LimitInv

-----------------------------------------------------------------------------
(* Theorems *)

\* Whatever ticks, runs, edits, lost writes and restarts do to it, the record keeps its shape, and
\* the run the service holds is the last one begun (ScheduleService.executeSchedule).
THEOREM ScheduleTypeCorrect == SchedulesSpec => []SchedulesTypeOK
<1>1. ScheduleInv => SchedulesTypeOK
  BY DEF ScheduleInv
<1> QED BY <1>1, InvInit, InvStep, PTL DEF SchedulesSpec

\* For any number of overlapping ticks, and lists however old, no slot is claimed twice, out of order
\* or before it is due (ScheduleService.claimDueRun).
THEOREM SlotsRunOnce == SchedulesSpec => []SlotOnce
<1>1. ScheduleInv => SlotOnce
  <2> SUFFICES ASSUME ScheduleInv PROVE SlotOnce
    OBVIOUS
  <2>1. \A i \in DOMAIN runs : runs[i].slot <= runs[i].at
    BY DEF ScheduleInv, Due
  <2> QED BY <2>1 DEF ScheduleInv, Ordered, SlotOnce
<1> QED BY <1>1, InvInit, InvStep, PTL DEF SchedulesSpec

\* Whatever run ends late, a schedule that is paused or over has no next slot, and without a mishap
\* one that goes on has a next slot or a run that will give it one (ScheduleService.finishRun).
THEOREM AlwaysNextSlot == SchedulesSpec => []NextSlot
<1>1. SlotInv => NextSlot
  BY DEF SlotInv
<1> QED BY <1>1, InvInit, InvStep, MoreInit, SlotStep, PTL DEF SchedulesSpec

\* For any sequence of claims, edits of the limit, one-shot runs and restarts, no more slots are run
\* than the largest limit there was, as long as outcomes can be saved.
THEOREM LimitHolds == SchedulesSpec => []WithinLimit
<1>1. LimitInv => WithinLimit
  BY DEF LimitInv
<1> QED BY <1>1, InvInit, InvStep, MoreInit, SlotStep, LimitStep, PTL DEF SchedulesSpec
=============================================================================
