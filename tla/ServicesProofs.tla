----------------------------- MODULE ServicesProofs -----------------------------
(***************************************************************************)
(* The services side by side are each what its own module says, so what is *)
(* proved of one of them holds of the composition that the run checks.     *)
(***************************************************************************)
EXTENDS MCServices, CommittedEventsProofs, FinishSubscriptionsProofs, SchedulesProofs,
        DirectorySyncProofs

-----------------------------------------------------------------------------
(* Steps *)

LEMMA PartStays == [ServicesNext]_servicesVars => UNCHANGED part
BY DEF ServicesNext, EventsPart, FinishPart, MessagesPart, SchedulesPart, DirectoryPart, servicesVars

LEMMA EventsAlone == [ServicesNext]_servicesVars => [EventsNext]_eventVars
BY DEF ServicesNext, EventsPart, FinishPart, MessagesPart, SchedulesPart, DirectoryPart, servicesVars

LEMMA SchedulesAlone == [ServicesNext]_servicesVars => [SchedulesNext]_scheduleVars
BY DEF ServicesNext, EventsPart, FinishPart, MessagesPart, SchedulesPart, DirectoryPart, servicesVars

LEMMA DirectoryAlone == [ServicesNext]_servicesVars => [DirectoryNext]_directoryVars
BY DEF ServicesNext, EventsPart, FinishPart, MessagesPart, SchedulesPart, DirectoryPart, servicesVars

LEMMA FinishAlone == part # "messages" /\ [ServicesNext]_servicesVars => [FinishNext]_finishVars
BY DEF ServicesNext, EventsPart, FinishPart, MessagesPart, SchedulesPart, DirectoryPart, servicesVars

\* Where only the messages run nobody registers.
Idle ==
  /\ store = {} /\ mutations = <<>> /\ asked = 0
  /\ prompt = [w \in Regs |-> "none"]
  /\ watch = [w \in Regs |-> NoWatch]
  /\ closed = "no" /\ owed = 0

LEMMA MessagesAlone ==
  part = "messages" /\ [ServicesNext]_servicesVars
    => [MessagesNext]_messageVars /\ (Idle => Idle')
<1> SUFFICES ASSUME part = "messages", [ServicesNext]_servicesVars
             PROVE  [MessagesNext]_messageVars /\ (Idle => Idle')
  OBVIOUS
<1>1. /\ [MessagesNext]_messageVars
      /\ UNCHANGED <<store, watches, closed, world, owed, troubles>>
  <2>1. CASE MessagesPart
    BY <2>1 DEF MessagesPart
  <2>2. CASE EventsPart \/ SchedulesPart \/ DirectoryPart \/ UNCHANGED servicesVars
    BY <2>2 DEF EventsPart, SchedulesPart, DirectoryPart, servicesVars, finishVars
  <2>3. ~FinishPart
    BY DEF FinishPart
  <2> QED BY <2>1, <2>2, <2>3 DEF ServicesNext
<1> QED BY <1>1 DEF Idle, watches

LEMMA IdleTyped == MessagesTypeOK /\ Idle => FinishTypeOK
<1> SUFFICES ASSUME MessagesTypeOK, Idle PROVE FinishTypeOK
  OBVIOUS
<1>1. Shape
  BY NoWatchTyped, RegNat DEF Idle, Shape
<1>2. {w \in Group : ~watch[w].pending} = {}
  BY DEF Idle, Group, NoWatch
<1>3. Cardinality({w \in Group : ~watch[w].pending}) <= 1
  BY <1>2, FS_EmptySet
<1> QED BY <1>1, <1>3 DEF FinishTypeOK, Shape, Mutations, Watches

\* Where only the messages run they are all of other senders.
OnlyOthers == \A i \in DOMAIN admitted : admitted[i].from = Other

LEMMA OthersOnly ==
  ASSUME MessagesInv, OnlyOthers, [MessagesNext]_messageVars
  PROVE  OnlyOthers'
<1>1. CASE OtherSends
  <2>1. PICK turn \in {"steer", "interrupt"}, mode \in Modes \cup {NoMode} :
          Enqueue([from |-> Other, what |-> "message", turn |-> turn, mode |-> mode])
    BY <1>1 DEF OtherSends
  <2> DEFINE m == [from |-> Other, what |-> "message", turn |-> turn, mode |-> mode]
  <2>2. m \in Message /\ m.from = Other
    BY DEF Message, Other
  <2> HIDE DEF m
  <2>3. /\ Len(admitted) \in Nat /\ DOMAIN admitted = 1..Len(admitted)
        /\ DOMAIN admitted' = 1..(Len(admitted) + 1)
        /\ admitted'[Len(admitted) + 1] = m
        /\ \A i \in DOMAIN admitted : admitted'[i] = admitted[i]
    BY <2>1, <2>2, EnqueueKeeps, Positions DEF m, MessagesInv
  <2>4. \A i \in DOMAIN admitted' : i \in DOMAIN admitted \/ i = Len(admitted) + 1
    BY <2>3
  <2> QED BY <2>2, <2>3, <2>4 DEF OnlyOthers
<1>2. CASE ~OtherSends
  <2>1. UNCHANGED admitted
    BY <1>2 DEF MessagesNext, messageVars, QuietPeriodEnds, Dispatch, DispatchAcknowledged,
       DispatchFails, WaitForDispatch, WaitEnds, WaitRejected, CloseMessages, MessagesClosed
  <2> QED BY <2>1 DEF OnlyOthers
<1> QED BY <1>1, <1>2

LEMMA NothingOwed == MessagesInv /\ Idle /\ OnlyOthers => IntentKept /\ ReportedOnce
<1> SUFFICES ASSUME MessagesInv, Idle, OnlyOthers PROVE IntentKept /\ ReportedOnce
  OBVIOUS
<1>1. \A i \in DOMAIN handed : handed[i] \in DOMAIN admitted
  BY Positions DEF MessagesInv, Range
<1> QED BY <1>1 DEF Idle, OnlyOthers, IntentKept, ReportedOnce

-----------------------------------------------------------------------------
(* Theorems *)

\* Committed events, schedules and the directory run as they would alone; so do the subscriptions,
\* and where other senders and waits are let loose, the messages.
THEOREM SideBySide ==
  ServicesSpec => /\ EventsSpec /\ SchedulesSpec /\ DirectorySpec
                  /\ part # "messages" => FinishSpec
                  /\ part = "messages" => MessagesSpec
<1>1. ServicesInit => EventsInit /\ SchedulesInit /\ DirectoryInit /\ FinishInit /\ MessagesInit
  BY DEF ServicesInit, FinishInit
<1>2. [ServicesNext]_servicesVars
        => [EventsNext]_eventVars /\ [SchedulesNext]_scheduleVars /\ [DirectoryNext]_directoryVars
  BY EventsAlone, SchedulesAlone, DirectoryAlone
<1>3. part # "messages" /\ [ServicesNext]_servicesVars
        => [FinishNext]_finishVars /\ (part # "messages")'
  BY FinishAlone, PartStays
<1>4. part = "messages" /\ [ServicesNext]_servicesVars
        => [MessagesNext]_messageVars /\ (part = "messages")'
  BY MessagesAlone, PartStays
<1> QED BY <1>1, <1>2, <1>3, <1>4, PTL
        DEF ServicesSpec, EventsSpec, SchedulesSpec, DirectorySpec, FinishSpec, MessagesSpec

\* Every variable of every service keeps its shape.
THEOREM ServicesTypeCorrect == ServicesSpec => []ServicesTypeOK
<1>1. EventsTypeOK /\ SchedulesTypeOK /\ DirectoryTypeOK /\ FinishTypeOK => ServicesTypeOK
  BY DEF ServicesTypeOK
<1>2. ServicesInit => Idle
  BY DEF ServicesInit, FinishInit, Idle
<1>3. part = "messages" /\ Idle /\ [ServicesNext]_servicesVars => (part = "messages" /\ Idle)'
  BY MessagesAlone, PartStays
<1>4. MessagesTypeOK /\ Idle => FinishTypeOK
  BY IdleTyped
<1>5. ServicesSpec /\ part = "messages" => []FinishTypeOK
  BY <1>2, <1>3, <1>4, SideBySide, MessagesTypeCorrect, PTL DEF ServicesSpec
<1>6. part = "messages" \/ part # "messages"
  OBVIOUS
<1> QED BY <1>1, <1>5, <1>6, SideBySide, EventsTypeCorrect, ScheduleTypeCorrect,
           DirectoryTypeCorrect, FinishTypeCorrect, PTL

\* The services side by side keep every promise that is proved of one of them.
THEOREM ServicesKeepPromises ==
  ServicesSpec => /\ []NeverAhead /\ []InCallOrder /\ []LogIsPrefix
                  /\ []HandedInOrder /\ []WaitCovers
                  /\ []IntentKept /\ []ReportedOnce
                  /\ []SlotOnce /\ []NextSlot /\ []WithinLimit
                  /\ []CatchesUp
<1>1. ServicesSpec => /\ []NeverAhead /\ []InCallOrder /\ []LogIsPrefix
                      /\ []SlotOnce /\ []NextSlot /\ []WithinLimit
                      /\ []CatchesUp
  BY SideBySide, ShownIsOnDisk, DeliveredInOrder, HistoryHasNoHoles, SlotsRunOnce,
     AlwaysNextSlot, LimitHolds, AlwaysCatchesUp, PTL
<1>2. ServicesSpec /\ part = "messages" => []Idle /\ []OnlyOthers /\ []MessagesInv
  <2>1. ServicesInit => Idle /\ OnlyOthers
    BY DEF ServicesInit, FinishInit, MessagesInit, Idle, OnlyOthers
  <2>2. /\ part = "messages" /\ Idle /\ OnlyOthers /\ MessagesInv
        /\ [ServicesNext]_servicesVars
        => (part = "messages" /\ Idle /\ OnlyOthers)'
    BY MessagesAlone, OthersOnly, PartStays
  <2> QED BY <2>1, <2>2, SideBySide, MessagesInvariance, PTL DEF ServicesSpec
<1>3. MessagesInv => WaitCovers /\ HandedInOrder
  BY DEF MessagesInv, WaitInv, AdmissionInv, Rising, HandedInOrder
<1>4. FinishInv => MessagesInv
  BY DEF FinishInv
<1>5. part = "messages" \/ part # "messages"
  OBVIOUS
<1> QED BY <1>1, <1>2, <1>3, <1>4, <1>5, NothingOwed, SideBySide, FinishInvariance,
           IntentAlwaysKept, ReportsOnce, PTL
=============================================================================
