------------------------- MODULE CommittedEventsProofs -------------------------
(***************************************************************************)
(* What CommittedEvents promises for every number of rows, events, batches *)
(* and breaks: nothing is told before its rows are on disk, deliveries     *)
(* keep the order of their publication, and a history that is not known to *)
(* be incomplete has no holes.                                             *)
(***************************************************************************)
EXTENDS CommittedEvents, SequenceTheorems, TLAPS

Shown == [id : Nat, row : Nat, after : Nat, era : Nat, base : Nat, sure : BOOLEAN]
Rows == [era : Nat, n : Nat]
Drains == [live : BOOLEAN, entry : Events]

\* A group commit that rows may join is there and has not started.
OpsInv ==
  /\ started => ops # <<>>
  /\ joinable => ops # <<>> /\ (started => Len(ops) > 1)

\* A drain whose queue is still there waits for the entry at its head.
DrainInv == \A d \in drains : d.live => queue # <<>> /\ d.entry = queue[1]

TypeInv == EventsTypeOK /\ OpsInv /\ DrainInv

-----------------------------------------------------------------------------
(* Type correctness *)

\* A batch appends its rows to the disk, each under the run that recorded it.
LEMMA LandAdds ==
  ASSUME NEW rows \in Seq(Nat), disk \in Seq(Rows), era \in Nat, Land(rows)
  PROVE  /\ disk' \in Seq(Rows)
         /\ Len(disk') = Len(disk) + Len(rows)
         /\ \A i \in 1..Len(disk) : disk'[i] = disk[i]
         /\ \A i \in 1..Len(rows) : disk'[Len(disk) + i] = Row(rows[i])
<1>1. [i \in 1..Len(rows) |-> Row(rows[i])] \in Seq(Rows)
  <2>1. \A i \in 1..Len(rows) : Row(rows[i]) \in Rows
    BY DEF Row, Rows
  <2> QED BY <2>1
<1> QED BY <1>1 DEF Land

LEMMA TellTyped ==
  ASSUME shown \in Seq(Shown), era \in Nat, base \in Nat,
         NEW id \in Nat, NEW row \in Nat, NEW after \in Nat, Tell(id, row, after)
  PROVE  shown' \in Seq(Shown)
BY DEF Tell, Shown

\* Publishing keeps the shape of the queue, of its drains and of what was delivered.
LEMMA PublishTyped ==
  ASSUME EventsTypeOK, NEW row \in Nat, NEW after \in Nat, NEW write \in Nat, Publish(row, after, write)
  PROVE  /\ published' \in Nat
         /\ queue' \in Seq(Events)
         /\ drains' \subseteq Drains
         /\ shown' \in Seq(Shown)
<1> DEFINE id == published + 1
           e == [id |-> id, row |-> row, after |-> after, write |-> write]
<1>1. id \in Nat /\ e \in Events
  BY DEF EventsTypeOK, Events
<1>2. Tell(id, row, after) => shown' \in Seq(Shown)
  BY <1>1, TellTyped DEF EventsTypeOK, Shown
<1>3. queue \in Seq(Events) /\ drains \subseteq Drains /\ shown \in Seq(Shown)
  BY DEF EventsTypeOK, Drains, Shown
<1>4. [live |-> TRUE, entry |-> e] \in Drains
  BY <1>1 DEF Drains
<1>5. published' = id /\ published' \in Nat
  BY <1>1 DEF Publish
<1>6. CASE broken # "no" /\ UNCHANGED <<queue, drains>> /\ (Tell(id, row, after) \/ UNCHANGED shown)
  BY <1>2, <1>3, <1>5, <1>6
<1>7. CASE UNCHANGED <<queue, drains>> /\ Tell(id, row, after)
  BY <1>2, <1>3, <1>5, <1>7
<1>8. CASE queue' = Append(queue, e) /\ DrainFor(e) /\ UNCHANGED shown
  <2>1. queue' \in Seq(Events) /\ shown' \in Seq(Shown)
    BY <1>1, <1>3, <1>8
  <2>2. drains' \subseteq Drains
    <3> HIDE DEF e
    <3> QED BY <1>3, <1>4, <1>8 DEF DrainFor
  <2> QED BY <1>5, <2>1, <2>2
<1>9. \/ broken # "no" /\ UNCHANGED <<queue, drains>> /\ (Tell(id, row, after) \/ UNCHANGED shown)
      \/ UNCHANGED <<queue, drains>> /\ Tell(id, row, after)
      \/ queue' = Append(queue, e) /\ DrainFor(e) /\ UNCHANGED shown
  BY Zenon DEF Publish
<1> QED BY <1>6, <1>7, <1>8, <1>9

\* A drain begins with the first entry of a new queue.
LEMMA PublishDrains ==
  ASSUME EventsTypeOK, DrainInv, NEW row \in Nat, NEW after \in Nat, NEW write \in Nat,
         Publish(row, after, write)
  PROVE  DrainInv'
<1> DEFINE e == [id |-> published + 1, row |-> row, after |-> after, write |-> write]
<1>1. UNCHANGED <<queue, drains>> \/ (queue' = Append(queue, e) /\ DrainFor(e))
  BY Zenon DEF Publish
<1>2. queue \in Seq(Events) /\ e \in Events
  BY DEF EventsTypeOK, Events
<1>3. CASE UNCHANGED <<queue, drains>>
  BY <1>3 DEF DrainInv
<1>4. CASE queue' = Append(queue, e) /\ DrainFor(e)
  <2> HIDE DEF e
  <2>1. queue' # <<>> /\ (queue = <<>> => queue'[1] = e) /\ (queue # <<>> => queue'[1] = queue[1])
    BY <1>2, <1>4
  <2> QED BY <1>4, <2>1 DEF DrainInv, DrainFor
<1> QED BY <1>1, <1>3, <1>4

LEMMA TypeInit == EventsInit => TypeInv
<1> SUFFICES ASSUME EventsInit PROVE TypeInv
  OBVIOUS
<1>1. ops \in Seq(Seq(Nat)) /\ disk \in Seq(Rows) /\ queue \in Seq(Events) /\ shown \in Seq(Shown)
  BY DEF EventsInit
<1>2. drains \subseteq Drains /\ settled \subseteq Nat
  BY DEF EventsInit
<1>3. ending \in [on : BOOLEAN, after : Nat, rows : Nat]
  BY DEF EventsInit, NotEnding
<1>4. EventsTypeOK
  <2>1. \A i \in DOMAIN ops : Len(ops[i]) <= BatchRows
    BY DEF EventsInit
  <2>2. {era, base, recorded, published, reads, breaks} \subseteq Nat /\ broken = "no"
    BY DEF EventsInit
  <2>3. started \in BOOLEAN /\ joinable \in BOOLEAN
    BY DEF EventsInit
  <2> QED BY <1>1, <1>2, <1>3, <2>1, <2>2, <2>3 DEF EventsTypeOK, Rows, Shown, Drains
<1> QED BY <1>4 DEF EventsInit, TypeInv, OpsInv, DrainInv

\* The row goes into the open batch while it has room, or into a new one.
LEMMA JoinTyped ==
  ASSUME TypeInv, NEW n \in Nat, Join(n)
  PROVE  /\ ops' \in Seq(Seq(Nat))
         /\ \A i \in DOMAIN ops' : Len(ops'[i]) <= BatchRows
         /\ ops' # <<>>
         /\ joinable' \in BOOLEAN
         /\ started /\ joinable' => Len(ops') > 1
<1>1. ops \in Seq(Seq(Nat)) /\ \A i \in DOMAIN ops : Len(ops[i]) <= BatchRows
  BY DEF TypeInv, EventsTypeOK
<1>2. CASE joinable /\ Len(ops[Len(ops)]) < BatchRows
  <2>1. ops # <<>> /\ Len(ops) \in DOMAIN ops /\ ops[Len(ops)] \in Seq(Nat)
    BY <1>1, <1>2 DEF TypeInv, OpsInv
  <2>2. ops' = [ops EXCEPT ![Len(ops)] = Append(@, n)] /\ joinable' = joinable
    BY <1>2 DEF Join
  <2>3. Append(ops[Len(ops)], n) \in Seq(Nat) /\ Len(Append(ops[Len(ops)], n)) = Len(ops[Len(ops)]) + 1
    BY <2>1
  <2>4. DOMAIN ops' = DOMAIN ops /\ ops' \in Seq(Seq(Nat)) /\ Len(ops') = Len(ops)
    BY <1>1, <2>1, <2>2, <2>3
  <2>5. Len(ops'[Len(ops)]) <= BatchRows
    BY <1>2, <2>1, <2>2, <2>3, EventsAssumption
  <2>6. \A i \in DOMAIN ops' : Len(ops'[i]) <= BatchRows
    BY <1>1, <2>1, <2>2, <2>4, <2>5
  <2> QED BY <1>2, <2>1, <2>2, <2>4, <2>6 DEF TypeInv, EventsTypeOK, OpsInv
<1>3. CASE ~(joinable /\ Len(ops[Len(ops)]) < BatchRows)
  <2>1. ops' = Append(ops, <<n>>) /\ joinable' = TRUE
    BY <1>3 DEF Join
  <2>2. <<n>> \in Seq(Nat) /\ Len(<<n>>) = 1 /\ 1 <= BatchRows
    BY EventsAssumption
  <2>3. ops' \in Seq(Seq(Nat)) /\ Len(ops') = Len(ops) + 1
    BY <1>1, <2>1, <2>2
  <2>4. \A i \in DOMAIN ops' : Len(ops'[i]) <= BatchRows
    BY <1>1, <2>1, <2>2, <2>3
  <2> QED BY <1>1, <2>1, <2>3, <2>4 DEF TypeInv, OpsInv
<1> QED BY <1>2, <1>3

LEMMA TailLeft ==
  ASSUME NEW S, NEW s \in Seq(S), Len(s) > 1
  PROVE  Tail(s) # <<>>
<1>1. Len(<<>>) = 0 /\ s # <<>> /\ Len(s) \in Nat
  BY EmptySeq
<1>2. Len(Tail(s)) = Len(s) - 1
  BY <1>1, HeadTailProperties
<1>3. Len(Tail(s)) # 0
  BY <1>1, <1>2
<1> QED BY <1>1, <1>3

\* Dropping the operation that ended keeps the queue of the log in shape.
LEMMA OpEndsTyped ==
  ASSUME TypeInv, OpEnds
  PROVE  /\ Head(ops) \in Seq(Nat)
         /\ ops' \in Seq(Seq(Nat))
         /\ \A i \in DOMAIN ops' : Len(ops'[i]) <= BatchRows
         /\ settled' \subseteq Nat
         /\ OpsInv'
         /\ UNCHANGED <<era, base, recorded, joinable, reads>> /\ started' = FALSE
<1>1. ops # <<>> /\ ops \in Seq(Seq(Nat)) /\ \A i \in DOMAIN ops : Len(ops[i]) <= BatchRows
  BY DEF TypeInv, EventsTypeOK, OpsInv, OpEnds
<1>2. Head(ops) = ops[1] /\ Head(ops) \in Seq(Nat)
  BY <1>1
<1>3. ops' = Tail(ops) /\ ops' \in Seq(Seq(Nat)) /\ Len(ops') = Len(ops) - 1
  BY <1>1 DEF OpEnds
<1>4. \A i \in DOMAIN ops' : ops'[i] = ops[i + 1] /\ i + 1 \in DOMAIN ops
  BY <1>1, <1>3
<1>5. settled' \subseteq Nat
  <2>1. Range(Head(ops)) \subseteq Nat
    BY <1>2 DEF Range
  <2> QED BY <2>1 DEF TypeInv, EventsTypeOK, OpEnds
<1>6. OpsInv'
  <2>1. started /\ ~started' /\ (joinable' => joinable)
    BY DEF OpEnds
  <2>2. joinable => Len(ops) > 1
    BY <2>1 DEF TypeInv, OpsInv
  <2>3. Len(ops) > 1 => ops' # <<>>
    BY <1>1, <1>3, TailLeft
  <2> QED BY <2>1, <2>2, <2>3 DEF OpsInv
<1>7. \A i \in DOMAIN ops' : Len(ops'[i]) <= BatchRows
  BY <1>1, <1>4
<1> QED BY <1>2, <1>3, <1>5, <1>6, <1>7 DEF OpEnds

LEMMA DiscardTyped ==
  ASSUME TypeInv, Discard
  PROVE  /\ queue' \in Seq(Events) /\ drains' \subseteq Drains
         /\ ending' \in [on : BOOLEAN, after : Nat, rows : Nat]
         /\ DrainInv'
         /\ UNCHANGED <<published, shown>>
<1>1. drains' \subseteq Drains
  <2> SUFFICES ASSUME NEW d \in drains PROVE [d EXCEPT !.live = FALSE] \in Drains
    BY DEF Discard
  <2>1. d \in Drains
    BY DEF TypeInv, EventsTypeOK, Drains
  <2> QED BY <2>1 DEF Drains
<1>2. ending' \in [on : BOOLEAN, after : Nat, rows : Nat]
  BY DEF TypeInv, EventsTypeOK, Discard, NotEnding
<1>3. DrainInv'
  <2> SUFFICES ASSUME NEW d \in drains PROVE ~[d EXCEPT !.live = FALSE].live
    BY DEF Discard, DrainInv
  <2>1. d \in Drains
    BY DEF TypeInv, EventsTypeOK, Drains
  <2> QED BY <2>1 DEF Drains
<1> QED BY <1>1, <1>2, <1>3 DEF Discard

\* Every step keeps the shape of every variable.
LEMMA TypeStep == TypeInv /\ [EventsNext]_eventVars => TypeInv'
<1> SUFFICES ASSUME TypeInv, [EventsNext]_eventVars PROVE TypeInv'
  OBVIOUS
<1> USE DEF TypeInv
<1>1. CASE PublishPlain
  <2>1. recorded \in Nat /\ PendingWrite \in Nat
    BY DEF EventsTypeOK, PendingWrite
  <2>2. Publish(0, recorded, PendingWrite) /\ UNCHANGED <<log, broken, ending, bounds>>
    BY <1>1 DEF PublishPlain
  <2>3. DrainInv'
    BY <2>1, <2>2, PublishDrains
  <2> QED BY <2>1, <2>2, <2>3, PublishTyped DEF EventsTypeOK, OpsInv, log, bounds, Drains, Shown
<1>2. CASE RecordTimeline
  <2> DEFINE n == recorded + 1
  <2>1. n \in Nat /\ Join(n) /\ Publish(n, n, n) /\ recorded' = n
        /\ UNCHANGED <<era, base, settled, started, disk, broken, ending, bounds>>
    BY <1>2 DEF EventsTypeOK, RecordTimeline
  <2> HIDE DEF n
  <2>2. EventsTypeOK'
    BY <2>1, PublishTyped, JoinTyped DEF EventsTypeOK, bounds, Drains, Shown
  <2>3. OpsInv'
    BY <2>1, JoinTyped DEF OpsInv
  <2>4. DrainInv'
    BY <2>1, PublishDrains
  <2> QED BY <2>2, <2>3, <2>4
<1>3. CASE ReadLog
  <2>1. ops' = Append(ops, <<>>) /\ ops \in Seq(Seq(Nat)) /\ <<>> \in Seq(Nat) /\ Len(<<>>) = 0
    BY <1>3 DEF ReadLog, EventsTypeOK
  <2>2. ops' \in Seq(Seq(Nat)) /\ Len(ops') = Len(ops) + 1
    BY <2>1
  <2>3. \A i \in DOMAIN ops' : Len(ops'[i]) <= BatchRows
    <3> TAKE i \in DOMAIN ops'
    <3>1. CASE i = Len(ops) + 1
      BY <2>1, <3>1, EventsAssumption
    <3>2. CASE i # Len(ops) + 1
      <4>1. i \in DOMAIN ops /\ ops'[i] = ops[i]
        BY <2>1, <2>2, <3>2
      <4> QED BY <4>1 DEF EventsTypeOK
    <3> QED BY <3>1, <3>2
  <2>4. reads' \in Nat /\ joinable' = FALSE /\ UNCHANGED <<era, base, recorded, settled, started, disk, broken, feed, ending, breaks>>
    BY <1>3 DEF ReadLog, EventsTypeOK
  <2>5. OpsInv'
    BY <2>1, <2>2, <2>4 DEF OpsInv
  <2> QED BY <2>2, <2>3, <2>4, <2>5 DEF EventsTypeOK, feed, DrainInv
<1>4. CASE StartOp
  BY <1>4 DEF StartOp, EventsTypeOK, OpsInv, feed, bounds, DrainInv
<1>5. CASE OpSucceeds
  <2>1. Head(ops) \in Seq(Nat) /\ OpEnds /\ Land(Head(ops)) /\ UNCHANGED <<broken, feed, ending, breaks>>
    BY <1>5, OpEndsTyped DEF OpSucceeds
  <2>2. disk' \in Seq(Rows)
    BY <2>1, LandAdds DEF EventsTypeOK, Rows
  <2> QED BY <2>1, <2>2, OpEndsTyped DEF EventsTypeOK, feed, Rows, DrainInv
<1>6. CASE OpFails
  <2>0. OpEnds /\ Discard /\ broken' = "write" /\ (Land(Head(ops)) \/ UNCHANGED disk)
    BY <1>6 DEF OpFails
  <2>1. Head(ops) \in Seq(Nat) /\ breaks' \in Nat
    <3>1. breaks \in Nat /\ breaks' = breaks + 1
      BY <1>6 DEF OpFails, Break, EventsTypeOK
    <3> QED BY <2>0, <3>1, OpEndsTyped
  <2>2. disk' \in Seq(Rows)
    BY <2>0, <2>1, LandAdds DEF EventsTypeOK, Rows
  <2> QED BY <2>0, <2>1, <2>2, OpEndsTyped, DiscardTyped DEF EventsTypeOK, Rows, Drains, DrainInv
<1>7. CASE Overload
  <2>1. Discard /\ broken' = "overload" /\ breaks' \in Nat /\ UNCHANGED <<log, reads>>
    BY <1>7 DEF Overload, Break, EventsTypeOK
  <2> QED BY <2>1, DiscardTyped DEF EventsTypeOK, OpsInv, log, Drains, DrainInv
<1>8. CASE Recover
  BY <1>8 DEF Recover, EventsTypeOK, OpsInv, log, feed, bounds, DrainInv
<1>9. CASE \E d \in drains : Drain(d)
  <2>1. PICK d \in drains : Drain(d)
    BY <1>9
  <2>2. d \in Drains /\ d.entry \in Events /\ queue \in Seq(Events) /\ drains \subseteq Drains
    BY DEF EventsTypeOK, Drains
  <2>3. UNCHANGED <<log, broken, published, ending, bounds>>
    BY <2>1 DEF Drain
  <2>4. CASE ~d.live
    BY <2>1, <2>3, <2>4 DEF Drain, EventsTypeOK, OpsInv, log, bounds, DrainInv
  <2>5. CASE d.live
    <3>1. shown' \in Seq(Shown)
      <4>1. CASE UNCHANGED shown
        BY <4>1 DEF EventsTypeOK, Shown
      <4>2. CASE Tell(d.entry.id, d.entry.row, d.entry.after)
        BY <2>2, <4>2, TellTyped DEF EventsTypeOK, Events, Shown
      <4> QED BY <2>1, <2>5, <4>1, <4>2 DEF Drain
    <3>2. queue' = Tail(queue) /\ queue # <<>> /\ queue' \in Seq(Events)
      BY <2>1, <2>2, <2>5 DEF Drain, DrainInv
    <3>3. drains' = (drains \ {d}) \cup
                      IF Len(queue) > 1 THEN {[live |-> TRUE, entry |-> queue[2]]} ELSE {}
      BY <2>1, <2>5 DEF Drain
    <3>4. Len(queue) > 1 => [live |-> TRUE, entry |-> queue[2]] \in Drains
      BY <2>2 DEF Drains
    <3>5. DrainInv'
      <4> SUFFICES ASSUME NEW f \in drains', f.live
                   PROVE  Len(queue) > 1 /\ f.entry = queue[2]
        BY <2>2, <3>2 DEF DrainInv
      <4>1. f \notin drains \ {d}
        BY <2>2, <2>5 DEF DrainInv, Drains
      <4> QED BY <3>3, <4>1
    <3> QED BY <2>2, <2>3, <3>1, <3>2, <3>3, <3>4, <3>5 DEF EventsTypeOK, OpsInv, log, bounds, Shown, Drains
  <2> QED BY <2>4, <2>5
<1>10. CASE BeginEnd
  BY <1>10 DEF BeginEnd, EventsTypeOK, OpsInv, log, feed, bounds, DrainInv
<1>11. CASE EndTurn
  <2>1. shown' \in Seq(Shown)
    BY <1>11, TellTyped DEF EndTurn, EventsTypeOK, Shown
  <2> QED BY <1>11, <2>1 DEF EndTurn, EventsTypeOK, OpsInv, log, bounds, NotEnding, Shown, DrainInv
<1>12. CASE Crash
  <2>1. disk' \in Seq(Rows)
    <3>1. CASE UNCHANGED disk
      BY <3>1 DEF EventsTypeOK, Rows
    <3>2. CASE started /\ Land(Head(ops))
      <4>1. Head(ops) \in Seq(Nat)
        BY <3>2 DEF EventsTypeOK, OpsInv
      <4> QED BY <3>2, <4>1, LandAdds DEF EventsTypeOK, Rows
    <3> QED BY <1>12, <3>1, <3>2 DEF Crash
  <2>2. base' \in Nat
    <3>1. disk' # <<>> => Len(disk') \in DOMAIN disk' /\ disk'[Len(disk')] \in Rows
      BY <2>1
    <3> QED BY <1>12, <3>1 DEF Crash, Rows
  <2>3. ops' = <<>> /\ queue' = <<>> /\ drains' = {} /\ settled' = {} /\ broken' = "no"
        /\ started' = FALSE /\ joinable' = FALSE /\ ending' = NotEnding
        /\ UNCHANGED <<published, shown, reads>> /\ recorded' = base'
        /\ era' \in Nat /\ breaks' \in Nat
    BY <1>12 DEF Crash, Break, EventsTypeOK
  <2>4. ops' \in Seq(Seq(Nat)) /\ (\A i \in DOMAIN ops' : Len(ops'[i]) <= BatchRows)
        /\ queue' \in Seq(Events)
    BY <2>3
  <2> QED BY <2>1, <2>2, <2>3, <2>4 DEF EventsTypeOK, OpsInv, DrainInv, NotEnding, Rows
<1>13. CASE UNCHANGED eventVars
  BY <1>13 DEF eventVars, log, feed, bounds, EventsTypeOK, OpsInv, DrainInv
<1> QED
  BY <1>1, <1>2, <1>3, <1>4, <1>5, <1>6, <1>7, <1>8, <1>9, <1>10, <1>11, <1>12, <1>13 DEF EventsNext

\* Whatever fails or crashes, every variable keeps its shape and no group commit grows past its
\* limit (timeline-append-batcher, committed events of the agent manager).
THEOREM EventsTypeCorrect == EventsSpec => []EventsTypeOK
<1>1. TypeInv => EventsTypeOK
  BY DEF TypeInv
<1> QED BY <1>1, TypeInit, TypeStep, PTL DEF EventsSpec

-----------------------------------------------------------------------------
(* Nothing is told ahead of the disk *)

\* A delivery waits for the write of the rows before it, or they are written already.
Sound(e) ==
  /\ e.id <= published
  /\ e.write \in {0, e.after}
  /\ e.write = 0 => Written(e.after)
  /\ e.row # 0 => e.row = e.after /\ e.write = e.row

SoundInv == \A i \in DOMAIN queue : Sound(queue[i])

\* An incomplete history has no queue: it was discarded, and nothing is queued any more.
BrokenInv == broken # "no" => queue = <<>>

\* As long as the last row is not written its own event waits in the queue.
LastInv == broken = "no" => Written(recorded) \/ \E i \in DOMAIN queue : queue[i].row = recorded

\* The end of a turn waits for the event of the last row before it, unless that row is written.
EndInv ==
  ending.on =>
    /\ ending.rows <= recorded
    /\ broken = "no" =>
         \/ Written(ending.rows)
         \/ \E i \in DOMAIN queue : queue[i].id <= ending.after /\ queue[i].row = ending.rows

\* Unless a write failed, the rows whose write settled are on disk.
DiskInv == broken # "write" => \A n \in settled : Row(n) \in Range(disk)

AheadInv == SoundInv /\ BrokenInv /\ LastInv /\ EndInv /\ DiskInv /\ NeverAhead

LEMMA WrittenGrows ==
  ASSUME base' = base, settled \subseteq settled'
  PROVE  \A n : Written(n) => Written(n)'
BY DEF Written

LEMMA WrittenBelow ==
  ASSUME base \in Nat, NEW m \in Nat, NEW n \in Nat, m <= n, Written(n)
  PROVE  Written(m)
BY DEF Written

\* What the disk holds stays.
LEMMA DiskGrows ==
  ASSUME NEW rows \in Seq(Nat), disk \in Seq(Rows), era \in Nat, Land(rows)
  PROVE  /\ Range(disk) \subseteq Range(disk')
         /\ \A n \in Range(rows) : Row(n) \in Range(disk')
<1>1. Len(disk) \in Nat /\ Len(rows) \in Nat /\ DOMAIN disk = 1..Len(disk) /\ DOMAIN rows = 1..Len(rows)
      /\ DOMAIN disk' = 1..(Len(disk) + Len(rows))
  BY LandAdds
<1>2. ASSUME NEW x \in Range(disk) PROVE x \in Range(disk')
  <2>1. PICK i \in DOMAIN disk : x = disk[i]
    BY DEF Range
  <2>2. i \in DOMAIN disk' /\ disk'[i] = x
    BY <1>1, <2>1, LandAdds
  <2> QED BY <2>2 DEF Range
<1>3. ASSUME NEW n \in Range(rows) PROVE Row(n) \in Range(disk')
  <2>1. PICK i \in DOMAIN rows : n = rows[i]
    BY DEF Range
  <2>2. Len(disk) + i \in DOMAIN disk' /\ disk'[Len(disk) + i] = Row(n)
    BY <1>1, <2>1, LandAdds
  <2> QED BY <2>2 DEF Range
<1> QED BY <1>2, <1>3

\* What is told with a complete history is covered by the disk.
LEMMA TellSure ==
  ASSUME TypeInv, NeverAhead, DiskInv, UNCHANGED disk,
         NEW id \in Nat, NEW row \in Nat, NEW after \in Nat, Tell(id, row, after),
         broken = "no" => Written(after)
  PROVE  NeverAhead'
<1> DEFINE x == [id |-> id, row |-> row, after |-> after, era |-> era, base |-> base,
                 sure |-> broken = "no"]
<1>1. shown \in Seq(Shown) /\ shown' = Append(shown, x)
  BY DEF TypeInv, EventsTypeOK, Shown, Tell
<1>2. x.sure => \A n \in x.base + 1 .. x.after : [era |-> x.era, n |-> n] \in Range(disk)
  BY DEF DiskInv, Written, Row
<1> HIDE DEF x
<1> SUFFICES ASSUME NEW i \in DOMAIN shown', shown'[i].sure,
                    NEW n \in shown'[i].base + 1 .. shown'[i].after
             PROVE  [era |-> shown'[i].era, n |-> n] \in Range(disk)
  BY DEF NeverAhead
<1>3. CASE i = Len(shown) + 1
  BY <1>1, <1>2, <1>3
<1>4. CASE i # Len(shown) + 1
  <2>1. i \in DOMAIN shown /\ shown'[i] = shown[i]
    BY <1>1, <1>4
  <2> QED BY <2>1 DEF NeverAhead
<1> QED BY <1>3, <1>4

\* What a delivery waits for stays right while rows are written and events published.
LEMMA SoundKept ==
  ASSUME published \in Nat, published' \in Nat, published <= published',
         base' = base, settled \subseteq settled'
  PROVE  \A x \in Events : Sound(x) => Sound(x)'
<1> TAKE x \in Events
<1>1. x.id \in Nat
  BY DEF Events
<1>2. Written(x.after) => Written(x.after)'
  BY DEF Written
<1> QED BY <1>1, <1>2 DEF Sound

LEMMA SoundAll ==
  ASSUME queue \in Seq(Events), queue' \in Seq(Events), SoundInv,
         \A x \in Events : Sound(x) => Sound(x)',
         \A i \in DOMAIN queue' : \/ Sound(queue[i])'
                                  \/ \E j \in DOMAIN queue : queue'[i] = queue[j]
  PROVE  SoundInv'
<1> SUFFICES ASSUME NEW i \in DOMAIN queue' PROVE Sound(queue[i])'
  BY DEF SoundInv
<1>1. CASE \E j \in DOMAIN queue : queue'[i] = queue[j]
  <2>1. PICK j \in DOMAIN queue : queue'[i] = queue[j]
    BY <1>1
  <2>2. queue[j] \in Events /\ Sound(queue[j])
    BY DEF SoundInv
  <2>3. PICK x \in Events : x = queue[j] /\ Sound(x) /\ Sound(x)'
    BY <2>2
  <2> QED BY <2>1, <2>3 DEF Sound
<1> QED BY <1>1

\* Publishing keeps the queue and what its entries wait for.
LEMMA PublishKeeps ==
  ASSUME TypeInv, SoundInv, BrokenInv, UNCHANGED <<base, settled, broken>>,
         NEW row \in Nat, NEW after \in Nat, NEW write \in Nat, Publish(row, after, write),
         write \in {0, after}, write = 0 => Written(after), row # 0 => row = after /\ write = row
  PROVE  /\ SoundInv' /\ BrokenInv'
         /\ \A i \in DOMAIN queue : i \in DOMAIN queue' /\ queue'[i] = queue[i]
         /\ broken = "no" /\ write # 0 => \E i \in DOMAIN queue' : queue'[i].row = row
<1> DEFINE e == [id |-> published + 1, row |-> row, after |-> after, write |-> write]
<1>1. \/ UNCHANGED queue /\ (broken # "no" \/ write = 0)
      \/ broken = "no" /\ queue' = Append(queue, e)
  BY Zenon DEF Publish
<1>2. published \in Nat /\ queue \in Seq(Events) /\ e \in Events
  BY DEF TypeInv, EventsTypeOK, Events
<1>3. published' = published + 1
  BY DEF Publish
<1>4. queue' \in Seq(Events) /\ \A x \in Events : Sound(x) => Sound(x)'
  <2>1. queue' \in Seq(Events)
    BY <1>1, <1>2
  <2>2. published' \in Nat /\ published <= published'
    BY <1>2, <1>3
  <2> QED BY <1>2, <2>1, <2>2, SoundKept
<1>5. CASE UNCHANGED queue /\ (broken # "no" \/ write = 0)
  BY <1>2, <1>4, <1>5, SoundAll DEF BrokenInv
<1>6. CASE broken = "no" /\ queue' = Append(queue, e)
  <2>1. e.id = published' /\ e.row = row /\ e.after = after /\ e.write = write
    BY <1>3
  <2>2. Written(after)' <=> Written(after)
    BY DEF Written
  <2>3. published' \in Nat
    BY <1>2, <1>3
  <2> HIDE DEF e
  <2>4. /\ DOMAIN queue' = 1..(Len(queue) + 1) /\ DOMAIN queue = 1..Len(queue) /\ Len(queue) \in Nat
        /\ queue'[Len(queue) + 1] = e
        /\ \A i \in DOMAIN queue : queue'[i] = queue[i]
    BY <1>2, <1>6
  <2>5. \A i \in DOMAIN queue' : \/ Sound(queue[i])'
                                 \/ \E j \in DOMAIN queue : queue'[i] = queue[j]
    <3> TAKE i \in DOMAIN queue'
    <3>1. CASE i = Len(queue) + 1
      <4>1. queue'[i] = e
        BY <2>4, <3>1
      <4> QED BY <2>1, <2>2, <2>3, <4>1 DEF Sound
    <3>2. CASE i # Len(queue) + 1
      <4>1. i \in DOMAIN queue
        BY <2>4, <3>2
      <4> QED BY <2>4, <4>1
    <3> QED BY <3>1, <3>2
  <2>6. BrokenInv'
    BY <1>6 DEF BrokenInv
  <2>7. \E i \in DOMAIN queue' : queue'[i].row = row
    BY <2>1, <2>4
  <2> QED BY <1>2, <1>4, <2>4, <2>5, <2>6, <2>7, SoundAll
<1> QED BY <1>1, <1>5, <1>6

\* Whoever waits for nothing but the disk keeps what it knows while the disk grows.
LEMMA LogKeeps ==
  ASSUME TypeInv, TypeInv', AheadInv, UNCHANGED <<base, recorded, broken, feed, ending>>,
         settled \subseteq settled', Range(disk) \subseteq Range(disk'), DiskInv'
  PROVE  AheadInv'
<1>1. queue' = queue /\ published' = published /\ shown' = shown /\ published \in Nat /\ queue \in Seq(Events)
  BY DEF feed, TypeInv, EventsTypeOK
<1>2. \A n : Written(n) => Written(n)'
  BY WrittenGrows
<1>3. SoundInv'
  BY <1>1, SoundKept, SoundAll DEF AheadInv
<1>4. BrokenInv' /\ LastInv' /\ EndInv'
  BY <1>1, <1>2 DEF AheadInv, BrokenInv, LastInv, EndInv
<1>5. NeverAhead'
  BY <1>1 DEF AheadInv, NeverAhead
<1> QED BY <1>3, <1>4, <1>5 DEF AheadInv

\* When the queue is discarded nobody waits for a delivery any more.
LEMMA DiscardKeeps ==
  ASSUME TypeInv, TypeInv', AheadInv, UNCHANGED <<base, recorded>>, Discard, broken' # "no",
         settled \subseteq settled', Range(disk) \subseteq Range(disk'), DiskInv'
  PROVE  AheadInv'
<1>1. queue' = <<>> /\ shown' = shown /\ (ending' = ending \/ ending' = NotEnding)
  BY DEF Discard
<1>2. SoundInv' /\ BrokenInv' /\ LastInv'
  BY <1>1 DEF SoundInv, BrokenInv, LastInv
<1>3. EndInv'
  BY <1>1 DEF AheadInv, EndInv, NotEnding
<1>4. NeverAhead'
  BY <1>1 DEF AheadInv, NeverAhead
<1> QED BY <1>2, <1>3, <1>4 DEF AheadInv

LEMMA AheadInit == EventsInit => AheadInv
<1> SUFFICES ASSUME EventsInit PROVE AheadInv
  OBVIOUS
<1>1. DOMAIN queue = {} /\ DOMAIN shown = {} /\ settled = {} /\ recorded = 0 /\ base = 0 /\ ~ending.on
  BY DEF EventsInit, NotEnding
<1>2. Written(recorded)
  BY <1>1 DEF Written
<1> QED BY <1>1, <1>2 DEF EventsInit, AheadInv, SoundInv, BrokenInv, LastInv, EndInv, DiskInv, NeverAhead

\* Every step keeps what the deliveries, the end of a turn and the disk promise one another.
LEMMA AheadStep == TypeInv /\ TypeInv' /\ AheadInv /\ [EventsNext]_eventVars => AheadInv'
<1> SUFFICES ASSUME TypeInv, TypeInv', AheadInv, [EventsNext]_eventVars PROVE AheadInv'
  OBVIOUS
<1>0. SoundInv /\ BrokenInv /\ LastInv /\ EndInv /\ DiskInv /\ NeverAhead
  BY DEF AheadInv
<1>1. {base, recorded, published} \subseteq Nat /\ queue \in Seq(Events) /\ queue' \in Seq(Events) /\ disk \in Seq(Rows)
      /\ era \in Nat
  BY DEF TypeInv, EventsTypeOK, Rows
<1>a. CASE PublishPlain
  <2>1. Publish(0, recorded, PendingWrite) /\ UNCHANGED <<log, broken, ending, bounds>>
    BY <1>a DEF PublishPlain
  <2>2. UNCHANGED <<era, base, recorded, settled, disk, broken, ending>>
    BY <2>1 DEF log
  <2>3. PendingWrite \in Nat /\ PendingWrite \in {0, recorded} /\ (PendingWrite = 0 => Written(recorded))
    BY <1>1 DEF PendingWrite, Written
  <2>4. /\ SoundInv' /\ BrokenInv'
        /\ \A i \in DOMAIN queue : i \in DOMAIN queue' /\ queue'[i] = queue[i]
    BY <1>0, <1>1, <2>1, <2>2, <2>3, PublishKeeps
  <2>5. LastInv' /\ EndInv'
    BY <1>0, <2>2, <2>4 DEF LastInv, EndInv, Written
  <2>6. DiskInv'
    BY <1>0, <2>2 DEF DiskInv, Row
  <2>7. NeverAhead'
    <3>1. CASE UNCHANGED shown
      BY <1>0, <2>2, <3>1 DEF NeverAhead
    <3>2. CASE Tell(published + 1, 0, recorded) /\ (broken = "no" => PendingWrite = 0)
      <4>1. published + 1 \in Nat /\ 0 \in Nat /\ recorded \in Nat /\ (broken = "no" => Written(recorded))
        BY <1>1, <2>3, <3>2
      <4> QED BY <1>0, <2>2, <3>2, <4>1, TellSure
    <3> QED BY <2>1, <3>1, <3>2, Zenon DEF Publish
  <2> QED BY <2>4, <2>5, <2>6, <2>7 DEF AheadInv
<1>b. CASE RecordTimeline
  <2> DEFINE n == recorded + 1
  <2>1. Publish(n, n, n) /\ recorded' = n /\ UNCHANGED <<era, base, settled, disk, broken, ending>> /\ broken = "no"
    BY <1>b DEF RecordTimeline
  <2>2. n \in Nat /\ n # 0 /\ recorded <= n
    BY <1>1
  <2> HIDE DEF n
  <2>3. /\ SoundInv' /\ BrokenInv'
        /\ \A i \in DOMAIN queue : i \in DOMAIN queue' /\ queue'[i] = queue[i]
        /\ \E i \in DOMAIN queue' : queue'[i].row = n
    BY <1>0, <2>1, <2>2, PublishKeeps
  <2>4. LastInv'
    BY <2>1, <2>3 DEF LastInv
  <2>5. EndInv'
    <3>0. ending.rows \in Nat
      BY DEF TypeInv, EventsTypeOK
    <3>1. ending.on => ending.rows <= n
      BY <1>0, <1>1, <2>2, <3>0 DEF EndInv
    <3> QED BY <1>0, <2>1, <2>3, <3>1 DEF EndInv, Written
  <2>6. DiskInv'
    BY <1>0, <2>1 DEF DiskInv, Row
  <2>7. NeverAhead'
    <3>1. UNCHANGED shown
      BY <2>1, <2>2, Zenon DEF Publish
    <3> QED BY <1>0, <2>1, <3>1 DEF NeverAhead
  <2> QED BY <2>3, <2>4, <2>5, <2>6, <2>7 DEF AheadInv
<1>c. CASE ReadLog \/ StartOp \/ UNCHANGED eventVars
  <2>1. UNCHANGED <<era, base, recorded, settled, disk, broken, feed, ending>>
    BY <1>c DEF ReadLog, StartOp, eventVars, log
  <2>2. DiskInv'
    BY <1>0, <2>1 DEF DiskInv, Row
  <2> QED BY <2>1, <2>2, LogKeeps
<1>d. CASE OpSucceeds
  <2>1. OpEnds /\ Land(Head(ops)) /\ UNCHANGED <<broken, feed, ending>>
    BY <1>d DEF OpSucceeds
  <2>2. Head(ops) \in Seq(Nat) /\ UNCHANGED <<era, base, recorded>> /\ settled' = settled \cup Range(Head(ops))
    BY <2>1, OpEndsTyped DEF OpEnds
  <2>3. Range(disk) \subseteq Range(disk') /\ \A n \in Range(Head(ops)) : Row(n) \in Range(disk')
    BY <1>1, <2>1, <2>2, DiskGrows
  <2>4. DiskInv'
    BY <1>0, <2>1, <2>2, <2>3 DEF DiskInv, Row
  <2> QED BY <2>1, <2>2, <2>3, <2>4, LogKeeps
<1>e. CASE OpFails
  <2>1. OpEnds /\ Discard /\ broken' = "write" /\ (Land(Head(ops)) \/ UNCHANGED disk)
    BY <1>e DEF OpFails
  <2>2. Head(ops) \in Seq(Nat) /\ UNCHANGED <<era, base, recorded>> /\ settled \subseteq settled'
    BY <2>1, OpEndsTyped DEF OpEnds
  <2>3. Range(disk) \subseteq Range(disk')
    BY <1>1, <2>1, <2>2, DiskGrows
  <2>4. DiskInv'
    BY <2>1 DEF DiskInv
  <2> QED BY <2>1, <2>2, <2>3, <2>4, DiscardKeeps
<1>f. CASE Overload
  <2>1. Discard /\ broken = "no" /\ broken' = "overload" /\ UNCHANGED log
    BY <1>f DEF Overload
  <2>2. UNCHANGED <<era, base, recorded, settled, disk>>
    BY <2>1 DEF log
  <2>3. DiskInv'
    BY <1>0, <2>1, <2>2 DEF DiskInv, Row
  <2> QED BY <2>1, <2>2, <2>3, DiscardKeeps
<1>g. CASE Recover
  <2>1. broken = "overload" /\ broken' = "no" /\ Written(recorded) /\ UNCHANGED <<log, feed, ending>>
    BY <1>g DEF Recover
  <2>2. UNCHANGED <<era, base, recorded, settled, disk, queue, published, shown, ending>>
    BY <2>1 DEF log, feed
  <2>3. SoundInv' /\ BrokenInv'
    BY <1>0, <2>1, <2>2 DEF BrokenInv, SoundInv, Sound
  <2>4. LastInv' /\ DiskInv' /\ NeverAhead'
    BY <1>0, <2>1, <2>2 DEF LastInv, DiskInv, Row, NeverAhead, Written
  <2>5. EndInv'
    <3> SUFFICES ASSUME ending.on PROVE ending.rows <= recorded /\ Written(ending.rows)
      BY <2>2 DEF EndInv, Written
    <3>1. ending.rows \in Nat /\ ending.rows <= recorded
      BY <1>0 DEF EndInv, TypeInv, EventsTypeOK
    <3> QED BY <1>1, <2>1, <3>1, WrittenBelow
  <2> QED BY <2>3, <2>4, <2>5 DEF AheadInv
<1>h. CASE \E d \in drains : Drain(d)
  <2>1. PICK d \in drains : Drain(d)
    BY <1>h
  <2>2. UNCHANGED <<era, base, recorded, settled, disk, broken, published, ending>>
    BY <2>1 DEF Drain, log
  <2>3. CASE ~d.live
    <3>1. UNCHANGED <<queue, shown>>
      BY <2>1, <2>3 DEF Drain
    <3> QED BY <1>0, <2>2, <3>1 DEF AheadInv, SoundInv, Sound, BrokenInv, LastInv, EndInv, DiskInv, Row, NeverAhead, Written
  <2>4. CASE d.live
    <3>1. queue # <<>> /\ d.entry = queue[1] /\ 1 \in DOMAIN queue /\ queue[1] \in Events /\ Sound(queue[1])
      BY <1>0, <1>1, <2>4 DEF TypeInv, DrainInv, SoundInv
    <3>2. broken = "no"
      BY <1>0, <3>1 DEF BrokenInv
    <3>3. d.entry \in Events /\ Written(d.entry.after) /\ (d.entry.row # 0 => d.entry.row = d.entry.after)
      BY <2>1, <3>1 DEF Drain, Sound
    <3>4. queue' = Tail(queue) /\ Tell(d.entry.id, d.entry.row, d.entry.after)
      BY <2>1, <2>4, <3>2 DEF Drain
    <3>5. /\ \A i \in DOMAIN queue' : i + 1 \in DOMAIN queue /\ queue'[i] = queue[i + 1]
          /\ \A i \in DOMAIN queue : i # 1 => i - 1 \in DOMAIN queue' /\ queue'[i - 1] = queue[i]
      BY <1>1, <3>1, <3>4
    <3>6. SoundInv'
      BY <1>0, <1>1, <2>2, <3>5, SoundKept, SoundAll
    <3>7. BrokenInv' /\ DiskInv'
      BY <1>0, <2>2, <3>2 DEF BrokenInv, DiskInv, Row
    <3>8. Written(0)
      BY <1>1 DEF Written
    <3>9. LastInv'
      BY <1>0, <2>2, <3>1, <3>3, <3>5, <3>8 DEF LastInv, Written
    <3>10. EndInv'
      BY <1>0, <2>2, <3>1, <3>3, <3>5, <3>8 DEF EndInv, Written
    <3>11. NeverAhead'
      BY <1>0, <2>2, <3>3, <3>4, TellSure DEF Events
    <3> QED BY <3>6, <3>7, <3>9, <3>10, <3>11 DEF AheadInv
  <2> QED BY <2>3, <2>4
<1>i. CASE BeginEnd
  <2>1. ending' = [on |-> TRUE, after |-> published, rows |-> recorded]
        /\ UNCHANGED <<era, base, recorded, settled, disk, broken, queue, published, shown>>
    BY <1>i DEF BeginEnd, log, feed
  <2>2. EndInv'
    <3>1. \A i \in DOMAIN queue : queue[i].id <= published
      BY <1>0 DEF SoundInv, Sound
    <3> QED BY <1>0, <1>1, <2>1, <3>1 DEF LastInv, EndInv, Written
  <2> QED BY <1>0, <2>1, <2>2 DEF AheadInv, SoundInv, Sound, BrokenInv, LastInv, DiskInv, Row, NeverAhead, Written
<1>j. CASE EndTurn
  <2>1. ending.on /\ (\A i \in DOMAIN queue : queue[i].id > ending.after) /\ ending' = NotEnding
        /\ UNCHANGED <<era, base, recorded, settled, disk, broken, queue, published>>
    BY <1>j DEF EndTurn, log
  <2>2. ending.rows \in Nat /\ ending.after \in Nat /\ \A i \in DOMAIN queue : queue[i].id \in Nat
    <3>1. \A i \in DOMAIN queue : queue[i] \in Events
      BY <1>1
    <3>2. ending \in [on : BOOLEAN, after : Nat, rows : Nat]
      BY DEF TypeInv, EventsTypeOK
    <3> QED BY <3>1, <3>2 DEF Events
  <2>3. broken = "no" => Written(ending.rows)
    BY <1>0, <2>1, <2>2 DEF EndInv
  <2>4. NeverAhead'
    <3>1. CASE UNCHANGED shown
      BY <1>0, <2>1, <3>1 DEF NeverAhead
    <3>2. CASE Tell(0, 0, ending.rows)
      BY <1>0, <2>1, <2>2, <2>3, <3>2, TellSure
    <3> QED BY <1>j, <3>1, <3>2 DEF EndTurn
  <2> QED BY <1>0, <2>1, <2>4 DEF AheadInv, SoundInv, Sound, BrokenInv, LastInv, EndInv, DiskInv, Row, Written, NotEnding
<1>k. CASE Crash
  <2>1. queue' = <<>> /\ settled' = {} /\ recorded' = base' /\ broken' = "no" /\ ending' = NotEnding
        /\ UNCHANGED shown /\ ((started /\ Land(Head(ops))) \/ UNCHANGED disk)
    BY <1>k DEF Crash
  <2>2. Written(recorded)'
    <3>1. base' \in Nat
      BY DEF TypeInv, EventsTypeOK
    <3>2. \A b \in Nat : \A x \in b + 1 .. b : FALSE
      OBVIOUS
    <3> QED BY <2>1, <3>1, <3>2 DEF Written
  <2>3. Range(disk) \subseteq Range(disk')
    <3>1. started => ops # <<>> /\ ops \in Seq(Seq(Nat))
      BY DEF TypeInv, EventsTypeOK, OpsInv
    <3>2. started => Head(ops) \in Seq(Nat)
      BY <3>1
    <3> QED BY <1>1, <2>1, <3>2, DiskGrows
  <2>4. NeverAhead'
    BY <1>0, <2>1, <2>3 DEF NeverAhead
  <2> QED BY <2>1, <2>2, <2>4 DEF AheadInv, SoundInv, BrokenInv, LastInv, EndInv, DiskInv, NotEnding
<1> QED
  BY <1>a, <1>b, <1>c, <1>d, <1>e, <1>f, <1>g, <1>h, <1>i, <1>j, <1>k DEF EventsNext

\* Nobody is told of a row, a state or the end of a turn before the rows that came before it are on
\* disk, unless the history is known to be incomplete: for any number of rows, events and crashes.
THEOREM ShownIsOnDisk == EventsSpec => []NeverAhead
<1>1. AheadInv => NeverAhead
  BY DEF AheadInv
<1>2. EventsInit => TypeInv /\ AheadInv
  BY TypeInit, AheadInit
<1>3. TypeInv /\ AheadInv /\ [EventsNext]_eventVars => (TypeInv /\ AheadInv)'
  BY TypeStep, AheadStep
<1> QED BY <1>1, <1>2, <1>3, PTL DEF EventsSpec

-----------------------------------------------------------------------------
(* Deliveries keep the order of publication *)

\* What waits is in order and comes after all that was delivered.
QueueOrder ==
  /\ \A i, j \in DOMAIN queue : i < j => queue[i].id < queue[j].id
  /\ \A i \in DOMAIN queue : 0 < queue[i].id /\ queue[i].id <= published
  /\ \A i \in DOMAIN shown : shown[i].id <= published
  /\ \A i \in DOMAIN shown, j \in DOMAIN queue : shown[i].id < queue[j].id

ShownOrder ==
  \A i, j \in DOMAIN shown : i < j /\ shown[i].id # 0 /\ shown[j].id # 0 => shown[i].id < shown[j].id

\* As long as nothing broke, what was published was delivered or waits.
Complete ==
  breaks = 0 =>
    /\ broken = "no"
    /\ \A k \in 1..published : \/ \E i \in DOMAIN shown : shown[i].id = k
                               \/ \E i \in DOMAIN queue : queue[i].id = k

OrderInv == QueueOrder /\ ShownOrder /\ Complete

LEMMA IdsTyped ==
  ASSUME TypeInv
  PROVE  /\ \A i \in DOMAIN queue : queue[i].id \in Nat
         /\ \A i \in DOMAIN shown : shown[i].id \in Nat
<1>1. \A i \in DOMAIN queue : queue[i] \in Events
  BY DEF TypeInv, EventsTypeOK
<1>2. shown \in Seq(Shown)
  BY DEF TypeInv, EventsTypeOK, Shown
<1>3. \A i \in DOMAIN shown : shown[i] \in Shown
  BY <1>2
<1> QED BY <1>1, <1>3 DEF Events, Shown

LEMMA OrderImplies == TypeInv /\ OrderInv => InCallOrder
<1> SUFFICES ASSUME TypeInv, OrderInv PROVE InCallOrder
  OBVIOUS
<1>1. published \in Nat /\ shown \in Seq(Shown)
  BY DEF TypeInv, EventsTypeOK, Shown
<1>2. \A i \in DOMAIN shown : shown[i].id \in Nat
  BY IdsTyped
<1>4. \A i \in DOMAIN queue : queue[i].id \in Nat
  BY IdsTyped
<1>5. ASSUME breaks = 0
      PROVE  {shown[i].id : i \in DOMAIN shown} \cup {queue[i].id : i \in DOMAIN queue} \cup {0} = 0..published
  <2>1. \A i \in DOMAIN shown : shown[i].id \in 0..published
    BY <1>1, <1>2 DEF OrderInv, QueueOrder
  <2>2. \A i \in DOMAIN queue : queue[i].id \in 0..published
    BY <1>1, <1>4 DEF OrderInv, QueueOrder
  <2>3. \A k \in 1..published : \/ \E i \in DOMAIN shown : shown[i].id = k
                                \/ \E i \in DOMAIN queue : queue[i].id = k
    BY <1>5 DEF OrderInv, Complete
  <2>4. \A k \in 0..published : k = 0 \/ k \in 1..published
    BY <1>1
  <2>5. 0 \in 0..published
    BY <1>1
  <2> QED BY <2>1, <2>2, <2>3, <2>4, <2>5
<1> QED BY <1>5 DEF InCallOrder, OrderInv, ShownOrder

\* An event at the end of the queue is the last one published.
LEMMA QueuedInOrder ==
  ASSUME TypeInv, OrderInv, NEW e \in Events, e.id = published + 1, published' = published + 1,
         queue' = Append(queue, e), UNCHANGED <<shown, broken, breaks>>
  PROVE  OrderInv'
<1>1. published \in Nat /\ queue \in Seq(Events) /\ shown \in Seq(Shown)
  BY DEF TypeInv, EventsTypeOK, Shown
<1>2. /\ DOMAIN queue' = 1..(Len(queue) + 1) /\ DOMAIN queue = 1..Len(queue) /\ Len(queue) \in Nat
      /\ queue'[Len(queue) + 1] = e
      /\ \A i \in DOMAIN queue : queue'[i] = queue[i]
  BY <1>1
<1>3. \A i \in DOMAIN queue' : i = Len(queue) + 1 \/ (i \in DOMAIN queue /\ i # Len(queue) + 1)
  BY <1>2
<1>4. \A i \in DOMAIN queue : queue[i].id \in Nat
  BY IdsTyped
<1>5. \A i \in DOMAIN shown : shown[i].id \in Nat
  BY IdsTyped
<1>6. QueueOrder'
  <2>1. \A i, j \in DOMAIN queue' : i < j => queue'[i].id < queue'[j].id
    <3> SUFFICES ASSUME NEW i \in DOMAIN queue', NEW j \in DOMAIN queue', i < j
                 PROVE  queue'[i].id < queue'[j].id
      OBVIOUS
    <3>1. i \in DOMAIN queue
      BY <1>2
    <3>2. CASE j = Len(queue) + 1
      BY <1>1, <1>2, <1>4, <3>1, <3>2 DEF OrderInv, QueueOrder
    <3>3. CASE j \in DOMAIN queue
      BY <1>2, <3>1, <3>3 DEF OrderInv, QueueOrder
    <3> QED BY <1>3, <3>2, <3>3
  <2>2. \A i \in DOMAIN queue' : 0 < queue'[i].id /\ queue'[i].id <= published'
    BY <1>1, <1>2, <1>3, <1>4 DEF OrderInv, QueueOrder
  <2>3. \A i \in DOMAIN shown : shown[i].id <= published'
    BY <1>1, <1>5 DEF OrderInv, QueueOrder
  <2>4. \A i \in DOMAIN shown, j \in DOMAIN queue' : shown[i].id < queue'[j].id
    BY <1>1, <1>2, <1>3, <1>5 DEF OrderInv, QueueOrder
  <2> QED BY <2>1, <2>2, <2>3, <2>4 DEF QueueOrder
<1>7. Complete'
  <2> SUFFICES ASSUME breaks = 0, NEW k \in 1..published'
               PROVE  \/ \E i \in DOMAIN shown : shown[i].id = k
                      \/ \E i \in DOMAIN queue' : queue'[i].id = k
    BY DEF OrderInv, Complete
  <2>1. CASE k = published + 1
    BY <1>2, <2>1
  <2>2. CASE k \in 1..published
    BY <1>2, <2>2 DEF OrderInv, Complete
  <2> QED BY <1>1, <2>1, <2>2
<1> QED BY <1>6, <1>7 DEF OrderInv, ShownOrder

\* What is told next comes after all that was told.
LEMMA ToldInOrder ==
  ASSUME TypeInv, QueueOrder, ShownOrder, published \in Nat,
         NEW id \in Nat, NEW row \in Nat, NEW after \in Nat, Tell(id, row, after),
         id # 0 => \A i \in DOMAIN shown : shown[i].id < id
  PROVE  /\ ShownOrder'
         /\ \A i \in DOMAIN shown' : \/ shown'[i].id = id
                                     \/ i \in DOMAIN shown /\ shown'[i] = shown[i]
         /\ \A i \in DOMAIN shown : i \in DOMAIN shown' /\ shown'[i] = shown[i]
         /\ \E i \in DOMAIN shown' : shown'[i].id = id
<1> DEFINE x == [id |-> id, row |-> row, after |-> after, era |-> era, base |-> base,
                 sure |-> broken = "no"]
<1>1. shown \in Seq(Shown) /\ shown' = Append(shown, x) /\ x.id = id
  BY DEF TypeInv, EventsTypeOK, Shown, Tell
<1> HIDE DEF x
<1>2. /\ DOMAIN shown' = 1..(Len(shown) + 1) /\ DOMAIN shown = 1..Len(shown) /\ Len(shown) \in Nat
      /\ shown'[Len(shown) + 1] = x
      /\ \A i \in DOMAIN shown : i \in DOMAIN shown' /\ shown'[i] = shown[i]
  BY <1>1
<1>3. \A i \in DOMAIN shown' : i = Len(shown) + 1 \/ i \in DOMAIN shown
  BY <1>2
<1>4. ShownOrder'
  <2> SUFFICES ASSUME NEW i \in DOMAIN shown', NEW j \in DOMAIN shown', i < j,
                      shown'[i].id # 0, shown'[j].id # 0
               PROVE  shown'[i].id < shown'[j].id
    BY DEF ShownOrder
  <2>1. i \in DOMAIN shown
    BY <1>2
  <2>2. CASE j = Len(shown) + 1
    BY <1>1, <1>2, <2>1, <2>2
  <2>3. CASE j \in DOMAIN shown
    BY <1>2, <2>1, <2>3 DEF ShownOrder
  <2> QED BY <1>3, <2>2, <2>3
<1>5. \E i \in DOMAIN shown' : shown'[i].id = id
  BY <1>1, <1>2
<1> QED BY <1>1, <1>2, <1>3, <1>4, <1>5

\* An event that is delivered at once, or dropped, leaves the empty queue as it is.
LEMMA TellsInOrder ==
  ASSUME TypeInv, OrderInv, queue = <<>>, UNCHANGED <<queue, broken, breaks>>,
         published' = published + 1, NEW row \in Nat, NEW after \in Nat,
         Tell(published + 1, row, after) \/ (broken # "no" /\ UNCHANGED shown)
  PROVE  OrderInv'
<1>1. published \in Nat /\ shown \in Seq(Shown) /\ published + 1 \in Nat
  BY DEF TypeInv, EventsTypeOK, Shown
<1>2. \A i \in DOMAIN shown : shown[i].id \in Nat /\ shown[i].id <= published
  BY IdsTyped DEF OrderInv, QueueOrder
<1>3. DOMAIN queue = {} /\ DOMAIN queue' = {}
  OBVIOUS
<1>4. CASE Tell(published + 1, row, after)
  <2>1. /\ ShownOrder'
        /\ \A i \in DOMAIN shown' : \/ shown'[i].id = published + 1
                                    \/ i \in DOMAIN shown /\ shown'[i] = shown[i]
        /\ \A i \in DOMAIN shown : i \in DOMAIN shown' /\ shown'[i] = shown[i]
        /\ \E i \in DOMAIN shown' : shown'[i].id = published + 1
    <3>1. \A i \in DOMAIN shown : shown[i].id < published + 1
      BY <1>1, <1>2
    <3>2. QueueOrder /\ ShownOrder
      BY DEF OrderInv
    <3> QED BY <1>1, <1>4, <3>1, <3>2, ToldInOrder
  <2>2. QueueOrder'
    BY <1>1, <1>2, <1>3, <2>1 DEF QueueOrder
  <2>3. Complete'
    <3> SUFFICES ASSUME breaks = 0, NEW k \in 1..published' PROVE \E i \in DOMAIN shown' : shown'[i].id = k
      BY DEF OrderInv, Complete
    <3>1. CASE k = published + 1
      BY <2>1, <3>1
    <3>2. CASE k \in 1..published
      BY <1>3, <2>1, <3>2 DEF OrderInv, Complete
    <3> QED BY <1>1, <3>1, <3>2
  <2> QED BY <2>1, <2>2, <2>3 DEF OrderInv
<1>5. CASE broken # "no" /\ UNCHANGED shown
  BY <1>1, <1>2, <1>3, <1>5 DEF OrderInv, QueueOrder, ShownOrder, Complete
<1> QED BY <1>4, <1>5

LEMMA PublishInOrder ==
  ASSUME TypeInv, OrderInv, BrokenInv, UNCHANGED <<broken, breaks>>,
         NEW row \in Nat, NEW after \in Nat, NEW write \in Nat, Publish(row, after, write)
  PROVE  OrderInv'
<1> DEFINE e == [id |-> published + 1, row |-> row, after |-> after, write |-> write]
<1>1. /\ published' = published + 1
      /\ \/ UNCHANGED queue /\ (broken # "no" \/ queue = <<>>)
            /\ (Tell(published + 1, row, after) \/ (broken # "no" /\ UNCHANGED shown))
         \/ queue' = Append(queue, e) /\ UNCHANGED shown
  BY Zenon DEF Publish
<1>2. e \in Events /\ e.id = published + 1
  BY DEF TypeInv, EventsTypeOK, Events
<1> HIDE DEF e
<1>3. CASE queue' = Append(queue, e) /\ UNCHANGED shown
  BY <1>1, <1>2, <1>3, QueuedInOrder
<1>4. CASE UNCHANGED queue /\ (broken # "no" \/ queue = <<>>)
           /\ (Tell(published + 1, row, after) \/ (broken # "no" /\ UNCHANGED shown))
  <2>1. queue = <<>>
    BY <1>4 DEF BrokenInv
  <2> QED BY <1>1, <1>4, <2>1, TellsInOrder
<1> QED BY <1>1, <1>3, <1>4

LEMMA OrderInit == EventsInit => OrderInv
<1> SUFFICES ASSUME EventsInit PROVE OrderInv
  OBVIOUS
<1>1. DOMAIN queue = {} /\ DOMAIN shown = {} /\ published = 0 /\ broken = "no"
  BY DEF EventsInit
<1>2. 1..0 = {}
  OBVIOUS
<1> QED BY <1>1, <1>2 DEF OrderInv, QueueOrder, ShownOrder, Complete

\* Where the queue is emptied something broke.
LEMMA EmptiedInOrder ==
  ASSUME TypeInv, OrderInv, queue' = <<>>, UNCHANGED <<published, shown>>, breaks' = breaks + 1
  PROVE  OrderInv'
<1>1. breaks \in Nat /\ breaks' # 0
  BY DEF TypeInv, EventsTypeOK
<1>2. DOMAIN queue' = {}
  OBVIOUS
<1> QED BY <1>1, <1>2 DEF OrderInv, QueueOrder, ShownOrder, Complete

\* Every step keeps the order of what waits and of what was delivered.
LEMMA OrderStep == TypeInv /\ AheadInv /\ OrderInv /\ [EventsNext]_eventVars => OrderInv'
<1> SUFFICES ASSUME TypeInv, AheadInv, OrderInv, [EventsNext]_eventVars PROVE OrderInv'
  OBVIOUS
<1>0. BrokenInv /\ {recorded, published} \subseteq Nat /\ queue \in Seq(Events)
  BY DEF AheadInv, TypeInv, EventsTypeOK
<1>a. CASE PublishPlain
  <2>1. Publish(0, recorded, PendingWrite) /\ UNCHANGED <<broken, breaks>> /\ PendingWrite \in Nat
    BY <1>0, <1>a DEF PublishPlain, PendingWrite, bounds
  <2> QED BY <1>0, <2>1, PublishInOrder
<1>b. CASE RecordTimeline
  <2> DEFINE n == recorded + 1
  <2>1. Publish(n, n, n) /\ UNCHANGED <<broken, breaks>> /\ n \in Nat
    BY <1>0, <1>b DEF RecordTimeline, bounds
  <2> HIDE DEF n
  <2> QED BY <1>0, <2>1, PublishInOrder
<1>c. CASE UNCHANGED <<published, queue, shown, breaks>> /\ (breaks = 0 /\ broken = "no" => broken' = "no")
  BY <1>c DEF OrderInv, QueueOrder, ShownOrder, Complete
<1>d. CASE ReadLog \/ StartOp \/ OpSucceeds \/ Recover \/ BeginEnd \/ UNCHANGED eventVars
  BY <1>c, <1>d DEF ReadLog, StartOp, OpSucceeds, OpEnds, Recover, BeginEnd, eventVars, feed, bounds
<1>e. CASE OpFails \/ Overload \/ Crash
  BY <1>e, EmptiedInOrder DEF OpFails, Overload, Crash, Discard, Break
<1>f. CASE \E d \in drains : Drain(d)
  <2>1. PICK d \in drains : Drain(d)
    BY <1>f
  <2>2. UNCHANGED <<broken, published, breaks>>
    BY <2>1 DEF Drain, bounds
  <2>3. CASE ~d.live
    BY <1>c, <2>1, <2>2, <2>3 DEF Drain
  <2>4. CASE d.live
    <3>1. queue # <<>> /\ d.entry = queue[1] /\ queue[1] \in Events /\ broken = "no" /\ 1 \in DOMAIN queue
      BY <1>0, <2>4 DEF TypeInv, DrainInv, BrokenInv
    <3>2. queue' = Tail(queue) /\ Tell(queue[1].id, queue[1].row, queue[1].after)
      BY <2>1, <2>4, <3>1 DEF Drain
    <3>3. {queue[1].id, queue[1].row, queue[1].after} \subseteq Nat
      BY <3>1 DEF Events
    <3>4. QueueOrder /\ ShownOrder /\ (\A i \in DOMAIN shown : shown[i].id < queue[1].id)
      BY <3>1 DEF OrderInv, QueueOrder
    <3>5. /\ ShownOrder'
          /\ \A i \in DOMAIN shown' : \/ shown'[i].id = queue[1].id
                                      \/ i \in DOMAIN shown /\ shown'[i] = shown[i]
          /\ \A i \in DOMAIN shown : i \in DOMAIN shown' /\ shown'[i] = shown[i]
          /\ \E i \in DOMAIN shown' : shown'[i].id = queue[1].id
      BY <1>0, <3>2, <3>3, <3>4, ToldInOrder
    <3>6. /\ \A i \in DOMAIN queue' : i + 1 \in DOMAIN queue /\ 1 < i + 1 /\ queue'[i] = queue[i + 1]
          /\ \A i \in DOMAIN queue : i # 1 => i - 1 \in DOMAIN queue' /\ queue'[i - 1] = queue[i]
          /\ DOMAIN queue' \subseteq Nat
      BY <1>0, <3>1, <3>2
    <3>7. QueueOrder'
      <4>1. \A i, j \in DOMAIN queue' : i < j => queue'[i].id < queue'[j].id
        <5> SUFFICES ASSUME NEW i \in DOMAIN queue', NEW j \in DOMAIN queue', i < j
                     PROVE  queue'[i].id < queue'[j].id
          OBVIOUS
        <5>1. i + 1 < j + 1
          BY <3>6
        <5> QED BY <3>4, <3>6, <5>1 DEF QueueOrder
      <4>2. \A i \in DOMAIN queue' : 0 < queue'[i].id /\ queue'[i].id <= published'
        BY <2>2, <3>4, <3>6 DEF QueueOrder
      <4>3. \A i \in DOMAIN shown' : shown'[i].id <= published'
        BY <2>2, <3>1, <3>4, <3>5 DEF QueueOrder
      <4>4. \A i \in DOMAIN shown', j \in DOMAIN queue' : shown'[i].id < queue'[j].id
        BY <3>1, <3>4, <3>5, <3>6 DEF QueueOrder
      <4> QED BY <4>1, <4>2, <4>3, <4>4 DEF QueueOrder
    <3>8. Complete'
      <4> SUFFICES ASSUME breaks = 0, NEW k \in 1..published
                   PROVE  \/ \E i \in DOMAIN shown' : shown'[i].id = k
                          \/ \E i \in DOMAIN queue' : queue'[i].id = k
        BY <2>2, <3>1 DEF Complete
      <4>1. \/ \E i \in DOMAIN shown : shown[i].id = k
            \/ \E i \in DOMAIN queue : queue[i].id = k
        BY DEF OrderInv, Complete
      <4> QED BY <3>5, <3>6, <4>1
    <3> QED BY <3>5, <3>7, <3>8 DEF OrderInv
  <2> QED BY <2>3, <2>4
<1>g. CASE EndTurn
  <2>1. UNCHANGED <<queue, published, broken, breaks>>
    BY <1>g DEF EndTurn, bounds
  <2>2. CASE UNCHANGED shown
    BY <1>c, <2>1, <2>2
  <2>3. CASE Tell(0, 0, ending.rows)
    <3>1. ending.rows \in Nat
      BY DEF TypeInv, EventsTypeOK
    <3>2. /\ ShownOrder'
          /\ \A i \in DOMAIN shown' : shown'[i].id = 0 \/ (i \in DOMAIN shown /\ shown'[i] = shown[i])
          /\ \A i \in DOMAIN shown : i \in DOMAIN shown' /\ shown'[i] = shown[i]
      <4>1. QueueOrder /\ ShownOrder
        BY DEF OrderInv
      <4> QED BY <1>0, <2>3, <3>1, <4>1, ToldInOrder
    <3>3. QueueOrder'
      BY <1>0, <2>1, <3>2 DEF OrderInv, QueueOrder
    <3>4. Complete'
      BY <2>1, <3>2 DEF OrderInv, Complete
    <3> QED BY <3>2, <3>3, <3>4 DEF OrderInv
  <2> QED BY <1>g, <2>2, <2>3 DEF EndTurn
<1> QED
  BY <1>a, <1>b, <1>d, <1>e, <1>f, <1>g DEF EventsNext

\* Deliveries keep the order of their publication, each at most once, also when a queue was discarded
\* under a drain that waits; and without a break nothing published is missing.
THEOREM DeliveredInOrder == EventsSpec => []InCallOrder
<1>1. EventsInit => TypeInv /\ AheadInv /\ OrderInv
  BY TypeInit, AheadInit, OrderInit
<1>2. TypeInv /\ AheadInv /\ OrderInv /\ [EventsNext]_eventVars => (TypeInv /\ AheadInv /\ OrderInv)'
  BY TypeStep, AheadStep, OrderStep
<1>3. TypeInv /\ AheadInv /\ OrderInv => InCallOrder
  BY OrderImplies
<1> QED BY <1>1, <1>2, <1>3, PTL DEF EventsSpec

-----------------------------------------------------------------------------
(* A history not known to be incomplete has no holes *)

Sorted == \A i, j \in DOMAIN disk : i < j => disk[i].n < disk[j].n

\* The disk holds no row of a later run, and none that is not recorded.
DiskBound == \A i \in DOMAIN disk : disk[i].era <= era /\ disk[i].n <= recorded

\* What waits to be written comes after what is on disk.
OpsBound ==
  \A k \in DOMAIN ops : \A l \in DOMAIN ops[k] :
    /\ ops[k][l] <= recorded
    /\ \A i \in DOMAIN disk : disk[i].n < ops[k][l]

OpsSorted ==
  \A k, m \in DOMAIN ops : \A l \in DOMAIN ops[k], o \in DOMAIN ops[m] :
    k < m \/ (k = m /\ l < o) => ops[k][l] < ops[m][o]

\* The rows of this run on disk are those whose write settled, unless a write failed.
OnDisk == {disk[i].n : i \in {i \in DOMAIN disk : disk[i].era = era}}

LogInv == Sorted /\ DiskBound /\ OpsBound /\ OpsSorted /\ (broken # "write" => OnDisk = settled)

LEMMA LogTyped ==
  ASSUME TypeInv
  PROVE  /\ era \in Nat /\ recorded \in Nat /\ disk \in Seq(Rows)
         /\ \A i \in DOMAIN disk : disk[i].n \in Nat /\ disk[i].era \in Nat
         /\ ops \in Seq(Seq(Nat))
         /\ \A k \in DOMAIN ops : ops[k] \in Seq(Nat)
         /\ \A k \in DOMAIN ops : \A l \in DOMAIN ops[k] : ops[k][l] \in Nat
<1>1. era \in Nat /\ recorded \in Nat /\ disk \in Seq(Rows) /\ ops \in Seq(Seq(Nat))
  BY DEF TypeInv, EventsTypeOK, Rows
<1>2. \A i \in DOMAIN disk : disk[i] \in Rows
  BY <1>1
<1>3. \A k \in DOMAIN ops : ops[k] \in Seq(Nat)
  BY <1>1
<1>4. \A k \in DOMAIN ops : \A l \in DOMAIN ops[k] : ops[k][l] \in Nat
  BY <1>3
<1> QED BY <1>1, <1>2, <1>3, <1>4 DEF Rows

\* The row that joins is the last of the last batch.
LEMMA JoinedLast ==
  ASSUME TypeInv, NEW n \in Nat, Join(n)
  PROVE  \A k \in DOMAIN ops' : \A l \in DOMAIN ops'[k] :
           \/ k \in DOMAIN ops /\ l \in DOMAIN ops[k] /\ ops'[k][l] = ops[k][l]
           \/ k = Len(ops') /\ l = Len(ops'[k]) /\ ops'[k][l] = n
<1>1. ops \in Seq(Seq(Nat)) /\ Len(ops) \in Nat /\ DOMAIN ops = 1..Len(ops)
  BY LogTyped
<1>2. CASE joinable /\ Len(ops[Len(ops)]) < BatchRows
  <2> DEFINE b == ops[Len(ops)]
  <2>1. Len(ops) \in DOMAIN ops /\ b \in Seq(Nat)
    BY <1>1, <1>2 DEF TypeInv, OpsInv
  <2>2. ops' = [ops EXCEPT ![Len(ops)] = Append(b, n)]
    BY <1>2 DEF Join
  <2>3. DOMAIN ops' = DOMAIN ops /\ Len(ops') = Len(ops) /\ ops'[Len(ops)] = Append(b, n)
        /\ \A k \in DOMAIN ops : k # Len(ops) => ops'[k] = ops[k]
    BY <1>1, <2>1, <2>2
  <2>4. Len(Append(b, n)) = Len(b) + 1 /\ Append(b, n)[Len(b) + 1] = n
        /\ \A l \in DOMAIN Append(b, n) : l = Len(b) + 1 \/ (l \in DOMAIN b /\ Append(b, n)[l] = b[l])
    BY <2>1
  <2> TAKE k \in DOMAIN ops'
  <2> TAKE l \in DOMAIN ops'[k]
  <2>5. CASE k = Len(ops)
    <3> HIDE DEF b
    <3>1. ops'[k] = Append(b, n) /\ b = ops[k]
      BY <2>3, <2>5 DEF b
    <3> QED BY <2>1, <2>3, <2>4, <2>5, <3>1
  <2>6. CASE k # Len(ops)
    BY <2>3, <2>6
  <2> QED BY <2>5, <2>6
<1>3. CASE ~(joinable /\ Len(ops[Len(ops)]) < BatchRows)
  <2>1. ops' = Append(ops, <<n>>) /\ <<n>> \in Seq(Nat)
    BY <1>3 DEF Join
  <2>2. Len(ops') = Len(ops) + 1 /\ DOMAIN ops' = 1..(Len(ops) + 1) /\ ops'[Len(ops) + 1] = <<n>>
        /\ \A k \in DOMAIN ops : ops'[k] = ops[k]
    BY <1>1, <2>1
  <2>3. DOMAIN <<n>> = {1} /\ Len(<<n>>) = 1 /\ <<n>>[1] = n
    OBVIOUS
  <2> TAKE k \in DOMAIN ops'
  <2> TAKE l \in DOMAIN ops'[k]
  <2>4. CASE k = Len(ops) + 1
    BY <2>2, <2>3, <2>4
  <2>5. CASE k # Len(ops) + 1
    <3>1. k \in DOMAIN ops
      BY <1>1, <2>2, <2>5
    <3> QED BY <2>2, <3>1
  <2> QED BY <2>4, <2>5
<1> QED BY <1>2, <1>3

\* A batch that follows the disk keeps it sorted.
LEMMA LandSorted ==
  ASSUME TypeInv, Sorted, NEW rows \in Seq(Nat), Land(rows),
         \A i, j \in DOMAIN rows : i < j => rows[i] < rows[j],
         \A i \in DOMAIN rows, j \in DOMAIN disk : disk[j].n < rows[i]
  PROVE  /\ Sorted'
         /\ \A i \in DOMAIN disk' : \/ i \in DOMAIN disk /\ disk'[i] = disk[i]
                                    \/ disk'[i].era = era /\ \E j \in DOMAIN rows : disk'[i].n = rows[j]
         /\ \A i \in DOMAIN disk : i \in DOMAIN disk' /\ disk'[i] = disk[i]
         /\ \A j \in DOMAIN rows : \E i \in DOMAIN disk' : disk'[i] = Row(rows[j])
<1>1. /\ disk \in Seq(Rows) /\ disk' \in Seq(Rows)
      /\ Len(disk) \in Nat /\ Len(rows) \in Nat
      /\ DOMAIN disk = 1..Len(disk) /\ DOMAIN rows = 1..Len(rows)
      /\ DOMAIN disk' = 1..(Len(disk) + Len(rows))
  BY LogTyped, LandAdds
<1>2. /\ \A i \in 1..Len(disk) : disk'[i] = disk[i]
      /\ \A i \in 1..Len(rows) : disk'[Len(disk) + i] = Row(rows[i])
  BY <1>1, LogTyped, LandAdds
<1>3. \A i \in DOMAIN disk' : i \notin DOMAIN disk => i - Len(disk) \in DOMAIN rows /\ disk'[i] = Row(rows[i - Len(disk)])
  <2> SUFFICES ASSUME NEW i \in DOMAIN disk', i \notin DOMAIN disk
               PROVE  i - Len(disk) \in DOMAIN rows /\ disk'[i] = Row(rows[i - Len(disk)])
    OBVIOUS
  <2>1. i - Len(disk) \in 1..Len(rows) /\ Len(disk) + (i - Len(disk)) = i
    BY <1>1
  <2> QED BY <1>1, <1>2, <2>1
<1>4. \A x : Row(x).n = x /\ Row(x).era = era
  BY DEF Row
<1>5. Sorted'
  <2> SUFFICES ASSUME NEW i \in DOMAIN disk', NEW j \in DOMAIN disk', i < j
               PROVE  disk'[i].n < disk'[j].n
    BY DEF Sorted
  <2>1. CASE j \in DOMAIN disk
    <3>1. i \in DOMAIN disk
      BY <1>1, <2>1
    <3> QED BY <1>1, <1>2, <2>1, <3>1 DEF Sorted
  <2>2. CASE i \in DOMAIN disk /\ j \notin DOMAIN disk
    BY <1>1, <1>2, <1>3, <1>4, <2>2
  <2>3. CASE i \notin DOMAIN disk /\ j \notin DOMAIN disk
    <3>1. i - Len(disk) < j - Len(disk)
      BY <1>1
    <3> QED BY <1>3, <1>4, <2>3, <3>1
  <2> QED BY <2>1, <2>2, <2>3
<1>6. \A i \in DOMAIN disk' : \/ i \in DOMAIN disk /\ disk'[i] = disk[i]
                              \/ disk'[i].era = era /\ \E j \in DOMAIN rows : disk'[i].n = rows[j]
  BY <1>1, <1>2, <1>3, <1>4
<1>7. \A i \in DOMAIN disk : i \in DOMAIN disk' /\ disk'[i] = disk[i]
  BY <1>1, <1>2
<1>8. \A j \in DOMAIN rows : Len(disk) + j \in DOMAIN disk' /\ disk'[Len(disk) + j] = Row(rows[j])
  BY <1>1, <1>2
<1> QED BY <1>5, <1>6, <1>7, <1>8

\* The first batch may land: it is sorted and follows the disk.
LEMMA FirstLands ==
  ASSUME TypeInv, LogInv, ops # <<>>, Land(Head(ops))
  PROVE  /\ Sorted'
         /\ \A i \in DOMAIN disk' : \/ i \in DOMAIN disk /\ disk'[i] = disk[i]
                                    \/ disk'[i].era = era /\ \E l \in DOMAIN ops[1] : disk'[i].n = ops[1][l]
         /\ \A i \in DOMAIN disk : i \in DOMAIN disk' /\ disk'[i] = disk[i]
         /\ \A l \in DOMAIN ops[1] : \E i \in DOMAIN disk' : disk'[i] = Row(ops[1][l])
<1>1. 1 \in DOMAIN ops /\ Head(ops) = ops[1] /\ ops[1] \in Seq(Nat)
  BY LogTyped
<1>2. \A i, j \in DOMAIN ops[1] : i < j => ops[1][i] < ops[1][j]
  BY <1>1 DEF LogInv, OpsSorted
<1>3. \A i \in DOMAIN ops[1], j \in DOMAIN disk : disk[j].n < ops[1][i]
  BY <1>1 DEF LogInv, OpsBound
<1>4. Sorted /\ Land(ops[1])
  BY <1>1 DEF LogInv
<1> QED BY <1>1, <1>2, <1>3, <1>4, LandSorted

\* Once the first batch is done with, what waits comes after what is on disk, landed or not.
LEMMA OpEndsSorted ==
  ASSUME TypeInv, LogInv, OpEnds, Land(Head(ops)) \/ UNCHANGED disk
  PROVE  Sorted' /\ DiskBound' /\ OpsBound' /\ OpsSorted'
<1>1. ops # <<>> /\ ops' = Tail(ops) /\ UNCHANGED <<era, recorded>>
  BY DEF TypeInv, OpsInv, OpEnds
<1>2. /\ 1 \in DOMAIN ops /\ DOMAIN ops' \subseteq Nat
      /\ \A k \in DOMAIN ops' : k + 1 \in DOMAIN ops /\ 1 < k + 1 /\ ops'[k] = ops[k + 1]
  BY <1>1, LogTyped
<1>3. /\ Sorted'
      /\ \A i \in DOMAIN disk' : \/ i \in DOMAIN disk /\ disk'[i] = disk[i]
                                 \/ disk'[i].era = era /\ \E l \in DOMAIN ops[1] : disk'[i].n = ops[1][l]
  <2>1. CASE Land(Head(ops))
    BY <1>1, <2>1, FirstLands
  <2>2. CASE UNCHANGED disk
    BY <2>2 DEF LogInv, Sorted
  <2> QED BY <2>1, <2>2
<1>4. DiskBound'
  BY <1>1, <1>2, <1>3, LogTyped DEF LogInv, DiskBound, OpsBound
<1>5. OpsBound'
  <2> SUFFICES ASSUME NEW k \in DOMAIN ops', NEW l \in DOMAIN ops'[k]
               PROVE  ops'[k][l] <= recorded /\ \A i \in DOMAIN disk' : disk'[i].n < ops'[k][l]
    BY <1>1 DEF OpsBound
  <2>1. k + 1 \in DOMAIN ops /\ 1 < k + 1 /\ ops'[k] = ops[k + 1] /\ l \in DOMAIN ops[k + 1]
    BY <1>2
  <2>2. \A o \in DOMAIN ops[1] : ops[1][o] < ops[k + 1][l]
    BY <1>2, <2>1 DEF LogInv, OpsSorted
  <2>3. ops[k + 1][l] <= recorded /\ \A i \in DOMAIN disk : disk[i].n < ops[k + 1][l]
    BY <2>1 DEF LogInv, OpsBound
  <2> QED BY <1>3, <2>1, <2>2, <2>3
<1>6. OpsSorted'
  <2> SUFFICES ASSUME NEW k \in DOMAIN ops', NEW m \in DOMAIN ops', NEW l \in DOMAIN ops'[k],
                      NEW o \in DOMAIN ops'[m], k < m \/ (k = m /\ l < o)
               PROVE  ops'[k][l] < ops'[m][o]
    BY DEF OpsSorted
  <2>1. k + 1 \in DOMAIN ops /\ m + 1 \in DOMAIN ops /\ ops'[k] = ops[k + 1] /\ ops'[m] = ops[m + 1]
    BY <1>2
  <2>2. k + 1 < m + 1 \/ (k + 1 = m + 1 /\ l < o)
    BY <1>2
  <2> QED BY <2>1, <2>2 DEF LogInv, OpsSorted
<1> QED BY <1>3, <1>4, <1>5, <1>6

LEMMA LogInit == EventsInit => LogInv
<1> SUFFICES ASSUME EventsInit PROVE LogInv
  OBVIOUS
<1>1. DOMAIN disk = {} /\ DOMAIN ops = {} /\ settled = {}
  BY DEF EventsInit
<1> QED BY <1>1 DEF LogInv, Sorted, DiskBound, OpsBound, OpsSorted, OnDisk

\* Every step keeps the rows in order on their way to the disk.
LEMMA LogStep == TypeInv /\ TypeInv' /\ LogInv /\ [EventsNext]_eventVars => LogInv'
<1> SUFFICES ASSUME TypeInv, TypeInv', LogInv, [EventsNext]_eventVars PROVE LogInv'
  OBVIOUS
<1>0. Sorted /\ DiskBound /\ OpsBound /\ OpsSorted /\ (broken # "write" => OnDisk = settled)
  BY DEF LogInv
<1>a. CASE /\ UNCHANGED <<era, recorded, settled, ops, disk>>
           /\ broken' # "write" => broken # "write"
  BY <1>0, <1>a DEF LogInv, Sorted, DiskBound, OpsBound, OpsSorted, OnDisk
<1>b. CASE PublishPlain \/ StartOp \/ Recover \/ BeginEnd \/ EndTurn \/ UNCHANGED eventVars
  BY <1>a, <1>b DEF PublishPlain, StartOp, Recover, BeginEnd, EndTurn, eventVars, log
<1>c. CASE Overload
  BY <1>a, <1>c DEF Overload, log
<1>d. CASE \E d \in drains : Drain(d)
  BY <1>a, <1>d DEF Drain, log
<1>e. CASE ReadLog
  <2>1. ops' = Append(ops, <<>>) /\ UNCHANGED <<era, recorded, settled, disk, broken>>
    BY <1>e DEF ReadLog
  <2>2. \A k \in DOMAIN ops' : \A l \in DOMAIN ops'[k] : k \in DOMAIN ops /\ l \in DOMAIN ops[k] /\ ops'[k] = ops[k]
    <3>1. Len(ops) \in Nat /\ DOMAIN ops = 1..Len(ops) /\ DOMAIN ops' = 1..(Len(ops) + 1)
          /\ ops'[Len(ops) + 1] = <<>> /\ \A k \in DOMAIN ops : ops'[k] = ops[k]
      BY <2>1, LogTyped
    <3>2. DOMAIN <<>> = {}
      OBVIOUS
    <3>3. \A k \in DOMAIN ops' : k = Len(ops) + 1 \/ k \in DOMAIN ops
      BY <3>1
    <3> QED BY <3>1, <3>2, <3>3
  <2>3. OpsBound' /\ OpsSorted'
    BY <1>0, <2>1, <2>2 DEF OpsBound, OpsSorted
  <2> QED BY <1>0, <2>1, <2>3 DEF LogInv, Sorted, DiskBound, OnDisk
<1>f. CASE RecordTimeline
  <2> DEFINE n == recorded + 1
  <2>1. n \in Nat /\ Join(n) /\ recorded' = n /\ UNCHANGED <<era, settled, disk, broken>>
    BY <1>f, LogTyped DEF RecordTimeline
  <2>2. recorded \in Nat /\ recorded < n
    BY LogTyped
  <2> HIDE DEF n
  <2>3. \A k \in DOMAIN ops' : \A l \in DOMAIN ops'[k] :
          \/ k \in DOMAIN ops /\ l \in DOMAIN ops[k] /\ ops'[k][l] = ops[k][l]
          \/ k = Len(ops') /\ l = Len(ops'[k]) /\ ops'[k][l] = n
    BY <2>1, JoinedLast
  <2>4. DiskBound'
    BY <1>0, <2>1, <2>2, LogTyped DEF DiskBound
  <2>5. OpsBound'
    <3> SUFFICES ASSUME NEW k \in DOMAIN ops', NEW l \in DOMAIN ops'[k]
                 PROVE  ops'[k][l] <= n /\ \A i \in DOMAIN disk : disk[i].n < ops'[k][l]
      BY <2>1 DEF OpsBound
    <3>1. CASE k \in DOMAIN ops /\ l \in DOMAIN ops[k] /\ ops'[k][l] = ops[k][l]
      BY <1>0, <2>1, <2>2, <3>1, LogTyped DEF OpsBound
    <3>2. CASE ops'[k][l] = n
      BY <1>0, <2>1, <2>2, <3>2, LogTyped DEF DiskBound
    <3> QED BY <2>3, <3>1, <3>2
  <2>6. OpsSorted'
    <3> SUFFICES ASSUME NEW k \in DOMAIN ops', NEW m \in DOMAIN ops', NEW l \in DOMAIN ops'[k],
                        NEW o \in DOMAIN ops'[m], k < m \/ (k = m /\ l < o)
                 PROVE  ops'[k][l] < ops'[m][o]
      BY DEF OpsSorted
    <3>1. /\ DOMAIN ops' = 1..Len(ops') /\ Len(ops') \in Nat
          /\ DOMAIN (ops'[k]) = 1..Len(ops'[k]) /\ Len(ops'[k]) \in Nat
      <4>1. ops' \in Seq(Seq(Nat))
        BY DEF TypeInv, EventsTypeOK
      <4>2. ops'[k] \in Seq(Nat)
        BY <4>1
      <4> QED BY <4>1, <4>2
    <3>2. ~(k = Len(ops') /\ l = Len(ops'[k]))
      BY <3>1
    <3>3. k \in DOMAIN ops /\ l \in DOMAIN ops[k] /\ ops'[k][l] = ops[k][l]
      BY <2>3, <3>2
    <3>4. CASE m \in DOMAIN ops /\ o \in DOMAIN ops[m] /\ ops'[m][o] = ops[m][o]
      BY <1>0, <3>3, <3>4 DEF OpsSorted
    <3>5. CASE ops'[m][o] = n
      <4>1. ops[k][l] \in Nat
        BY <3>3, LogTyped
      <4>2. ops[k][l] <= recorded
        BY <1>0, <3>3 DEF OpsBound
      <4> QED BY <2>1, <2>2, <3>3, <3>5, <4>1, <4>2
    <3> QED BY <2>3, <3>4, <3>5
  <2> QED BY <1>0, <2>1, <2>4, <2>5, <2>6 DEF LogInv, Sorted, OnDisk
<1>g. CASE OpSucceeds
  <2>1. OpEnds /\ Land(Head(ops)) /\ UNCHANGED broken
    BY <1>g DEF OpSucceeds
  <2>2. Sorted' /\ DiskBound' /\ OpsBound' /\ OpsSorted'
    BY <2>1, OpEndsSorted
  <2>3. ops # <<>> /\ Head(ops) = ops[1] /\ UNCHANGED era /\ settled' = settled \cup Range(ops[1])
    BY <2>1 DEF TypeInv, OpsInv, OpEnds
  <2>4. /\ \A i \in DOMAIN disk' : \/ i \in DOMAIN disk /\ disk'[i] = disk[i]
                                   \/ disk'[i].era = era /\ \E l \in DOMAIN ops[1] : disk'[i].n = ops[1][l]
        /\ \A i \in DOMAIN disk : i \in DOMAIN disk' /\ disk'[i] = disk[i]
        /\ \A l \in DOMAIN ops[1] : \E i \in DOMAIN disk' : disk'[i] = Row(ops[1][l])
    BY <2>1, <2>3, FirstLands
  <2>5. OnDisk' = OnDisk \cup Range(ops[1])
    <3>1. \A x : x \in OnDisk' => x \in OnDisk \cup Range(ops[1])
      BY <2>3, <2>4 DEF OnDisk, Range
    <3>2. \A x \in OnDisk : x \in OnDisk'
      BY <2>3, <2>4 DEF OnDisk
    <3>3. \A x \in Range(ops[1]) : x \in OnDisk'
      BY <2>3, <2>4 DEF OnDisk, Range, Row
    <3> QED BY <3>1, <3>2, <3>3
  <2> QED BY <1>0, <2>1, <2>2, <2>3, <2>5 DEF LogInv
<1>h. CASE OpFails
  BY <1>h, OpEndsSorted DEF OpFails, LogInv
<1>i. CASE Crash
  <2>1. /\ era' = era + 1 /\ ops' = <<>> /\ settled' = {} /\ recorded' = base'
        /\ base' = IF disk' = <<>> THEN 0 ELSE disk'[Len(disk')].n
        /\ (started /\ Land(Head(ops))) \/ UNCHANGED disk
    BY <1>i DEF Crash
  <2>2. /\ Sorted'
        /\ \A i \in DOMAIN disk' : \/ i \in DOMAIN disk /\ disk'[i] = disk[i]
                                   \/ disk'[i].era = era
    <3>1. CASE started /\ Land(Head(ops))
      BY <3>1, FirstLands DEF TypeInv, OpsInv
    <3>2. CASE UNCHANGED disk
      BY <1>0, <3>2 DEF Sorted
    <3> QED BY <2>1, <3>1, <3>2
  <2>3. era \in Nat /\ \A i \in DOMAIN disk' : disk'[i].era \in Nat /\ disk'[i].era <= era
    BY <1>0, <2>2, LogTyped DEF DiskBound
  <2>4. \A i \in DOMAIN disk' : disk'[i].n <= recorded'
    <3>1. disk' \in Seq(Rows)
      BY DEF TypeInv, EventsTypeOK, Rows
    <3>2. \A i \in DOMAIN disk' : disk'[i] \in Rows
      BY <3>1
    <3> TAKE i \in DOMAIN disk'
    <3>3. disk' # <<>> /\ Len(disk') \in DOMAIN disk' /\ (i = Len(disk') \/ i < Len(disk'))
      BY <3>1
    <3>4. recorded' = disk'[Len(disk')].n
      BY <2>1, <3>3
    <3>5. {disk'[i].n, disk'[Len(disk')].n} \subseteq Nat
      BY <3>2, <3>3 DEF Rows
    <3> QED BY <2>2, <3>3, <3>4, <3>5 DEF Sorted
  <2>5. DiskBound'
    BY <2>1, <2>3, <2>4 DEF DiskBound
  <2>6. OpsBound' /\ OpsSorted'
    <3>1. DOMAIN ops' = {}
      BY <2>1
    <3> QED BY <3>1 DEF OpsBound, OpsSorted
  <2>7. OnDisk' = {}
    BY <2>1, <2>3 DEF OnDisk
  <2> QED BY <2>1, <2>2, <2>5, <2>6, <2>7 DEF LogInv
<1> QED
  BY <1>b, <1>c, <1>d, <1>e, <1>f, <1>g, <1>h, <1>i DEF EventsNext

\* Unless a write failed, the disk holds exactly the rows whose write has settled, in the order of
\* their numbers, also across crashes in the middle of a batch.
THEOREM HistoryHasNoHoles == EventsSpec => []LogIsPrefix
<1>1. EventsInit => TypeInv /\ LogInv
  BY TypeInit, LogInit
<1>2. TypeInv /\ LogInv /\ [EventsNext]_eventVars => (TypeInv /\ LogInv)'
  BY TypeStep, LogStep
<1>3. LogInv => LogIsPrefix
  BY DEF LogInv, LogIsPrefix, Sorted, OnDisk
<1> QED BY <1>1, <1>2, <1>3, PTL DEF EventsSpec
=============================================================================
