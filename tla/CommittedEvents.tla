---------------------------- MODULE CommittedEvents ----------------------------
(***************************************************************************)
(* The history of one agent: rows are numbered in memory, written to the   *)
(* session log in group commits, and what is told of the agent waits until *)
(* the rows before it are on disk.  A write may fail, the memory for       *)
(* pending events may run out, and the daemon may crash.                   *)
(*                                                                         *)
(* A row is its number and the run of the daemon that recorded it, so that *)
(* a number used again after a crash is another row.  A rewrite of a row   *)
(* that is on disk already is left out: it has no number of its own.       *)
(***************************************************************************)
EXTENDS Naturals, Sequences, Functions

CONSTANTS
  MaxRows,    \* bound: rows recorded
  MaxEvents,  \* bound: events published
  BatchRows,  \* rows a group commit holds
  MaxEnds,    \* bound: turns whose end was shown
  MaxReads,   \* bound: other operations on the session's log
  MaxBreaks   \* bound: overloads, failed writes and crashes

ASSUME EventsAssumption ==
  /\ MaxRows \in Nat /\ MaxEvents \in Nat /\ MaxEnds \in Nat /\ MaxReads \in Nat /\ MaxBreaks \in Nat
  /\ BatchRows \in Nat \ {0}

VARIABLES
  era,        \* run of the daemon
  base,       \* number of the last row when it started
  recorded,   \* number of the last row recorded
  settled,    \* rows of this run whose write has settled
  ops,        \* operations queued on the log, as the rows each writes
  started,    \* the first of them is under way
  joinable,   \* the last of them is a group commit that rows may still join
  disk,       \* rows on disk, in the order they were written
  broken,     \* why the history is known to be incomplete
  published,  \* number of the last event published
  queue,      \* deliveries that wait, in the order they were published
  drains,     \* the drain of the queue, and those whose queue was discarded
  shown,      \* what was delivered
  ending,     \* a turn whose terminal event waits for the delivery of what was published before
  reads, breaks

log == <<era, base, recorded, settled, ops, started, joinable, disk>>
feed == <<published, queue, drains, shown>>
bounds == <<reads, breaks>>
eventVars == <<log, broken, feed, ending, bounds>>

Row(n) == [era |-> era, n |-> n]
Written(n) == base + 1 .. n \subseteq settled
\* The tail of the writes in flight covers every row recorded so far.
PendingWrite == IF Written(recorded) THEN 0 ELSE recorded

NotEnding == [on |-> FALSE, after |-> 0, rows |-> 0]
Events == [id : Nat, row : Nat, after : Nat, write : Nat]

EventsInit ==
  /\ era = 0 /\ base = 0 /\ recorded = 0 /\ settled = {}
  /\ ops = <<>> /\ started = FALSE /\ joinable = FALSE
  /\ disk = <<>>
  /\ broken = "no"
  /\ published = 0 /\ queue = <<>> /\ drains = {} /\ shown = <<>>
  /\ ending = NotEnding
  /\ reads = 0 /\ breaks = 0

-----------------------------------------------------------------------------
(* Publishing *)

\* A delivery, and whether it says that the rows before it are committed.
Tell(id, row, after) ==
  shown' = Append(shown, [id |-> id, row |-> row, after |-> after, era |-> era, base |-> base,
                          sure |-> broken = "no"])

\* Slip: one drain at a time, also when the queue of the old one was discarded.
DrainOnce(e) == drains' = IF queue = <<>> /\ drains = {} THEN {[live |-> TRUE, entry |-> e]} ELSE drains

\* A new queue gets a drain of its own; an old drain still waits for the write it began with.
DrainFor(e) ==
  drains' = IF queue = <<>> THEN drains \cup {[live |-> TRUE, entry |-> e]} ELSE drains

\* An event is delivered at once if nothing is in its way, or queued behind what is.  With an
\* incomplete history only events that certify no row are delivered.
Publish(row, after, write) ==
  LET id == published + 1
      e == [id |-> id, row |-> row, after |-> after, write |-> write] IN
  /\ published < MaxEvents
  /\ published' = id
  /\ \/ /\ broken # "no"
        /\ IF row = 0 THEN Tell(id, row, after) ELSE UNCHANGED shown
        /\ UNCHANGED <<queue, drains>>
     \/ /\ broken = "no" /\ queue = <<>> /\ write = 0
        /\ Tell(id, row, after)
        /\ UNCHANGED <<queue, drains>>
     \/ /\ broken = "no" /\ (queue # <<>> \/ write # 0)
        /\ queue' = Append(queue, e)
        /\ DrainFor(e)
        /\ UNCHANGED shown

\* An event that brings no row of its own; the rows recorded before it come first.
PublishPlain ==
  /\ Publish(0, recorded, PendingWrite)
  /\ UNCHANGED <<log, broken, ending, bounds>>

\* The row joins the group commit that is last in the log's queue, or starts one behind it.
Join(n) ==
  IF joinable /\ Len(ops[Len(ops)]) < BatchRows
  THEN ops' = [ops EXCEPT ![Len(ops)] = Append(@, n)] /\ UNCHANGED joinable
  ELSE ops' = Append(ops, <<n>>) /\ joinable' = TRUE

\* Slip: the event is published before the write of its row is queued.
RecordAfterPublish ==
  LET n == recorded + 1 IN
  /\ broken = "no"
  /\ n <= MaxRows
  /\ recorded' = n
  /\ Join(n)
  /\ Publish(n, n, PendingWrite)
  /\ UNCHANGED <<era, base, settled, started, disk, broken, ending, bounds>>

\* A row gets its number, its write is queued and its event is published behind that write.
RecordTimeline ==
  LET n == recorded + 1 IN
  /\ broken = "no"
  /\ n <= MaxRows
  /\ recorded' = n
  /\ Join(n)
  /\ Publish(n, n, n)
  /\ UNCHANGED <<era, base, settled, started, disk, broken, ending, bounds>>

-----------------------------------------------------------------------------
(* The session log *)

\* Another operation ends the group commit that was open.
ReadLog ==
  /\ reads < MaxReads
  /\ reads' = reads + 1
  /\ ops' = Append(ops, <<>>)
  /\ joinable' = FALSE
  /\ UNCHANGED <<era, base, recorded, settled, started, disk, broken, feed, ending, breaks>>

\* A group commit that starts takes no more rows.
StartOp ==
  /\ ops # <<>>
  /\ ~started
  /\ started' = TRUE
  /\ joinable' = (joinable /\ Len(ops) > 1)
  /\ UNCHANGED <<era, base, recorded, settled, ops, disk, broken, feed, ending, bounds>>

Land(rows) == disk' = disk \o [i \in 1..Len(rows) |-> Row(rows[i])]

OpEnds ==
  /\ started
  /\ started' = FALSE
  /\ ops' = Tail(ops)
  /\ settled' = settled \cup Range(Head(ops))
  /\ UNCHANGED <<era, base, recorded, joinable, reads>>

OpSucceeds ==
  /\ OpEnds
  /\ Land(Head(ops))
  /\ UNCHANGED <<broken, feed, ending, breaks>>

\* Whoever waits for a delivery is woken when it is dropped, and sees that the history failed.
Discard ==
  /\ queue' = <<>>
  /\ drains' = {[d EXCEPT !.live = FALSE] : d \in drains}
  /\ ending' = IF queue # <<>> THEN NotEnding ELSE ending
  /\ UNCHANGED <<published, shown>>

Break == breaks < MaxBreaks /\ breaks' = breaks + 1

\* Slip: an overload that waits for its recovery hides a failed write.
OpFailsUnseen ==
  /\ Break
  /\ OpEnds
  /\ Head(ops) # <<>>
  /\ Land(Head(ops)) \/ UNCHANGED disk
  /\ broken' = IF broken = "no" THEN "write" ELSE broken
  /\ Discard

\* The rows of the batch may have reached the disk or not.  The history stays incomplete.
OpFails ==
  /\ Break
  /\ OpEnds
  /\ Head(ops) # <<>>
  /\ Land(Head(ops)) \/ UNCHANGED disk
  /\ broken' = "write"
  /\ Discard

\* Pending events exceed their memory: the event is refused before it has a row.
Overload ==
  /\ Break
  /\ broken = "no"
  /\ broken' = "overload"
  /\ Discard
  /\ UNCHANGED <<log, reads>>

\* What was in flight is written or dropped: the history is complete again.
Recover ==
  /\ broken = "overload"
  /\ Written(recorded)
  /\ broken' = "no"
  /\ UNCHANGED <<log, feed, ending, bounds>>

-----------------------------------------------------------------------------
(* Delivery *)

\* Slip: a drain does not look whether the queue is still its own.
DrainBlindly(d) ==
  /\ d.entry.write = 0 \/ Written(d.entry.write)
  /\ queue' = IF queue = <<>> THEN queue ELSE Tail(queue)
  /\ Tell(d.entry.id, d.entry.row, d.entry.after)
  /\ drains' = (drains \ {d}) \cup
       IF Len(queue) > 1 THEN {[live |-> TRUE, entry |-> queue[2]]} ELSE {}
  /\ UNCHANGED <<log, broken, published, ending, bounds>>

\* A drain waits for the write of the entry at its head, then delivers it, if the queue it began
\* with is still there.
Drain(d) ==
  /\ d.entry.write = 0 \/ Written(d.entry.write)
  /\ IF d.live
     THEN /\ queue' = Tail(queue)
          /\ IF d.entry.row # 0 /\ broken # "no"
             THEN UNCHANGED shown
             ELSE Tell(d.entry.id, d.entry.row, d.entry.after)
          /\ drains' = (drains \ {d}) \cup
               IF Len(queue) > 1 THEN {[live |-> TRUE, entry |-> queue[2]]} ELSE {}
     ELSE /\ drains' = drains \ {d}
          /\ UNCHANGED <<queue, shown>>
  /\ UNCHANGED <<log, broken, published, ending, bounds>>

\* A terminal event waits until everything published so far was delivered or dropped.
BeginEnd ==
  /\ ~ending.on
  /\ Len(SelectSeq(shown, LAMBDA e : e.id = 0)) < MaxEnds
  /\ ending' = [on |-> TRUE, after |-> published, rows |-> recorded]
  /\ UNCHANGED <<log, broken, feed, bounds>>

\* Then the agent is idle, and says so past the queue.  A turn whose history failed is ended
\* elsewhere.
EndTurn ==
  /\ ending.on
  /\ \A i \in DOMAIN queue : queue[i].id > ending.after
  /\ ending' = NotEnding
  /\ IF broken = "no" THEN Tell(0, 0, ending.rows) ELSE UNCHANGED shown
  /\ UNCHANGED <<log, broken, published, queue, drains, bounds>>

\* Memory is lost; a write under way may have reached the disk.  Numbers go on after the last row.
Crash ==
  /\ Break
  /\ (started /\ Land(Head(ops))) \/ UNCHANGED disk
  /\ era' = era + 1
  /\ base' = IF disk' = <<>> THEN 0 ELSE disk'[Len(disk')].n
  /\ recorded' = base'
  /\ settled' = {}
  /\ ops' = <<>> /\ started' = FALSE /\ joinable' = FALSE
  /\ broken' = "no"
  /\ queue' = <<>> /\ drains' = {}
  /\ ending' = NotEnding
  /\ UNCHANGED <<published, shown, reads>>

EventsNext ==
  \/ PublishPlain \/ RecordTimeline
  \/ ReadLog \/ StartOp \/ OpSucceeds \/ OpFails
  \/ Overload \/ Recover
  \/ \E d \in drains : Drain(d)
  \/ BeginEnd \/ EndTurn
  \/ Crash

EventsSpec == EventsInit /\ [][EventsNext]_eventVars

\* Operations of the log end, one way or the other, and resumed awaits run.
EventsFairness ==
  /\ WF_eventVars(StartOp \/ OpSucceeds \/ OpFails)
  /\ WF_eventVars(EndTurn \/ \E d \in drains : Drain(d))
FairEventsSpec == EventsSpec /\ EventsFairness

-----------------------------------------------------------------------------
(* Properties *)

\* Every variable keeps its shape, and no group commit holds more rows than it may.
EventsTypeOK ==
  /\ {era, base, recorded, published, reads, breaks} \subseteq Nat
  /\ settled \subseteq Nat
  /\ ops \in Seq(Seq(Nat)) /\ \A i \in DOMAIN ops : Len(ops[i]) <= BatchRows
  /\ started \in BOOLEAN /\ joinable \in BOOLEAN
  /\ disk \in Seq([era : Nat, n : Nat])
  /\ broken \in {"no", "overload", "write"}
  /\ queue \in Seq(Events)
  /\ drains \subseteq [live : BOOLEAN, entry : Events]
  /\ shown \in Seq([id : Nat, row : Nat, after : Nat, era : Nat, base : Nat, sure : BOOLEAN])
  /\ ending \in [on : BOOLEAN, after : Nat, rows : Nat]

\* No client and no waiter is told of a row, a state or the end of a turn before every row that
\* came before it is on disk, unless the history is known to be incomplete: a crash never takes
\* back what was shown.
NeverAhead ==
  \A i \in DOMAIN shown :
    shown[i].sure =>
      \A n \in shown[i].base + 1 .. shown[i].after : [era |-> shown[i].era, n |-> n] \in Range(disk)

\* Events are delivered in the order they were published, each at most once, also when a queue was
\* discarded while a drain waited and a new queue took its place; as long as nothing broke, every
\* event was delivered or waits.
InCallOrder ==
  /\ \A i, j \in DOMAIN shown : i < j /\ shown[i].id # 0 /\ shown[j].id # 0 => shown[i].id < shown[j].id
  /\ breaks = 0 =>
       {shown[i].id : i \in DOMAIN shown} \cup {queue[i].id : i \in DOMAIN queue} \cup {0}
         = 0..published

\* A history not known to be incomplete has no holes: of what this run recorded the disk holds the
\* first rows, in order.
LogIsPrefix ==
  broken # "write" =>
    /\ \A i, j \in DOMAIN disk : i < j => disk[i].n < disk[j].n
    /\ {disk[i].n : i \in {i \in DOMAIN disk : disk[i].era = era}} = settled

\* Once nothing new is published the queue runs empty, and a turn that is ending ends or its history
\* failed: nobody waits for good, whatever was dropped on the way.
EventsSettle == queue # <<>> \/ ending.on ~> queue = <<>> /\ ~ending.on
=============================================================================
