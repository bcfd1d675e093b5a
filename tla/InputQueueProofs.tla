--------------------------- MODULE InputQueueProofs ---------------------------
(***************************************************************************)
(* What InputQueue promises for every set of messages, clients and callers *)
(* and every capacity and bound: the composition is still a dispatch, ids  *)
(* are unique, one item at a time is handed over and stays as it was       *)
(* claimed, items only go forward, and leave with proof or by a client.    *)
(***************************************************************************)
EXTENDS InputQueue, PromptDispatchProofs, SequenceTheorems, FiniteSetTheorems

HandRecords ==
  [pc : HandPcs, id : Ids \cup {NoId}, c : Contents \cup {NoContent}, via : Callers \cup {Nobody}]
CmdRecords ==
  [pc : CmdPcs, op : AllOps, id : Ids \cup {NoId}, c : Contents \cup {NoContent}, exp : Nat,
   fresh : BOOLEAN]
ItemRecords == [id : Ids, c : Contents, state : DOMAIN Stage]
Active(h) == hand[h].pc # "none"
HeldBy(i, h) == items[i].id = hand[h].id /\ items[i].c = hand[h].c /\ (h = Drain => i = 1)

-----------------------------------------------------------------------------
(* The inductive invariant *)

\* An enqueue past its checks holds the promise chain, so what it checked is still so.
CommandSound(p) ==
  /\ cmd[p].op # "fetch" => cmd[p].id \in Ids
  /\ cmd[p].op \in Drafting => cmd[p].c \in Contents
  /\ cmd[p].pc = "commit" =>
       /\ chain = p /\ cmd[p].op = "enqueue" /\ Len(items) < MaxItems
       /\ \A i \in DOMAIN items : items[i].id # cmd[p].id
  /\ cmd[p].pc = "hand" <=> Active(p)
CommandInv == \A p \in Cmds : CommandSound(p)

\* At most one item is being sent, and at most one handoff is under way.
OneSent == \A i, j \in Sending : i = j
OneHand == \A g, h \in Hands : Active(g) /\ Active(h) => g = h
DrainHands == Active(Drain) <=> drain = "handoff"
Carried == \A h \in Hands : hand[h].pc = "send" => hand[h].via \in Callers
Proven == \A h \in Hands : hand[h].pc = "settle" => Durable(hand[h].id)

\* Before recovery nothing is claimed; after it, only a failed write leaves an item without its
\* handoff; after stop resolved, nothing is under way.
Recovering ==
  recovery = "pending" =>
    /\ drain \in {"none", "check"}
    /\ \A p \in Cmds : cmd[p].pc \in {"idle", "exec"}
Attended ==
  Sending # {} /\ faults = 0 /\ recovery # "pending" => \E h \in Hands : Active(h)
Resolved ==
  up = "exited" => recovery # "pending" /\ drain = "none" /\ \A p \in Cmds : cmd[p] = IdleCmd

HandInv == HandOwnsItem /\ OneHand /\ DrainHands /\ Carried /\ Proven
PhaseInv == Recovering /\ Attended /\ Resolved

QueueInv ==
  /\ QueueTypeOK /\ UniqueIds /\ OneSent
  /\ CommandInv /\ HandInv /\ PhaseInv
QInv == TypeInv /\ turns <= MaxTurns /\ QueueInv

-----------------------------------------------------------------------------
(* The dispatch below the queue *)

LEMMA Claimed ==
  ASSUME QInv, NEW h \in Hands, Active(h)
  PROVE  /\ hand[h].id \in Ids /\ hand[h].c \in Contents
         /\ \E i \in Sending : HeldBy(i, h)
  <1>1. PICK i \in Sending : HeldBy(i, h)
    BY DEF QInv, QueueInv, HandInv, HandOwnsItem, HeldBy, Active
  <1>2. items \in Seq(ItemRecords) /\ i \in DOMAIN items
    BY DEF QInv, QueueInv, QueueTypeOK, ItemRecords, Sending
  <1>3. items[i] \in ItemRecords
    BY <1>2
  <1>4. QED
    BY <1>1, <1>3 DEF HeldBy, ItemRecords

\* Every step of the queue is a step of the dispatch, or none.
LEMMA DispatchBelow ==
  ASSUME QueueAssumption, QInv, [QueueNext]_vars
  PROVE  [DispatchNext]_dispatchVars
  <1>1. ASSUME NEW h \in Hands, NEW d \in Callers, HandBegins(h, d) PROVE Send(d)
    <2>1. hand[h].id \in Ids /\ hand[h].c \in Contents
      BY <1>1, Claimed DEF HandBegins, Active
    <2>2. HandMode(h) \in Modes
      BY DEF HandMode, Modes
    <2>3. HandExp(h) \in 0..MaxTurns
      <3>1. Begin(d, hand[h].id, hand[h].c, HandMode(h), HandExp(h))
        BY <1>1 DEF HandBegins
      <3>2. HandExp(h) \in Nat
        <4>1. HandMode(h) = "steer" => h \in Cmds
          BY DEF HandMode, Hands
        <4>2. \A p \in Cmds : cmd[p].exp \in Nat
          BY DEF QInv, QueueInv, QueueTypeOK
        <4>3. QED
          BY <4>1, <4>2 DEF HandExp
      <3>3. HandExp(h) <= turns /\ turns \in Nat /\ turns <= MaxTurns /\ MaxTurns \in Nat
        BY <3>1, DispatchAssumption DEF Begin, QInv, TypeInv, DispatchTypeOK
      <3>4. QED
        BY <3>2, <3>3
    <2>4. QED
      BY <1>1, <2>1, <2>2, <2>3 DEF HandBegins, Send
  <1>2. ASSUME NEW h \in Hands, HandStep(h)
        PROVE  \/ \E d \in Callers : Send(d) \/ Done(d)
               \/ UNCHANGED dispatchVars
    <2>1. ASSUME HandAnswered(h) PROVE \E d \in Callers : Done(d)
      BY <2>1 DEF HandAnswered, QInv, QueueInv, HandInv, Carried
    <2>2. QED
      BY <1>1, <1>2, <2>1
      DEF HandStep, HandAborts, HandConfirmed, HandTimesOut, HandSettles, HandReviews, NoSubmission
  <1>3. ASSUME NEW p \in Cmds, CommandBegins(p) \/ CommandStep(p) PROVE UNCHANGED dispatchVars
    BY <1>3
    DEF CommandBegins, CommandStep, CommandRefused, Fetches, EnqueueKnown, EnqueueFull,
        EnqueuePrepares, EnqueueCommits, EnqueueFails, Mutates, MutateRefused, SendNow,
        SendNowRefused, NoSubmission
  <1>4. ASSUME DrainStep \/ Recovers \/ Stop \/ StopResolves PROVE UNCHANGED dispatchVars
    BY <1>4
    DEF DrainStep, DrainChecks, DrainAsksReady, DrainClaims, DrainFinishes, Recovers, Stop,
        StopResolves, NoSubmission
  <1>5. ASSUME NEW d \in Callers, QuietStep(d) \/ LoudStep(d) \/ DirectSend(d) \/ DirectDone(d)
        PROVE  Quiet(d) \/ Loud(d) \/ Send(d) \/ Done(d)
    BY <1>5, QueueAssumption DEF QuietStep, LoudStep, DirectSend, DirectDone, Send, QueueAssumption
  <1>6. QED
    BY <1>2, <1>3, <1>4, <1>5 DEF QueueNext, DispatchNext, EventStep, Restart, vars

LEMMA TurnsBounded ==
  ASSUME TypeInv, turns <= MaxTurns, [DispatchNext]_dispatchVars
  PROVE  turns' <= MaxTurns
  <1>1. turns \in Nat /\ MaxTurns \in Nat
    BY DispatchAssumption DEF TypeInv, DispatchTypeOK
  <1>2. turns' = turns \/ (turns < MaxTurns /\ turns' = turns + 1)
    BY DEF DispatchNext, Loud, Quiet, AgentEvent, Send, Begin, Done, AdmitFails, AdmitNew,
           AdmitKnown, AdmitRefused, DispatchFails, OutOfBand, SteerRefused, SteerAdmitted,
           SteerAccepted, SteerUnavailable, SteerFails, Withdraw, StreamAgent, StreamRefused,
           CancelRefused, StartOrphaned, StartRejected, StartNotDelivered, StartWithdraws,
           CallRecordFails, ReplaceRun, CancelSettles, StartAccepted, RejectRecorded, RecordRow,
           RecordApplied, RecordFails, CallRow, CallApplied, RunCommand, StopRun, StopRefused,
           AutonomousTurn, TurnEnds, Crash, agent, dispatchVars
  <1>3. QED
    BY <1>1, <1>2

\* A proof of handoff stays one.
LEMMA DurableStays ==
  ASSUME TypeInv, [DispatchNext]_dispatchVars, NEW m \in Ids, Durable(m)
  PROVE  Durable(m)'
  <1>1. ledger[m] = "applied" /\ row[m] # "none"
    BY DEF Durable
  <1> DEFINE Goal == ledger'[m] = "applied" /\ row'[m] # "none"
  <1> USE <1>1 DEF disk
  <1>2. ASSUME UNCHANGED <<ledger, row>> PROVE Goal
    BY <1>2
  <1>3. ASSUME NEW d \in Callers, AdmitNew(d) PROVE Goal
    BY <1>3 DEF AdmitNew, TypeInv, DispatchTypeOK
  <1>4. ASSUME NEW d \in Callers,
               Withdraw(d) \/ StartWithdraws(d) \/ RecordApplied(d) \/ CallApplied(d)
        PROVE  Goal
    BY <1>4
    DEF Withdraw, StartWithdraws, RecordApplied, CallApplied, Resolve, TypeInv, DispatchTypeOK
  <1>5. ASSUME NEW d \in Callers,
               RejectRecorded(d) \/ RecordRow(d) \/ CallRow(d)
        PROVE  Goal
    BY <1>5 DEF RejectRecorded, RecordRow, CallRow, Resolve, TypeInv, DispatchTypeOK
  <1>6. ASSUME NEW d \in Callers,
               \/ Send(d) \/ Done(d) \/ AdmitFails(d) \/ AdmitKnown(d) \/ AdmitRefused(d)
               \/ DispatchFails(d) \/ OutOfBand(d) \/ SteerRefused(d) \/ SteerAdmitted(d)
               \/ SteerAccepted(d) \/ SteerUnavailable(d) \/ SteerFails(d)
               \/ StreamAgent(d) \/ StreamRefused(d) \/ ReplaceRun(d)
               \/ CancelSettles(d) \/ CancelRefused(d)
               \/ StartOrphaned(d) \/ StartAccepted(d) \/ StartRejected(d)
               \/ StartNotDelivered(d) \/ RecordFails(d) \/ CallRecordFails(d) \/ RunCommand(d)
        PROVE  UNCHANGED <<ledger, row>>
    BY <1>6
    DEF Send, Begin, Done, AdmitFails, AdmitKnown, AdmitRefused, DispatchFails, OutOfBand,
        SteerRefused, SteerAdmitted, SteerAccepted, SteerUnavailable, SteerFails, StreamAgent,
        StreamRefused, ReplaceRun, CancelSettles, CancelRefused, StartOrphaned, StartAccepted,
        StartRejected, StartNotDelivered, RecordFails, CallRecordFails, RunCommand
  <1>7. ASSUME \/ StopRun \/ StopRefused \/ AutonomousTurn \/ Crash
               \/ \E failed \in BOOLEAN : TurnEnds(failed)
               \/ UNCHANGED dispatchVars
        PROVE  UNCHANGED <<ledger, row>>
    BY <1>7 DEF StopRun, StopRefused, AutonomousTurn, Crash, TurnEnds, dispatchVars
  <1>8. QED
    BY <1>2, <1>3, <1>4, <1>5, <1>6, <1>7 DEF DispatchNext, Loud, Quiet, AgentEvent, Durable

-----------------------------------------------------------------------------
(* What the operations of the store do to the queue *)

Queued == items \in Seq(ItemRecords)
Apart == \A i, j \in DOMAIN items : i # j => items[i].id # items[j].id

LEMMA States == DOMAIN Stage = {"queued", "sending", "needs_review"}
  BY DEF Stage

LEMMA AtFinds ==
  ASSUME Apart, NEW i \in DOMAIN items
  PROVE  Held(items[i].id) /\ At(items[i].id) = i
  BY DEF Apart, Held, At, IndexesOf

LEMMA HeldAt ==
  ASSUME NEW m, Held(m)
  PROVE  At(m) \in DOMAIN items /\ items[At(m)].id = m
  BY DEF Held, At, IndexesOf

\* One item is replaced by another of the same id.
LEMMA Replaced ==
  ASSUME Queued, Apart, NEW i \in DOMAIN items, NEW e \in ItemRecords, e.id = items[i].id,
         items' = [items EXCEPT ![i] = e]
  PROVE  /\ Queued' /\ Apart' /\ Len(items') = Len(items) /\ DOMAIN items' = DOMAIN items
         /\ items'[i] = e
         /\ \A j \in DOMAIN items : j # i => items'[j] = items[j]
  <1>1. DOMAIN items = 1..Len(items)
    BY LenProperties DEF Queued
  <1>2. /\ items' \in Seq(ItemRecords) /\ Len(items') = Len(items)
        /\ \A j \in 1..Len(items) : items'[j] = IF j = i THEN e ELSE items[j]
    BY <1>1, ExceptSeq DEF Queued
  <1>3. DOMAIN items' = 1..Len(items)
    BY <1>2, LenProperties
  <1>4. QED
    BY <1>1, <1>2, <1>3 DEF Queued, Apart

\* s is what the items are without the i-th.
LeftBy(i, s) ==
  /\ s \in Seq(ItemRecords) /\ Len(s) = Len(items) - 1 /\ DOMAIN s = 1..Len(s)
  /\ \A j \in DOMAIN s : \E k \in DOMAIN items \ {i} : s[j] = items[k]
  /\ \A k \in DOMAIN items \ {i} : \E j \in DOMAIN s : s[j] = items[k] /\ (k = 1 => j = 1)
  /\ \A j, l \in DOMAIN s : j # l => s[j].id # s[l].id

\* One item leaves; the others keep their order.
LEMMA Removed ==
  ASSUME Queued, Apart, NEW i \in DOMAIN items
  PROVE  LeftBy(i, Without(i))
  <1> DEFINE n == Len(items)
             s == Without(i)
             Old(j) == IF j < i THEN j ELSE j + 1
  <1>1. n \in Nat /\ DOMAIN items = 1..n /\ i \in 1..n /\ \A k \in 1..n : items[k] \in ItemRecords
    BY LenProperties, ElementOfSeq DEF Queued
  <1>2. s = [j \in 1..(n - 1) |-> items[Old(j)]]
    BY DEF Without
  <1>3. \A j \in 1..(n - 1) : Old(j) \in (1..n) \ {i} /\ s[j] = items[Old(j)]
    BY <1>1, <1>2
  <1>4. s \in [1..(n - 1) -> ItemRecords] /\ n - 1 \in Nat
    BY <1>1, <1>2, <1>3
  <1>5. s \in Seq(ItemRecords)
    BY <1>4, SeqDef
  <1>6. Len(s) = n - 1 /\ DOMAIN s = 1..(n - 1)
    BY <1>4, <1>5, LenProperties
  <1>7. \A k \in (1..n) \ {i} : \E j \in 1..(n - 1) : Old(j) = k /\ (k = 1 => j = 1)
    <2> SUFFICES ASSUME NEW k \in (1..n) \ {i}
                 PROVE  \E j \in 1..(n - 1) : Old(j) = k /\ (k = 1 => j = 1)
      OBVIOUS
    <2> DEFINE j == IF k < i THEN k ELSE k - 1
    <2>1. j \in 1..(n - 1) /\ Old(j) = k /\ (k = 1 => j = 1)
      BY <1>1
    <2> QED BY <2>1
  <1>8. \A j, l \in 1..(n - 1) : j # l => Old(j) # Old(l)
    BY <1>1
  <1> HIDE DEF Old
  <1>9. \A j \in DOMAIN s : \E k \in DOMAIN items \ {i} : s[j] = items[k]
    BY <1>1, <1>3, <1>6
  <1>10. \A k \in DOMAIN items \ {i} : \E j \in DOMAIN s : s[j] = items[k] /\ (k = 1 => j = 1)
    BY <1>1, <1>3, <1>6, <1>7
  <1>11. \A j, l \in DOMAIN s : j # l => s[j].id # s[l].id
    <2>1. TAKE j, l \in DOMAIN s
    <2>2. HAVE j # l
    <2>3. Old(j) \in DOMAIN items /\ Old(l) \in DOMAIN items /\ Old(j) # Old(l)
      BY <1>1, <1>3, <1>6, <1>8, <2>2
    <2>4. QED
      BY <1>3, <1>6, <2>3 DEF Apart
  <1>12. QED
    BY <1>1, <1>5, <1>6, <1>9, <1>10, <1>11 DEF LeftBy

\* An item of a new id joins at the end.
LEMMA Appended ==
  ASSUME NEW s \in Seq(ItemRecords), NEW e \in ItemRecords,
         \A j, l \in DOMAIN s : j # l => s[j].id # s[l].id,
         \A j \in DOMAIN s : s[j].id # e.id, items' = Append(s, e)
  PROVE  /\ Queued' /\ Apart' /\ Len(items') = Len(s) + 1 /\ DOMAIN items' = 1..Len(items')
         /\ \A j \in DOMAIN s : j \in DOMAIN items' /\ items'[j] = s[j]
         /\ \A j \in DOMAIN items' : j \in DOMAIN s \/ items'[j] = e
  <1>1. Len(s) \in Nat /\ DOMAIN s = 1..Len(s)
    BY LenProperties
  <1>2. /\ items' \in Seq(ItemRecords) /\ Len(items') = Len(s) + 1
        /\ \A j \in 1..Len(s) : items'[j] = s[j]
        /\ items'[Len(s) + 1] = e
    BY AppendProperties
  <1>3. DOMAIN items' = 1..(Len(s) + 1)
    BY <1>2, LenProperties
  <1>4. \A j \in 1..(Len(s) + 1) : j \in 1..Len(s) \/ j = Len(s) + 1
    BY <1>1
  <1>5. Apart'
    BY <1>1, <1>2, <1>3, <1>4 DEF Apart
  <1>6. QED
    BY <1>1, <1>2, <1>3, <1>4, <1>5 DEF Queued

-----------------------------------------------------------------------------
(* Steps that leave the items alone *)

\* A handoff of the drain neither begins nor ends, and the drain does not run where it may not.
DrainSafe ==
  /\ drain' \in {"none", "check", "ready", "claim", "handoff", "ending"} /\ again' \in BOOLEAN
  /\ drain' = "handoff" <=> drain = "handoff"
  /\ recovery = "pending" => drain' \in {"none", "check"}
  /\ up = "exited" => drain' = "none"

LEMMA WakeSafe ==
  ASSUME QueueInv, Wake \/ UNCHANGED <<drain, again>>
  PROVE  DrainSafe
  BY DEF QueueInv, QueueTypeOK, PhaseInv, Recovering, Resolved, Wake, DrainSafe

DurablesStay == \A m \in Ids : Durable(m) => Durable(m)'
ProvenStay ==
  \A h \in Hands : hand[h].pc = "settle" =>
    ledger'[hand[h].id] = "applied" /\ row'[hand[h].id] # "none"

LEMMA ProvenStays ==
  ASSUME QInv, DurablesStay
  PROVE  ProvenStay
  BY Claimed DEF QInv, QueueInv, HandInv, Proven, Active, DurablesStay, ProvenStay, Durable

FaultsGrow == faults' \in Nat /\ (faults' = 0 => faults = 0)

LEMMA FaultsMayGrow ==
  ASSUME QueueInv, WriteFails \/ UNCHANGED faults
  PROVE  FaultsGrow
  BY DEF QueueInv, QueueTypeOK, WriteFails, FaultsGrow

\* Only the drain or the end of the process moves.
LEMMA Aside ==
  ASSUME QueueInv, ProvenStay, DrainSafe, FaultsGrow, UNCHANGED <<items, recovery, chain, hand, cmd>>,
         \/ up' = up
         \/ up' = "stopping"
         \/ up' = "exited" /\ recovery # "pending" /\ drain' = "none" /\ \A p \in Cmds : cmd[p] = IdleCmd
  PROVE  QueueInv'
  <1>1. QueueTypeOK' /\ UniqueIds' /\ OneSent' /\ CommandInv'
    BY DEF QueueInv, DrainSafe, FaultsGrow, QueueTypeOK, UniqueIds, OneSent, Sending, CommandInv,
           CommandSound, Active
  <1>2. HandInv'
    BY DEF QueueInv, DrainSafe, HandInv, HandOwnsItem, OneHand, DrainHands, Carried, Proven,
           ProvenStay, Durable, Sending, Active
  <1>3. PhaseInv'
    BY DEF QueueInv, DrainSafe, FaultsGrow, PhaseInv, Recovering, Attended, Resolved, Sending, Active
  <1>4. QED
    BY <1>1, <1>2, <1>3 DEF QueueInv

\* A handoff moves on with what it claimed.
LEMMA HandMoves ==
  ASSUME QueueAssumption, QueueInv, ProvenStay, NEW h \in Hands, Active(h), NEW r \in HandRecords,
         hand' = [hand EXCEPT ![h] = r], r.pc # "none", r.id = hand[h].id, r.c = hand[h].c,
         r.pc = "send" => r.via \in Callers, r.pc = "settle" => ledger'[r.id] = "applied" /\ row'[r.id] # "none",
         UNCHANGED <<items, runtime, cmd>>, FaultsGrow
  PROVE  QueueInv'
  <1>1. hand \in [Hands -> HandRecords]
    BY DEF QueueInv, QueueTypeOK, HandRecords
  <1>2. /\ hand' \in [Hands -> HandRecords]
        /\ hand'[h] = r
        /\ \A g \in Hands : g # h => hand'[g] = hand[g]
        /\ \A g \in Hands : hand'[g].id = hand[g].id /\ hand'[g].c = hand[g].c
        /\ \A g \in Hands : (hand'[g].pc # "none") <=> Active(g)
    BY <1>1 DEF Active
  <1> HIDE DEF HandRecords
  <1>3. QueueTypeOK'
    BY <1>2 DEF QueueInv, QueueTypeOK, FaultsGrow, HandRecords, runtime
  <1>4. UniqueIds' /\ OneSent'
    BY DEF QueueInv, UniqueIds, OneSent, Sending
  <1>5. CommandInv'
    BY <1>2 DEF QueueInv, CommandInv, CommandSound, Active, Hands, runtime
  <1>6. HandOwnsItem'
    BY <1>2 DEF QueueInv, HandInv, HandOwnsItem, Sending, Active
  <1>7. OneHand' /\ DrainHands' /\ Carried' /\ Proven'
    BY <1>2 DEF QueueInv, HandInv, OneHand, DrainHands, Carried, Proven, ProvenStay, Durable, Active, Hands, runtime
  <1>8. PhaseInv'
    BY <1>2 DEF QueueInv, PhaseInv, Recovering, Attended, Resolved, Sending, FaultsGrow, Active, runtime
  <1>9. QED
    BY <1>3, <1>4, <1>5, <1>6, <1>7, <1>8 DEF QueueInv, HandInv

\* A command moves on, outside any handoff; it may take or free the chain.
CommandOK(r) ==
  /\ r \in CmdRecords /\ r.pc # "hand"
  /\ r.op # "fetch" => r.id \in Ids
  /\ r.op \in Drafting => r.c \in Contents

LEMMA CommandMoves ==
  ASSUME QueueAssumption, QueueInv, ProvenStay, DrainSafe, FaultsGrow, NEW p \in Cmds, NEW r,
         cmd' = [cmd EXCEPT ![p] = r], CommandOK(r), cmd[p].pc # "hand",
         up = "up" \/ cmd[p] # IdleCmd,
         recovery = "pending" => r.pc \in {"idle", "exec"},
         \/ r.pc # "commit" /\ (chain' = chain \/ (chain = p /\ chain' = Nobody))
         \/ /\ r.pc = "commit" /\ ChainFree /\ chain' = p /\ r.op = "enqueue"
            /\ Len(items) < MaxItems /\ ~Held(r.id),
         UNCHANGED <<items, up, recovery, hand>>
  PROVE  QueueInv'
  <1>1. cmd \in [Cmds -> CmdRecords]
    BY DEF QueueInv, QueueTypeOK, CmdRecords
  <1>2. /\ cmd' \in [Cmds -> CmdRecords]
        /\ cmd'[p] = r
        /\ \A q \in Cmds : q # p => cmd'[q] = cmd[q]
    BY <1>1 DEF CommandOK
  <1>3. QueueTypeOK'
    BY <1>2 DEF QueueInv, QueueTypeOK, DrainSafe, FaultsGrow, CmdRecords
  <1>4. UniqueIds' /\ OneSent'
    BY DEF QueueInv, UniqueIds, OneSent, Sending
  <1>5. CommandInv'
    <2>1. ASSUME NEW q \in Cmds PROVE CommandSound(q)'
      <3>1. CASE q = p
        BY <1>2, <3>1 DEF QueueInv, CommandInv, CommandSound, CommandOK, Active, Held, IndexesOf
      <3>2. CASE q # p
        BY <1>2, <3>2 DEF QueueInv, CommandInv, CommandSound, Active, ChainFree, QueueAssumption
      <3>3. QED
        BY <3>1, <3>2
    <2>2. QED
      BY <2>1 DEF CommandInv
  <1>6. HandInv'
    BY DEF QueueInv, HandInv, HandOwnsItem, OneHand, DrainHands, Carried, Proven, ProvenStay, Durable,
           Sending, Active, DrainSafe
  <1>7. Recovering' /\ Attended'
    BY <1>2 DEF QueueInv, PhaseInv, Recovering, Attended, Sending, Active, DrainSafe, FaultsGrow
  <1>8. Resolved'
    BY <1>2 DEF QueueInv, PhaseInv, Resolved, DrainSafe
  <1>9. QED
    BY <1>3, <1>4, <1>5, <1>6, <1>7, <1>8 DEF QueueInv, PhaseInv

-----------------------------------------------------------------------------
(* Steps that change the items *)

LEMMA StaleEffect ==
  ASSUME QueueInv, NEW q \in Cmds
  PROVE  /\ Stale \in [Cmds -> CmdRecords]
         /\ Stale[q].pc = cmd[q].pc /\ Stale[q].op = cmd[q].op
         /\ Stale[q].id = cmd[q].id /\ Stale[q].c = cmd[q].c
  BY DEF QueueInv, QueueTypeOK, CmdRecords, Stale

\* With the chain free no enqueue is past its checks; with the chain held only its holder is.
LEMMA ChainHolder ==
  ASSUME QueueAssumption, QueueInv, NEW p \in Cmds, cmd[p].pc = "commit"
  PROVE  chain = p /\ ~ChainFree
  BY DEF QueueInv, CommandInv, CommandSound, ChainFree, QueueAssumption

LEMMA ItemShape ==
  ASSUME QueueInv
  PROVE  Queued /\ Apart /\ Len(items) \in Nat /\ Len(items) <= MaxItems /\ DOMAIN items = 1..Len(items)
  <1>1. Queued /\ Apart /\ Len(items) <= MaxItems
    BY DEF QueueInv, QueueTypeOK, UniqueIds, Queued, Apart, ItemRecords
  <1>2. QED
    BY <1>1, LenProperties DEF Queued

\* What is being sent is neither changed nor joined by another.
SendingKept ==
  /\ \A j \in DOMAIN items' : items'[j].state = "sending" => \E i \in Sending : items[i] = items'[j]
  /\ \A i \in Sending : \E j \in DOMAIN items' : items'[j] = items[i] /\ (i = 1 => j = 1)

\* A command commits a change of items that are not being sent.
LEMMA CommandCommits ==
  ASSUME QueueAssumption, QueueInv, ProvenStay, DrainSafe, NEW p \in Cmds,
         Queued', Apart', Len(items') <= MaxItems, SendingKept,
         cmd' = [Stale EXCEPT ![p] = IdleCmd], cmd[p].pc \in {"exec", "commit"},
         \/ ChainFree /\ chain' = chain
         \/ cmd[p].pc = "commit" /\ chain' = Nobody,
         UNCHANGED <<up, recovery, hand, faults>>
  PROVE  QueueInv'
  <1>1. /\ cmd' \in [Cmds -> CmdRecords] /\ cmd'[p] = IdleCmd
        /\ \A q \in Cmds : q # p => /\ cmd'[q].pc = cmd[q].pc /\ cmd'[q].op = cmd[q].op
                                    /\ cmd'[q].id = cmd[q].id /\ cmd'[q].c = cmd[q].c
    <2>1. IdleCmd \in CmdRecords
      BY DEF IdleCmd, CmdRecords, CmdPcs, AllOps
    <2>2. QED
      BY <2>1, StaleEffect
  <1>2. \A q \in Cmds : q # p => cmd[q].pc # "commit"
    BY ChainHolder
  <1>3. QueueTypeOK' /\ UniqueIds'
    BY <1>1 DEF QueueInv, QueueTypeOK, UniqueIds, Queued, Apart, ItemRecords, CmdRecords, DrainSafe
  <1>4. OneSent'
    BY <1>3 DEF QueueInv, OneSent, Sending, SendingKept, UniqueIds
  <1>5. CommandInv'
    <2>1. ASSUME NEW q \in Cmds PROVE CommandSound(q)'
      BY <1>1, <1>2 DEF QueueInv, CommandInv, CommandSound, Active, IdleCmd, Drafting
    <2>2. QED
      BY <2>1 DEF CommandInv
  <1>6. HandOwnsItem'
    <2>1. ASSUME NEW h \in Hands, hand[h].pc # "none"
          PROVE  \E j \in Sending' : items'[j].id = hand[h].id /\ items'[j].c = hand[h].c /\ (h = Drain => j = 1)
      <3>1. PICK i \in Sending : items[i].id = hand[h].id /\ items[i].c = hand[h].c /\ (h = Drain => i = 1)
        BY <2>1 DEF QueueInv, HandInv, HandOwnsItem
      <3>2. PICK j \in DOMAIN items' : items'[j] = items[i] /\ (i = 1 => j = 1)
        BY DEF SendingKept
      <3>3. j \in Sending'
        BY <3>2 DEF Sending
      <3>4. QED
        BY <3>1, <3>2, <3>3
    <2>2. QED
      BY <2>1 DEF HandOwnsItem
  <1>7. OneHand' /\ DrainHands' /\ Carried' /\ Proven'
    BY DEF QueueInv, HandInv, OneHand, DrainHands, Carried, Proven, ProvenStay, Durable, Active, DrainSafe
  <1>8. Sending' # {} => Sending # {}
    BY DEF SendingKept, Sending
  <1>9. PhaseInv'
    BY <1>1, <1>8 DEF QueueInv, PhaseInv, Recovering, Attended, Resolved, Active, DrainSafe, IdleCmd
  <1>10. QED
    BY <1>3, <1>4, <1>5, <1>6, <1>7, <1>9 DEF QueueInv, HandInv

\* An item is claimed: none was being sent, so no handoff was under way.
LEMMA Claims ==
  ASSUME QueueAssumption, QueueInv, NEW h \in Hands, NEW i, Claimable(i), Claim(h, i), ChainFree,
         recovery # "pending", up # "exited",
         \/ h = Drain /\ i = 1 /\ drain' = "handoff" /\ cmd' = Stale /\ UNCHANGED again
         \/ /\ h \in Cmds /\ cmd[h].pc = "exec" /\ cmd' = [Stale EXCEPT ![h].pc = "hand"]
            /\ UNCHANGED <<drain, again>>,
         UNCHANGED <<up, recovery, chain, faults>>
  PROVE  QueueInv'
  <1> DEFINE e == [items[i] EXCEPT !.state = "sending"]
             r == [pc |-> "attach", id |-> items[i].id, c |-> items[i].c, via |-> Nobody]
  <1>1. Queued /\ Apart /\ Len(items) <= MaxItems /\ i \in DOMAIN items /\ items[i] \in ItemRecords
    BY ItemShape, ElementOfSeq DEF Claimable, Queued
  <1>2. e \in ItemRecords /\ e.id = items[i].id /\ e.c = items[i].c /\ e.state = "sending"
    BY <1>1, States DEF ItemRecords
  <1>3. items' = [items EXCEPT ![i] = e]
    BY DEF Claim, Commit
  <1>4. /\ Queued' /\ Apart' /\ Len(items') = Len(items) /\ DOMAIN items' = DOMAIN items /\ items'[i] = e
        /\ \A j \in DOMAIN items : j # i => items'[j] = items[j]
    BY <1>1, <1>2, <1>3, Replaced
  <1>5. Sending' = {i}
    <2>1. \A j \in DOMAIN items : items[j].state # "sending"
      BY DEF Claimable, Sending
    <2>2. i \in DOMAIN items' /\ items'[i].state = "sending"
      BY <1>1, <1>2, <1>4
    <2>3. \A j \in DOMAIN items' : j # i => items'[j].state # "sending"
      BY <1>4, <2>1
    <2>4. QED
      BY <2>2, <2>3 DEF Sending
  <1>6. \A g \in Hands : ~Active(g)
    BY DEF QueueInv, HandInv, HandOwnsItem, Active, Claimable
  <1>7. hand' = [hand EXCEPT ![h] = r] /\ r \in HandRecords /\ hand \in [Hands -> HandRecords]
    BY <1>1 DEF Claim, HandRecords, HandPcs, ItemRecords, QueueInv, QueueTypeOK
  <1>8. /\ hand' \in [Hands -> HandRecords] /\ hand'[h] = r
        /\ \A g \in Hands : g # h => hand'[g].pc = "none"
    BY <1>6, <1>7 DEF Active
  <1>9. /\ cmd' \in [Cmds -> CmdRecords]
        /\ \A q \in Cmds : /\ cmd'[q].op = cmd[q].op /\ cmd'[q].id = cmd[q].id /\ cmd'[q].c = cmd[q].c
                           /\ cmd'[q].pc = IF q = h THEN "hand" ELSE cmd[q].pc
    <2>1. CASE h = Drain
      <3>1. h \notin Cmds /\ cmd' = Stale
        BY <2>1, QueueAssumption DEF QueueAssumption
      <3>2. Stale \in [Cmds -> CmdRecords]
        BY DEF QueueInv, QueueTypeOK, CmdRecords, Stale
      <3>3. QED
        BY <3>1, <3>2, StaleEffect
    <2>2. CASE h # Drain
      <3>1. h \in Cmds /\ cmd' = [Stale EXCEPT ![h].pc = "hand"]
        BY <2>2
      <3>2. Stale[h] \in CmdRecords /\ Stale \in [Cmds -> CmdRecords]
        BY <3>1, StaleEffect
      <3>3. [Stale[h] EXCEPT !.pc = "hand"] \in CmdRecords
        BY <3>2 DEF CmdRecords, CmdPcs
      <3>4. cmd' = [Stale EXCEPT ![h] = [Stale[h] EXCEPT !.pc = "hand"]]
        BY <3>1
      <3>5. cmd' \in [Cmds -> CmdRecords]
        BY <3>2, <3>3, <3>4
      <3>6. ASSUME NEW q \in Cmds
            PROVE  /\ cmd'[q].op = cmd[q].op /\ cmd'[q].id = cmd[q].id /\ cmd'[q].c = cmd[q].c
                   /\ cmd'[q].pc = IF q = h THEN "hand" ELSE cmd[q].pc
        BY <3>1, <3>2, <3>4, StaleEffect DEF CmdRecords
      <3>7. QED
        BY <3>5, <3>6
    <2>3. QED
      BY <2>1, <2>2
  <1>10. h = Drain \/ h \in Cmds
    BY DEF Hands
  <1> HIDE DEF e
  <1>11. QueueTypeOK' /\ UniqueIds' /\ OneSent'
    <2>1. drain' \in {"none", "check", "ready", "claim", "handoff", "ending"} /\ again' \in BOOLEAN
      BY DEF QueueInv, QueueTypeOK
    <2>2. QED
      BY <1>1, <1>4, <1>5, <1>8, <1>9, <2>1
      DEF QueueInv, QueueTypeOK, UniqueIds, OneSent, Queued, Apart, ItemRecords, HandRecords, CmdRecords
  <1>12. CommandInv'
    <2>1. \A q \in Cmds : cmd[q].pc # "commit" /\ cmd[q].pc # "hand"
      <3>1. \A q \in Cmds : cmd[q].pc # "commit"
        BY ChainHolder
      <3>2. \A q \in Cmds : cmd[q].pc # "hand"
        BY <1>6 DEF QueueInv, CommandInv, CommandSound, Hands
      <3>3. QED
        BY <3>1, <3>2
    <2>2. ASSUME NEW q \in Cmds PROVE CommandSound(q)'
      <3>1. /\ cmd'[q].op # "fetch" => cmd'[q].id \in Ids
            /\ cmd'[q].op \in Drafting => cmd'[q].c \in Contents
        BY <1>9 DEF QueueInv, CommandInv, CommandSound
      <3>2. cmd'[q].pc # "commit" /\ (cmd'[q].pc = "hand" <=> q = h)
        BY <1>9, <2>1
      <3>3. hand'[q].pc # "none" <=> q = h
        BY <1>8 DEF Hands
      <3>4. QED
        BY <3>1, <3>2, <3>3 DEF CommandSound, Active
    <2>3. QED
      BY <2>2 DEF CommandInv
  <1>13. HandOwnsItem'
    BY <1>2, <1>4, <1>5, <1>8 DEF HandOwnsItem
  <1>14. OneHand' /\ Carried' /\ Proven'
    BY <1>8 DEF OneHand, Carried, Proven, Active
  <1>15. DrainHands'
    <2>1. drain # "handoff"
      BY <1>6 DEF QueueInv, HandInv, DrainHands, Hands
    <2>2. QED
      BY <1>8, <1>10, <2>1 DEF DrainHands, Active, Hands, QueueAssumption
  <1>16. PhaseInv'
    BY <1>8 DEF QueueInv, PhaseInv, Recovering, Attended, Resolved, Active
  <1>17. QED
    BY <1>11, <1>12, <1>13, <1>14, <1>15, <1>16 DEF QueueInv, HandInv

\* A handoff ends: its item is gone or under review, or the write of that failed.
LEMMA HandCloses ==
  ASSUME QueueAssumption, QueueInv, NEW h \in Hands, Active(h), ChainFree, FaultsGrow,
         Queued', Apart', Len(items') <= MaxItems,
         Sending' = {} \/ (items' = items /\ faults' # 0),
         HandEnds(h, TRUE) \/ HandEnds(h, FALSE),
         UNCHANGED <<up, recovery, chain>>
  PROVE  QueueInv'
  <1>1. hand \in [Hands -> HandRecords] /\ IdleHand \in HandRecords /\ hand' = [hand EXCEPT ![h] = IdleHand]
    BY DEF QueueInv, QueueTypeOK, HandRecords, IdleHand, HandPcs, HandEnds
  <1>2. \A g \in Hands : g # h => ~Active(g)
    BY DEF QueueInv, HandInv, OneHand
  <1>3. hand' \in [Hands -> HandRecords] /\ \A g \in Hands : hand'[g].pc = "none"
    BY <1>1, <1>2 DEF Active, IdleHand
  <1>4. cmd' = IF h = Drain THEN Stale ELSE [Stale EXCEPT ![h] = IdleCmd]
    BY DEF HandEnds
  <1>5. /\ cmd' \in [Cmds -> CmdRecords]
        /\ \A q \in Cmds : \/ q = h /\ cmd'[q] = IdleCmd
                           \/ /\ q # h
                              /\ cmd'[q].op = cmd[q].op /\ cmd'[q].id = cmd[q].id
                              /\ cmd'[q].c = cmd[q].c /\ cmd'[q].pc = cmd[q].pc
    <2>1. IdleCmd \in CmdRecords
      BY DEF IdleCmd, CmdRecords, CmdPcs, AllOps
    <2>2. Stale \in [Cmds -> CmdRecords]
      BY DEF QueueInv, QueueTypeOK, CmdRecords, Stale
    <2>3. h = Drain => h \notin Cmds
      BY QueueAssumption DEF QueueAssumption
    <2>4. QED
      BY <1>4, <2>1, <2>2, <2>3, StaleEffect DEF Hands
  <1>6. \A q \in Cmds : cmd[q].pc # "commit" /\ (cmd[q].pc = "hand" => q = h)
    BY <1>2, ChainHolder DEF QueueInv, CommandInv, CommandSound, Hands
  <1>7. IF h = Drain THEN drain = "handoff" ELSE h \in Cmds /\ cmd[h].pc = "hand" /\ drain # "handoff"
    BY <1>2 DEF QueueInv, HandInv, DrainHands, CommandInv, CommandSound, Hands
  <1>8. recovery # "pending" /\ up # "exited"
    BY <1>7 DEF QueueInv, PhaseInv, Recovering, Resolved, IdleCmd
  <1>9. /\ drain' \in {"none", "check", "ready", "claim", "handoff", "ending"} /\ again' \in BOOLEAN
        /\ drain' # "handoff"
    BY <1>7 DEF HandEnds, Wake, QueueInv, QueueTypeOK
  <1>10. QueueTypeOK' /\ UniqueIds' /\ OneSent'
    BY <1>3, <1>5, <1>9
    DEF QueueInv, QueueTypeOK, UniqueIds, OneSent, Sending, Queued, Apart, ItemRecords, HandRecords,
        CmdRecords, FaultsGrow
  <1>11. CommandInv'
    <2>1. ASSUME NEW q \in Cmds PROVE CommandSound(q)'
      <3>1. cmd'[q].pc # "commit" /\ cmd'[q].pc # "hand"
        BY <1>5, <1>6 DEF IdleCmd
      <3>2. /\ cmd'[q].op # "fetch" => cmd'[q].id \in Ids
            /\ cmd'[q].op \in Drafting => cmd'[q].c \in Contents
        BY <1>5 DEF QueueInv, CommandInv, CommandSound, IdleCmd, Drafting
      <3>3. hand'[q].pc = "none"
        BY <1>3 DEF Hands
      <3>4. QED
        BY <3>1, <3>2, <3>3 DEF CommandSound, Active
    <2>2. QED
      BY <2>1 DEF CommandInv
  <1>12. HandInv'
    BY <1>3, <1>9 DEF HandInv, HandOwnsItem, OneHand, DrainHands, Carried, Proven, Active, Hands
  <1>13. Attended'
    BY <1>8 DEF QueueInv, PhaseInv, Attended, FaultsGrow
  <1>14. PhaseInv'
    BY <1>8, <1>13 DEF PhaseInv, Recovering, Resolved
  <1>15. QED
    BY <1>10, <1>11, <1>12, <1>14 DEF QueueInv

\* The item of a handoff is the one its settling finds.
LEMMA Settles ==
  ASSUME QueueAssumption, QueueInv, NEW h \in Hands, Active(h), NEW outcome,
         SettleWith(hand[h].id, outcome)
  PROVE  /\ Queued' /\ Apart' /\ Len(items') <= MaxItems /\ Sending' = {} /\ UNCHANGED faults
  <1>1. PICK i \in Sending : items[i].id = hand[h].id
    BY DEF QueueInv, HandInv, HandOwnsItem, Active
  <1>2. /\ Queued /\ Apart /\ Len(items) \in Nat /\ Len(items) <= MaxItems /\ MaxItems \in Nat
        /\ i \in DOMAIN items /\ items[i].state = "sending" /\ items[i] \in ItemRecords
    BY ItemShape, ElementOfSeq, QueueAssumption DEF QueueAssumption, Sending, Queued
  <1>3. Held(hand[h].id) /\ At(hand[h].id) = i
    BY <1>1, <1>2, AtFinds
  <1>4. \A k \in DOMAIN items : k # i => items[k].state # "sending"
    BY <1>2 DEF QueueInv, OneSent, Sending
  <1>5. CASE outcome = "handed_off"
    <2>1. items' = Without(i) /\ UNCHANGED faults
      BY <1>2, <1>3, <1>5 DEF SettleWith, Commit
    <2>2. LeftBy(i, items')
      BY <1>2, <2>1, Removed
    <2>3. \A j \in DOMAIN items' : items'[j].state # "sending"
      BY <1>4, <2>2 DEF LeftBy
    <2>4. Queued' /\ Apart'
      BY <2>2 DEF Queued, Apart, LeftBy
    <2>5. Len(items') <= MaxItems
      BY <1>2, <2>2 DEF LeftBy
    <2>6. QED
      BY <2>1, <2>3, <2>4, <2>5 DEF Sending
  <1>6. CASE outcome # "handed_off"
    <2> DEFINE e == [items[i] EXCEPT !.state = "needs_review"]
    <2>1. items' = [items EXCEPT ![i] = e] /\ UNCHANGED faults
      BY <1>2, <1>3, <1>6 DEF SettleWith, Commit
    <2>2. e \in ItemRecords /\ e.id = items[i].id /\ e.state = "needs_review"
      BY <1>2, States DEF ItemRecords
    <2> HIDE DEF e
    <2>3. /\ Queued' /\ Apart' /\ Len(items') = Len(items) /\ DOMAIN items' = DOMAIN items
          /\ items'[i] = e /\ \A j \in DOMAIN items : j # i => items'[j] = items[j]
      BY <1>2, <2>1, <2>2, Replaced
    <2>4. \A j \in DOMAIN items' : items'[j].state # "sending"
      BY <1>4, <2>2, <2>3
    <2>5. QED
      BY <1>2, <2>1, <2>3, <2>4 DEF Sending
  <1>7. QED
    BY <1>5, <1>6

\* Recovery settles the item the last process was sending.
LEMMA RecoveryKeeps ==
  ASSUME QueueAssumption, QueueInv, ProvenStay, Recovers
  PROVE  QueueInv'
  <1>1. /\ recovery = "pending" /\ ChainFree /\ UNCHANGED <<up, chain, hand, cmd>>
        /\ Wake \/ UNCHANGED <<drain, again>>
    BY DEF Recovers
  <1>2. /\ \A h \in Hands : ~Active(h)
        /\ \A p \in Cmds : cmd[p].pc \in {"idle", "exec"}
        /\ up # "exited"
        /\ drain # "handoff"
    <2>1. drain \in {"none", "check"} /\ \A p \in Cmds : cmd[p].pc \in {"idle", "exec"}
      BY <1>1 DEF QueueInv, PhaseInv, Recovering
    <2>2. up # "exited"
      BY <1>1 DEF QueueInv, PhaseInv, Resolved
    <2>3. ~Active(Drain)
      BY <2>1 DEF QueueInv, HandInv, DrainHands
    <2>4. \A p \in Cmds : ~Active(p)
      BY <2>1 DEF QueueInv, CommandInv, CommandSound
    <2>5. QED
      BY <2>1, <2>2, <2>3, <2>4 DEF Hands
  <1>3. DrainSafe
    BY <1>1, WakeSafe
  <1>4. /\ Queued /\ Apart /\ Len(items) \in Nat /\ Len(items) <= MaxItems /\ MaxItems \in Nat
    BY ItemShape, QueueAssumption DEF QueueAssumption
  <1>5. \A i \in Sending : \A k \in DOMAIN items : k # i => items[k].state # "sending"
    BY DEF QueueInv, OneSent, Sending
  <1>6. /\ Queued' /\ Apart' /\ Len(items') <= MaxItems /\ OneSent' /\ FaultsGrow
        /\ recovery' \in {"pending", "done", "failed"}
        /\ Sending' # {} /\ faults' = 0 => recovery' = "pending"
    <2>1. CASE Sending = {} /\ recovery' = "done" /\ UNCHANGED <<items, faults>>
      BY <1>4, <2>1 DEF Queued, Apart, OneSent, Sending, FaultsGrow, QueueInv, QueueTypeOK
    <2>2. ASSUME NEW i \in Sending, Commit(Without(i)), UNCHANGED <<recovery, faults>>
          PROVE  Queued' /\ Apart' /\ Len(items') <= MaxItems /\ Sending' = {}
      <3>1. LeftBy(i, items')
        BY <1>4, <2>2, Removed DEF Commit, Sending
      <3>2. \A j \in DOMAIN items' : items'[j].state # "sending"
        BY <1>5, <3>1 DEF LeftBy
      <3>3. Queued' /\ Apart'
        BY <3>1 DEF Queued, Apart, LeftBy
      <3>4. Len(items') <= MaxItems
        BY <1>4, <3>1 DEF LeftBy
      <3>5. QED
        BY <3>2, <3>3, <3>4 DEF Sending
    <2>3. ASSUME NEW i \in Sending, Commit([items EXCEPT ![i].state = "needs_review"]),
                 UNCHANGED <<recovery, faults>>
          PROVE  Queued' /\ Apart' /\ Len(items') <= MaxItems /\ Sending' = {}
      <3> DEFINE e == [items[i] EXCEPT !.state = "needs_review"]
      <3>1. i \in DOMAIN items /\ items[i] \in ItemRecords
        BY <1>4, ItemShape, ElementOfSeq DEF Sending, Queued
      <3>2. e \in ItemRecords /\ e.id = items[i].id /\ e.state = "needs_review"
        BY <3>1, States DEF ItemRecords
      <3>3. items' = [items EXCEPT ![i] = e]
        BY <2>3 DEF Commit
      <3> HIDE DEF e
      <3>4. /\ Queued' /\ Apart' /\ Len(items') = Len(items) /\ DOMAIN items' = DOMAIN items
            /\ items'[i] = e /\ \A j \in DOMAIN items : j # i => items'[j] = items[j]
        BY <1>4, <3>1, <3>2, <3>3, Replaced
      <3>5. \A j \in DOMAIN items' : items'[j].state # "sending"
        BY <1>5, <3>2, <3>4
      <3>6. QED
        BY <1>4, <3>4, <3>5 DEF Sending
    <2>4. CASE WriteFails /\ recovery' = "failed"
      BY <1>4, <2>4, FaultsMayGrow
      DEF WriteFails, Queued, Apart, OneSent, Sending, FaultsGrow, QueueInv, QueueTypeOK
    <2>5. ASSUME NEW i \in Sending,
                 Commit(Without(i)) \/ Commit([items EXCEPT ![i].state = "needs_review"]),
                 UNCHANGED <<recovery, faults>>
          PROVE  /\ Queued' /\ Apart' /\ Len(items') <= MaxItems /\ OneSent' /\ FaultsGrow
                 /\ recovery' \in {"pending", "done", "failed"} /\ Sending' = {}
      <3>1. Queued' /\ Apart' /\ Len(items') <= MaxItems /\ Sending' = {}
        BY <2>2, <2>3, <2>5
      <3>2. FaultsGrow /\ recovery' = "pending"
        BY <1>1, <2>5, FaultsMayGrow
      <3>3. OneSent'
        BY <3>1 DEF OneSent
      <3>4. QED
        BY <3>1, <3>2, <3>3
    <2>6. QED
      BY <2>1, <2>4, <2>5 DEF Recovers
  <1>7. QueueTypeOK' /\ UniqueIds'
    BY <1>1, <1>3, <1>6
    DEF QueueInv, QueueTypeOK, UniqueIds, Queued, Apart, ItemRecords, DrainSafe, FaultsGrow
  <1>8. CommandInv'
    <2>1. ASSUME NEW q \in Cmds PROVE CommandSound(q)'
      BY <1>1, <1>2 DEF QueueInv, CommandInv, CommandSound, Active
    <2>2. QED
      BY <2>1 DEF CommandInv
  <1>9. HandInv'
    BY <1>1, <1>2, <1>3
    DEF HandInv, HandOwnsItem, OneHand, DrainHands, Carried, Proven, Active, DrainSafe, Hands
  <1>10. PhaseInv'
    BY <1>1, <1>2, <1>3, <1>6 DEF PhaseInv, Recovering, Attended, Resolved, DrainSafe
  <1>11. QED
    BY <1>6, <1>7, <1>8, <1>9, <1>10 DEF QueueInv

-----------------------------------------------------------------------------
(* What becomes of each item *)

\* No item goes back.
Forward ==
  \A i \in DOMAIN items, j \in DOMAIN items' :
    items'[j].id = items[i].id => Stage[items'[j].state] >= Stage[items[i].state]

Left(i) == \A j \in DOMAIN items' : items'[j].id # items[i].id

\* A client takes it out of the queue.
TakenOut(i) ==
  /\ items[i].state # "sending"
  /\ \E p \in Cmds : cmd[p].pc = "exec" /\ cmd[p].op \in {"delete", "discard"} /\ cmd[p].id = items[i].id

Accounted == \A i \in DOMAIN items : Left(i) => Durable(items[i].id) \/ TakenOut(i)

LEMMA StageOrder ==
  /\ Stage["queued"] = 0 /\ Stage["sending"] = 1 /\ Stage["needs_review"] = 2
  /\ \A s \in DOMAIN Stage : Stage[s] \in Nat /\ Stage[s] >= Stage[s] /\ Stage[s] >= 0 /\ Stage[s] <= 2
  BY DEF Stage

\* Every item that remains is one that was there, in the same state or a later one.
LEMMA GoesForward ==
  ASSUME Queued, Apart,
         \A j \in DOMAIN items' :
           \/ \A i \in DOMAIN items : items[i].id # items'[j].id
           \/ \E i \in DOMAIN items : /\ items'[j].id = items[i].id
                                     /\ Stage[items'[j].state] >= Stage[items[i].state]
  PROVE  Forward
  BY DEF Forward, Apart

LEMMA NoLaterThanItself ==
  ASSUME Queued, NEW k \in DOMAIN items
  PROVE  items[k] \in ItemRecords /\ Stage[items[k].state] >= Stage[items[k].state]
  <1>1. items[k] \in ItemRecords
    BY LenProperties, ElementOfSeq DEF Queued
  <1>2. items[k].state \in DOMAIN Stage
    BY <1>1 DEF ItemRecords
  <1>3. QED
    BY <1>1, <1>2, StageOrder

LEMMA SameItems ==
  ASSUME Queued, Apart, UNCHANGED items
  PROVE  Forward /\ Accounted
  <1>1. Forward
    BY NoLaterThanItself, GoesForward
  <1>2. Accounted
    BY DEF Accounted, Left
  <1>3. QED
    BY <1>1, <1>2

LEMMA Mutation ==
  ASSUME QueueAssumption, QueueInv, NEW p \in Cmds, Mutates(p)
  PROVE  Queued' /\ Apart' /\ Len(items') <= MaxItems /\ SendingKept /\ Forward /\ Accounted
  <1> DEFINE i == At(cmd[p].id)
             e == [items[i] EXCEPT !.c = cmd[p].c]
  <1>1. /\ cmd[p].pc = "exec" /\ cmd[p].op \in {"update", "move_to_end", "delete", "discard"}
        /\ Held(cmd[p].id) /\ items[i].state # "sending"
    BY DEF Mutates, Executes, Mutable
  <1>2. /\ Queued /\ Apart /\ Len(items) \in Nat /\ Len(items) <= MaxItems /\ MaxItems \in Nat
        /\ DOMAIN items = 1..Len(items)
    BY ItemShape, QueueAssumption DEF QueueAssumption
  <1>3. i \in DOMAIN items /\ items[i].id = cmd[p].id
    BY <1>1, HeldAt
  <1> HIDE DEF i
  <1>4. \A k \in DOMAIN items : items[k] \in ItemRecords
    BY <1>2, ElementOfSeq DEF Queued
  <1>5. \A k \in DOMAIN items : items[k].state \in DOMAIN Stage /\ Stage[items[k].state] >= Stage[items[k].state]
    BY <1>4, StageOrder DEF ItemRecords
  <1>6. \A k \in Sending : k \in DOMAIN items /\ k # i
    BY <1>1 DEF Sending
  <1>7. cmd[p].op \in Drafting => e \in ItemRecords /\ e.id = items[i].id /\ e.state = items[i].state
    BY <1>3, <1>4 DEF ItemRecords, QueueInv, CommandInv, CommandSound
  <1> HIDE DEF e
  <1>8. CASE cmd[p].op = "update"
    <2>1. items' = [items EXCEPT ![i] = e]
      BY <1>8 DEF Mutates, Commit, Mutated, i, e
    <2>2. e \in ItemRecords /\ e.id = items[i].id /\ e.state = items[i].state
      BY <1>7, <1>8 DEF Drafting
    <2>3. /\ Queued' /\ Apart' /\ Len(items') = Len(items) /\ DOMAIN items' = DOMAIN items
          /\ items'[i] = e /\ \A j \in DOMAIN items : j # i => items'[j] = items[j]
      BY <1>2, <1>3, <2>1, <2>2, Replaced
    <2>4. SendingKept
      BY <1>1, <1>6, <2>2, <2>3 DEF SendingKept, Sending
    <2>5. Forward
      <3>1. \A j \in DOMAIN items' : items'[j].id = items[j].id /\ items'[j].state = items[j].state
        BY <2>2, <2>3
      <3>2. QED
        BY <1>2, <1>5, <2>3, <3>1, GoesForward
    <2>6. Accounted
      BY <2>2, <2>3 DEF Accounted, Left
    <2>7. QED
      BY <1>2, <2>3, <2>4, <2>5, <2>6
  <1>9. CASE cmd[p].op = "move_to_end"
    <2> DEFINE s == Without(i)
    <2>1. items' = Append(s, e)
      BY <1>9 DEF Mutates, Commit, Mutated, i, e
    <2>2. LeftBy(i, s)
      BY <1>2, <1>3, Removed
    <2>3. e \in ItemRecords /\ e.id = items[i].id /\ e.state = items[i].state
      BY <1>7, <1>9 DEF Drafting
    <2> HIDE DEF s
    <2>4. \A j \in DOMAIN s : s[j].id # e.id
      BY <1>2, <1>3, <2>2, <2>3 DEF LeftBy, Apart
    <2>5. /\ Queued' /\ Apart' /\ Len(items') = Len(s) + 1 /\ DOMAIN items' = 1..Len(items')
          /\ \A j \in DOMAIN s : j \in DOMAIN items' /\ items'[j] = s[j]
          /\ \A j \in DOMAIN items' : j \in DOMAIN s \/ items'[j] = e
      BY <2>1, <2>2, <2>3, <2>4, Appended DEF LeftBy
    <2>6. SendingKept
      <3>1. \A j \in DOMAIN items' : items'[j].state = "sending" => \E k \in Sending : items[k] = items'[j]
        BY <1>1, <2>2, <2>3, <2>5 DEF LeftBy, Sending
      <3>2. \A k \in Sending : \E j \in DOMAIN items' : items'[j] = items[k] /\ (k = 1 => j = 1)
        BY <1>6, <2>2, <2>5 DEF LeftBy
      <3>3. QED
        BY <3>1, <3>2 DEF SendingKept
    <2>7. Forward
      <3>1. \A j \in DOMAIN items' : \E k \in DOMAIN items : items'[j].id = items[k].id /\ items'[j].state = items[k].state
        <4>1. TAKE j \in DOMAIN items'
        <4>2. CASE j \in DOMAIN s
          BY <4>2, <2>2, <2>5 DEF LeftBy
        <4>3. CASE items'[j] = e
          BY <4>3, <1>3, <2>3
        <4>4. QED
          BY <4>2, <4>3, <2>5
      <3>2. QED
        BY <1>2, <1>5, <3>1, GoesForward
    <2>8. Accounted
      <3>1. ASSUME NEW k \in DOMAIN items PROVE ~Left(k)
        <4>1. CASE k = i
          <5>1. Len(items') \in DOMAIN items' /\ Len(items') \notin DOMAIN s
            BY <1>2, <1>3, <2>2, <2>5 DEF LeftBy
          <5>2. QED
            BY <4>1, <2>3, <2>5, <5>1 DEF Left
        <4>2. CASE k # i
          BY <4>2, <2>2, <2>5 DEF Left, LeftBy
        <4>3. QED
          BY <4>1, <4>2
      <3>2. QED
        BY <3>1 DEF Accounted
    <2>9. Len(items') <= MaxItems
      BY <1>2, <2>2, <2>5 DEF LeftBy
    <2>10. QED
      BY <2>5, <2>6, <2>7, <2>8, <2>9
  <1>10. CASE cmd[p].op \in {"delete", "discard"}
    <2>1. items' = Without(i)
      BY <1>10 DEF Mutates, Commit, Mutated, i
    <2>2. LeftBy(i, items')
      BY <1>2, <1>3, <2>1, Removed
    <2>3. Queued' /\ Apart'
      BY <2>2 DEF Queued, Apart, LeftBy
    <2>4. Len(items') <= MaxItems
      BY <1>2, <2>2 DEF LeftBy
    <2>5. SendingKept
      <3>1. \A j \in DOMAIN items' : items'[j].state = "sending" => \E k \in Sending : items[k] = items'[j]
        BY <2>2 DEF LeftBy, Sending
      <3>2. \A k \in Sending : \E j \in DOMAIN items' : items'[j] = items[k] /\ (k = 1 => j = 1)
        BY <1>6, <2>2 DEF LeftBy
      <3>3. QED
        BY <3>1, <3>2 DEF SendingKept
    <2>6. Forward
      <3>1. \A j \in DOMAIN items' : \E k \in DOMAIN items : items'[j].id = items[k].id /\ items'[j].state = items[k].state
        BY <2>2 DEF LeftBy
      <3>2. QED
        BY <1>2, <1>5, <3>1, GoesForward
    <2>7. Accounted
      <3>1. \A k \in DOMAIN items : k # i => ~Left(k)
        BY <2>2 DEF Left, LeftBy
      <3>2. TakenOut(i)
        BY <1>1, <1>3, <1>10 DEF TakenOut
      <3>3. QED
        BY <3>1, <3>2 DEF Accounted
    <2>8. QED
      BY <2>3, <2>4, <2>5, <2>6, <2>7
  <1>11. QED
    BY <1>1, <1>8, <1>9, <1>10

LEMMA Enqueuing ==
  ASSUME QueueAssumption, QueueInv, NEW p \in Cmds, EnqueueCommits(p)
  PROVE  Queued' /\ Apart' /\ Len(items') <= MaxItems /\ SendingKept /\ Forward /\ Accounted
  <1> DEFINE e == Item(cmd[p].id, cmd[p].c, "queued")
  <1>1. /\ Queued /\ Apart /\ Len(items) \in Nat /\ Len(items) <= MaxItems /\ MaxItems \in Nat
        /\ DOMAIN items = 1..Len(items)
    BY ItemShape, QueueAssumption DEF QueueAssumption
  <1>2. /\ cmd[p].id \in Ids /\ cmd[p].c \in Contents /\ Len(items) < MaxItems
        /\ \A i \in DOMAIN items : items[i].id # cmd[p].id
    BY DEF EnqueueCommits, QueueInv, CommandInv, CommandSound, Drafting
  <1>3. e \in ItemRecords /\ e.id = cmd[p].id /\ e.state = "queued"
    BY <1>2, States DEF Item, ItemRecords
  <1>4. items' = Append(items, e)
    BY DEF EnqueueCommits, Commit
  <1> HIDE DEF e
  <1>5. /\ Queued' /\ Apart' /\ Len(items') = Len(items) + 1
        /\ \A j \in DOMAIN items : j \in DOMAIN items' /\ items'[j] = items[j]
        /\ \A j \in DOMAIN items' : j \in DOMAIN items \/ items'[j] = e
    BY <1>1, <1>2, <1>3, <1>4, Appended DEF Queued, Apart
  <1>6. SendingKept
    BY <1>3, <1>5 DEF SendingKept, Sending
  <1>7. Forward
    <2>1. \A i \in DOMAIN items : Stage[items[i].state] >= Stage[items[i].state]
      BY <1>1, NoLaterThanItself
    <2>2. QED
      BY <1>1, <1>2, <1>3, <1>5, <2>1, GoesForward
  <1>8. Accounted
    BY <1>5 DEF Accounted, Left
  <1>9. QED
    BY <1>1, <1>2, <1>5, <1>6, <1>7, <1>8

\* One item changes its state for a later one.
LEMMA Advances ==
  ASSUME Queued, Apart, NEW i \in DOMAIN items, NEW state \in DOMAIN Stage,
         Stage[state] >= Stage[items[i].state], items' = [items EXCEPT ![i].state = state]
  PROVE  Forward /\ Accounted
  <1> DEFINE e == [items[i] EXCEPT !.state = state]
  <1>1. \A k \in DOMAIN items : items[k] \in ItemRecords
    BY LenProperties, ElementOfSeq DEF Queued
  <1>2. e \in ItemRecords /\ e.id = items[i].id /\ e.state = state
    BY <1>1 DEF ItemRecords
  <1>3. items' = [items EXCEPT ![i] = e]
    OBVIOUS
  <1> HIDE DEF e
  <1>4. /\ DOMAIN items' = DOMAIN items /\ items'[i] = e
        /\ \A j \in DOMAIN items : j # i => items'[j] = items[j]
    BY <1>2, <1>3, Replaced
  <1>5. \A k \in DOMAIN items : Stage[items[k].state] >= Stage[items[k].state]
    BY <1>1, StageOrder DEF ItemRecords
  <1>6. Forward
    <2>1. \A j \in DOMAIN items' : /\ items'[j].id = items[j].id
                                  /\ Stage[items'[j].state] >= Stage[items[j].state]
      BY <1>2, <1>4, <1>5
    <2>2. QED
      BY <1>4, <2>1, GoesForward
  <1>7. Accounted
    BY <1>2, <1>4 DEF Accounted, Left
  <1>8. QED
    BY <1>6, <1>7

LEMMA Leaves ==
  ASSUME Queued, Apart, NEW i \in DOMAIN items, Durable(items[i].id), items' = Without(i)
  PROVE  Forward /\ Accounted
  <1>1. LeftBy(i, items')
    BY Removed
  <1>2. \A k \in DOMAIN items : Stage[items[k].state] >= Stage[items[k].state]
    BY NoLaterThanItself
  <1>3. Forward
    <2>1. \A j \in DOMAIN items' : \E k \in DOMAIN items : items'[j] = items[k]
      BY <1>1 DEF LeftBy
    <2>2. QED
      BY <1>2, <2>1, GoesForward
  <1>4. Accounted
    BY <1>1 DEF Accounted, Left, LeftBy
  <1>5. QED
    BY <1>3, <1>4

LEMMA Settling ==
  ASSUME QueueAssumption, QueueInv, NEW h \in Hands, Active(h),
         \/ SettleWith(hand[h].id, "unknown")
         \/ hand[h].pc = "settle" /\ SettleWith(hand[h].id, "handed_off")
  PROVE  Forward /\ Accounted
  <1>1. PICK i \in Sending : items[i].id = hand[h].id
    BY DEF QueueInv, HandInv, HandOwnsItem, Active
  <1>2. Queued /\ Apart /\ i \in DOMAIN items /\ items[i].state = "sending"
    BY ItemShape DEF Sending
  <1>3. Held(hand[h].id) /\ At(hand[h].id) = i
    BY <1>1, <1>2, AtFinds
  <1>4. CASE SettleWith(hand[h].id, "unknown")
    <2>1. items' = [items EXCEPT ![i].state = "needs_review"]
      BY <1>2, <1>3, <1>4 DEF SettleWith, Commit
    <2>2. QED
      BY <1>2, <2>1, Advances, StageOrder, States
  <1>5. CASE hand[h].pc = "settle" /\ SettleWith(hand[h].id, "handed_off")
    <2>1. items' = Without(i)
      BY <1>2, <1>3, <1>5 DEF SettleWith, Commit
    <2>2. Durable(items[i].id)
      BY <1>1, <1>5 DEF QueueInv, HandInv, Proven
    <2>3. QED
      BY <1>2, <2>1, <2>2, Leaves
  <1>6. QED
    BY <1>4, <1>5

-----------------------------------------------------------------------------
(* Every step *)

LEMMA HandStepKeeps ==
  ASSUME QueueAssumption, QueueInv, ProvenStay, NEW h \in Hands, HandStep(h)
  PROVE  QueueInv' /\ Forward /\ Accounted
  <1> DEFINE Goal == QueueInv' /\ Forward /\ Accounted
  <1>1. Queued /\ Apart /\ Len(items) <= MaxItems /\ hand[h] \in HandRecords
    BY ItemShape DEF QueueInv, QueueTypeOK, HandRecords
  <1>2. Active(h)
    BY DEF HandStep, HandBegins, HandAborts, HandAnswered, HandConfirmed, HandTimesOut,
           HandSettles, HandReviews, Active
  <1>3. ASSUME NEW r \in HandRecords, hand' = [hand EXCEPT ![h] = r],
               r.pc # "none", r.id = hand[h].id, r.c = hand[h].c,
               r.pc = "send" => r.via \in Callers,
               r.pc = "settle" => ledger'[r.id] = "applied" /\ row'[r.id] # "none",
               UNCHANGED <<items, runtime, cmd>>, FaultsGrow
        PROVE  Goal
    <2>1. QueueInv'
      BY <1>2, <1>3, HandMoves
    <2>2. QED
      BY <1>1, <1>3, <2>1, SameItems
  <1>4. ASSUME NEW d \in Callers, HandBegins(h, d) PROVE Goal
    <2> DEFINE r == [hand[h] EXCEPT !.pc = "send", !.via = d]
    <2>1. hand' = [hand EXCEPT ![h] = r] /\ UNCHANGED <<items, runtime, cmd, faults>>
      BY <1>4 DEF HandBegins
    <2>2. r \in HandRecords /\ r.pc = "send" /\ r.via = d /\ r.id = hand[h].id /\ r.c = hand[h].c
      BY <1>1 DEF HandRecords, HandPcs
    <2> HIDE DEF r
    <2>3. QED
      BY <1>3, <2>1, <2>2, FaultsMayGrow
  <1>5. ASSUME HandAborts(h) \/ HandTimesOut(h) PROVE Goal
    <2> DEFINE r == [hand[h] EXCEPT !.pc = "review"]
    <2>1. hand' = [hand EXCEPT ![h] = r] /\ UNCHANGED <<items, runtime, cmd, faults>>
      BY <1>5 DEF HandAborts, HandTimesOut
    <2>2. r \in HandRecords /\ r.pc = "review" /\ r.id = hand[h].id /\ r.c = hand[h].c
      BY <1>1 DEF HandRecords, HandPcs
    <2> HIDE DEF r
    <2>3. QED
      BY <1>3, <2>1, <2>2, FaultsMayGrow
  <1>6. ASSUME HandAnswered(h) PROVE Goal
    <2> DEFINE next == IF AtCall(hand[h].via, "returned") THEN "confirm" ELSE "review"
               r == [hand[h] EXCEPT !.pc = next, !.via = Nobody]
    <2>1. hand' = [hand EXCEPT ![h] = r] /\ UNCHANGED <<items, runtime, cmd, faults>>
      BY <1>6 DEF HandAnswered
    <2>2. next \in {"confirm", "review"}
      OBVIOUS
    <2> HIDE DEF next
    <2>3. r \in HandRecords /\ r.pc = next /\ r.id = hand[h].id /\ r.c = hand[h].c
      BY <1>1, <2>2 DEF HandRecords, HandPcs
    <2> HIDE DEF r
    <2>4. QED
      BY <1>3, <2>1, <2>2, <2>3, FaultsMayGrow
  <1>7. ASSUME HandConfirmed(h) PROVE Goal
    <2> DEFINE r == [hand[h] EXCEPT !.pc = "settle"]
    <2>1. /\ hand' = [hand EXCEPT ![h] = r] /\ UNCHANGED <<items, runtime, cmd, faults>>
          /\ ledger'[hand[h].id] = "applied" /\ row'[hand[h].id] # "none"
      BY <1>7 DEF HandConfirmed, Durable, NoSubmission, dispatchVars, disk
    <2>2. r \in HandRecords /\ r.pc = "settle" /\ r.id = hand[h].id /\ r.c = hand[h].c
      BY <1>1 DEF HandRecords, HandPcs
    <2> HIDE DEF r
    <2>3. QED
      BY <1>3, <2>1, <2>2, FaultsMayGrow
  <1>8. ASSUME HandSettles(h) PROVE Goal
    <2>1. CASE SettleWith(hand[h].id, "handed_off") /\ HandEnds(h, TRUE)
      <3>1. Queued' /\ Apart' /\ Len(items') <= MaxItems /\ Sending' = {} /\ UNCHANGED faults
        BY <1>2, <2>1, Settles
      <3>2. QueueInv'
        BY <1>2, <1>8, <2>1, <3>1, FaultsMayGrow, HandCloses DEF HandSettles
      <3>3. QED
        BY <1>2, <1>8, <2>1, <3>2, Settling DEF HandSettles
    <2>2. CASE WriteFails /\ hand' = [hand EXCEPT ![h].pc = "review"] /\ UNCHANGED <<drain, again, cmd>>
      <3> DEFINE r == [hand[h] EXCEPT !.pc = "review"]
      <3>1. hand' = [hand EXCEPT ![h] = r] /\ UNCHANGED <<items, runtime, cmd>>
        BY <1>8, <2>2 DEF HandSettles, WriteFails, runtime
      <3>2. r \in HandRecords /\ r.pc = "review" /\ r.id = hand[h].id /\ r.c = hand[h].c
        BY <1>1 DEF HandRecords, HandPcs
      <3> HIDE DEF r
      <3>3. QED
        BY <1>3, <2>2, <3>1, <3>2, FaultsMayGrow
    <2>3. QED
      BY <1>8, <2>1, <2>2 DEF HandSettles
  <1>9. ASSUME HandReviews(h) PROVE Goal
    <2>1. CASE SettleWith(hand[h].id, "unknown")
      <3>1. Queued' /\ Apart' /\ Len(items') <= MaxItems /\ Sending' = {} /\ UNCHANGED faults
        BY <1>2, <2>1, Settles
      <3>2. QueueInv'
        BY <1>2, <1>9, <3>1, FaultsMayGrow, HandCloses DEF HandReviews
      <3>3. QED
        BY <1>2, <2>1, <3>2, Settling
    <2>2. CASE WriteFails
      <3>1. items' = items /\ faults' # 0 /\ FaultsGrow
        BY <2>2, FaultsMayGrow DEF WriteFails, QueueInv, QueueTypeOK
      <3>2. Queued' /\ Apart' /\ Len(items') <= MaxItems
        BY <1>1, <3>1 DEF Queued, Apart
      <3>3. QueueInv'
        BY <1>2, <1>9, <3>1, <3>2, HandCloses DEF HandReviews
      <3>4. QED
        BY <1>1, <3>1, <3>3, SameItems
    <2>3. QED
      BY <1>9, <2>1, <2>2 DEF HandReviews
  <1>10. QED
    BY <1>4, <1>5, <1>6, <1>7, <1>8, <1>9 DEF HandStep

LEMMA Claiming ==
  ASSUME QueueInv, NEW h, NEW i, Claimable(i), Claim(h, i)
  PROVE  Forward /\ Accounted
  <1>1. Queued /\ Apart /\ i \in DOMAIN items /\ items[i].state = "queued"
    BY ItemShape DEF Claimable
  <1>2. items' = [items EXCEPT ![i].state = "sending"]
    BY DEF Claim, Commit
  <1>3. Stage["sending"] >= Stage[items[i].state]
    BY <1>1, StageOrder
  <1>4. QED
    BY <1>1, <1>2, <1>3, States, Advances

LEMMA DrainStepKeeps ==
  ASSUME QueueAssumption, QueueInv, ProvenStay, DrainStep
  PROVE  QueueInv' /\ Forward /\ Accounted
  <1> DEFINE Goal == QueueInv' /\ Forward /\ Accounted
  <1>1. Queued /\ Apart
    BY ItemShape
  <1>2. ASSUME UNCHANGED <<items, recovery, up, chain, hand, cmd>>, DrainSafe, FaultsGrow PROVE Goal
    BY <1>1, <1>2, Aside, SameItems
  <1>3. CASE DrainChecks \/ DrainAsksReady \/ DrainFinishes
    <2>1. UNCHANGED <<items, recovery, up, chain, hand, cmd, faults>>
      BY <1>3 DEF DrainChecks, DrainAsksReady, DrainFinishes
    <2>2. drain # "handoff" /\ drain' # "handoff" /\ again' \in BOOLEAN
      BY <1>3 DEF DrainChecks, DrainAsksReady, DrainFinishes, QueueInv, QueueTypeOK
    <2>3. drain' \in {"none", "check", "ready", "claim", "ending"}
      BY <1>3 DEF DrainChecks, DrainAsksReady, DrainFinishes
    <2>4. recovery # "pending" /\ up # "exited"
      BY <1>3 DEF DrainChecks, DrainAsksReady, DrainFinishes, QueueInv, PhaseInv, Recovering, Resolved
    <2>5. DrainSafe
      BY <2>2, <2>3, <2>4 DEF DrainSafe
    <2>6. QED
      BY <1>2, <2>1, <2>5, FaultsMayGrow
  <1>4. CASE DrainClaims
    <2>1. /\ drain = "claim" /\ ChainFree /\ UNCHANGED <<again, up, recovery, chain>>
          /\ recovery # "pending" /\ up # "exited" /\ again \in BOOLEAN
      BY <1>4 DEF DrainClaims, QueueInv, QueueTypeOK, PhaseInv, Recovering, Resolved
    <2>2. CASE Claimable(1) /\ Claim(Drain, 1) /\ cmd' = Stale /\ drain' = "handoff" /\ UNCHANGED faults
      <3>1. QueueInv'
        BY <2>1, <2>2, Claims DEF Hands
      <3>2. QED
        BY <2>2, <3>1, Claiming
    <2>3. CASE Claimable(1) /\ WriteFails /\ drain' = "ending" /\ UNCHANGED <<hand, cmd>>
      <3>1. items' = items /\ FaultsGrow
        BY <2>3, FaultsMayGrow DEF WriteFails
      <3>2. DrainSafe
        BY <2>1, <2>3 DEF DrainSafe
      <3>3. QED
        BY <1>2, <2>1, <2>3, <3>1, <3>2
    <2>4. CASE drain' = "ending" /\ UNCHANGED <<items, hand, cmd, faults>>
      <3>1. DrainSafe
        BY <2>1, <2>4 DEF DrainSafe
      <3>2. QED
        BY <1>2, <2>1, <2>4, <3>1, FaultsMayGrow
    <2>5. QED
      BY <1>4, <2>2, <2>3, <2>4 DEF DrainClaims
  <1>5. QED
    BY <1>3, <1>4 DEF DrainStep

LEMMA CommandStepKeeps ==
  ASSUME QueueAssumption, QueueInv, ProvenStay, NEW p \in Cmds, CommandBegins(p) \/ CommandStep(p)
  PROVE  QueueInv' /\ Forward /\ Accounted
  <1> DEFINE Goal == QueueInv' /\ Forward /\ Accounted
  <1>1. Queued /\ Apart /\ cmd[p] \in CmdRecords /\ cmd \in [Cmds -> CmdRecords]
    BY ItemShape DEF QueueInv, QueueTypeOK, CmdRecords
  <1>2. ASSUME NEW r, cmd' = [cmd EXCEPT ![p] = r], CommandOK(r), cmd[p].pc # "hand",
               up = "up" \/ cmd[p] # IdleCmd, r.pc \in {"idle", "exec"},
               chain' = chain \/ (chain = p /\ chain' = Nobody),
               Wake \/ UNCHANGED <<drain, again>>, WriteFails \/ UNCHANGED faults,
               UNCHANGED <<items, up, recovery, hand>>
        PROVE  Goal
    <2>1. DrainSafe /\ FaultsGrow
      BY <1>2, WakeSafe, FaultsMayGrow
    <2>2. /\ r.pc # "commit" /\ (chain' = chain \/ (chain = p /\ chain' = Nobody))
          /\ recovery = "pending" => r.pc \in {"idle", "exec"}
      BY <1>2
    <2>3. QueueInv'
      BY <1>2, <2>1, <2>2, CommandMoves
    <2>4. QED
      BY <1>1, <1>2, <2>3, SameItems
  <1>3. CommandOK(IdleCmd) /\ IdleCmd.pc = "idle"
    BY DEF CommandOK, IdleCmd, CmdRecords, CmdPcs, AllOps, Drafting
  <1>4. ASSUME CommandBegins(p) PROVE Goal
    <2>1. PICK op \in Ops : \E request \in Requests(op) : cmd' = [cmd EXCEPT ![p] = request]
      BY <1>4 DEF CommandBegins
    <2>2. PICK r \in Requests(op) : cmd' = [cmd EXCEPT ![p] = r]
      BY <2>1
    <2>3. CommandOK(r) /\ r.pc = "exec"
      <3>1. op \in AllOps
        BY QueueAssumption DEF QueueAssumption
      <3>2. r.exp \in Nat
        BY <2>2 DEF Requests
      <3>3. r \in CmdRecords
        BY <2>2, <3>1, <3>2 DEF Requests, CmdRecords, CmdPcs, AllOps
      <3>4. QED
        BY <2>2, <3>3 DEF Requests, CommandOK
    <2>4. /\ cmd[p].pc # "hand" /\ up = "up"
          /\ UNCHANGED <<items, up, recovery, drain, again, chain, hand, faults>>
      BY <1>4 DEF CommandBegins, runtime, IdleCmd
    <2>5. QED
      BY <1>2, <2>2, <2>3, <2>4
  <1>5. ASSUME \/ CommandRefused(p) \/ Fetches(p) \/ EnqueueKnown(p) \/ EnqueueFull(p)
               \/ MutateRefused(p) \/ SendNowRefused(p)
        PROVE  Goal
    <2>1. /\ cmd' = [cmd EXCEPT ![p] = IdleCmd] /\ cmd[p].pc = "exec"
          /\ UNCHANGED <<items, chain, up, recovery, hand>>
      BY <1>5
      DEF CommandRefused, Fetches, EnqueueKnown, EnqueueFull, MutateRefused, SendNowRefused,
          Executes, Reply, WriteFails, runtime
    <2>2. /\ Wake \/ UNCHANGED <<drain, again>>
          /\ WriteFails \/ UNCHANGED faults
      BY <1>5
      DEF CommandRefused, Fetches, EnqueueKnown, EnqueueFull, MutateRefused, SendNowRefused, runtime
    <2>3. QED
      BY <1>2, <1>3, <2>1, <2>2 DEF IdleCmd
  <1>6. ASSUME EnqueueFails(p) PROVE Goal
    <2>1. /\ cmd' = [cmd EXCEPT ![p] = IdleCmd] /\ cmd[p].pc = "commit" /\ chain' = Nobody
          /\ UNCHANGED <<items, up, recovery, drain, again, hand, faults>>
      BY <1>6 DEF EnqueueFails, Reply
    <2>2. QED
      BY <1>2, <1>3, <2>1, ChainHolder DEF IdleCmd
  <1>7. ASSUME EnqueuePrepares(p) PROVE Goal
    <2> DEFINE r == [cmd[p] EXCEPT !.pc = "commit"]
    <2>1. /\ cmd' = [cmd EXCEPT ![p] = r] /\ cmd[p].pc = "exec" /\ cmd[p].op = "enqueue"
          /\ recovery = "done" /\ ChainFree /\ chain' = p /\ Len(items) < MaxItems /\ ~Held(cmd[p].id)
          /\ UNCHANGED <<items, up, recovery, drain, again, hand, faults>>
      BY <1>7 DEF EnqueuePrepares, Executes
    <2>2. r.pc = "commit" /\ r.op = "enqueue" /\ r.id = cmd[p].id /\ r.c = cmd[p].c /\ r \in CmdRecords
      BY <1>1, <2>1 DEF CmdRecords, CmdPcs
    <2> HIDE DEF r
    <2>3. CommandOK(r)
      BY <2>1, <2>2 DEF CommandOK, QueueInv, CommandInv, CommandSound, Drafting
    <2>4. DrainSafe /\ FaultsGrow
      BY <2>1, WakeSafe, FaultsMayGrow
    <2>5. /\ cmd[p].pc # "hand" /\ (up = "up" \/ cmd[p] # IdleCmd) /\ recovery # "pending" /\ ~Held(r.id)
          /\ UNCHANGED <<items, up, recovery, hand>>
      BY <2>1, <2>2 DEF IdleCmd
    <2>6. QueueInv'
      BY <2>1, <2>2, <2>3, <2>4, <2>5, CommandMoves
    <2>7. QED
      BY <1>1, <2>1, <2>6, SameItems
  <1>8. ASSUME EnqueueCommits(p) PROVE Goal
    <2>1. /\ Queued' /\ Apart' /\ Len(items') <= MaxItems /\ SendingKept /\ Forward /\ Accounted
      BY <1>8, Enqueuing
    <2>2. /\ cmd' = [Stale EXCEPT ![p] = IdleCmd] /\ cmd[p].pc = "commit" /\ chain' = Nobody
          /\ Wake /\ UNCHANGED <<up, recovery, hand, faults>>
      BY <1>8 DEF EnqueueCommits, ReplyCommitted
    <2>3. QED
      BY <2>1, <2>2, WakeSafe, CommandCommits
  <1>9. ASSUME Mutates(p) PROVE Goal
    <2>1. /\ Queued' /\ Apart' /\ Len(items') <= MaxItems /\ SendingKept /\ Forward /\ Accounted
      BY <1>9, Mutation
    <2>2. /\ cmd' = [Stale EXCEPT ![p] = IdleCmd] /\ cmd[p].pc = "exec" /\ ChainFree
          /\ Wake /\ UNCHANGED <<up, recovery, chain, hand, faults>>
      BY <1>9 DEF Mutates, Executes, ReplyCommitted
    <2>3. QED
      BY <2>1, <2>2, WakeSafe, CommandCommits
  <1>10. ASSUME SendNow(p) PROVE Goal
    <2> DEFINE i == At(cmd[p].id)
    <2>1. /\ Claimable(i) /\ Claim(p, i) /\ ChainFree /\ recovery = "done" /\ cmd[p].pc = "exec"
          /\ cmd' = [Stale EXCEPT ![p].pc = "hand"] /\ UNCHANGED <<drain, again, up, recovery, chain, faults>>
      BY <1>10 DEF SendNow, Executes, runtime
    <2>2. up # "exited"
      BY <2>1 DEF QueueInv, PhaseInv, Resolved, IdleCmd
    <2> HIDE DEF i
    <2>3. QueueInv'
      BY <2>1, <2>2, Claims DEF Hands
    <2>4. QED
      BY <2>1, <2>3, Claiming
  <1>11. QED
    BY <1>4, <1>5, <1>6, <1>7, <1>8, <1>9, <1>10 DEF CommandStep

LEMMA RestartKeeps ==
  ASSUME QueueAssumption, QueueInv, Restart
  PROVE  QueueInv' /\ Forward /\ Accounted
  <1>1. /\ up' = "up" /\ recovery' = "pending" /\ drain' = "none" /\ again' = FALSE /\ chain' = Nobody
        /\ hand' = [h \in Hands |-> IdleHand] /\ cmd' = [p \in Cmds |-> IdleCmd]
        /\ UNCHANGED <<items, faults>>
    BY DEF Restart
  <1>2. IdleHand \in HandRecords /\ IdleHand.pc = "none" /\ IdleCmd \in CmdRecords
    BY DEF IdleHand, HandRecords, HandPcs, IdleCmd, CmdRecords, CmdPcs, AllOps
  <1>3. hand' \in [Hands -> HandRecords] /\ cmd' \in [Cmds -> CmdRecords]
    BY <1>1, <1>2
  <1>4. UniqueIds' /\ OneSent'
    BY <1>1 DEF QueueInv, UniqueIds, OneSent, Sending
  <1>5. QueueTypeOK' /\ UniqueIds' /\ OneSent'
    <2>1. items' = items /\ faults' = faults /\ QueueTypeOK
      BY <1>1 DEF QueueInv
    <2>2. /\ drain' \in {"none", "check", "ready", "claim", "handoff", "ending"} /\ again' \in BOOLEAN
          /\ up' \in {"up", "stopping", "exited"} /\ recovery' \in {"pending", "done", "failed"}
          /\ chain' \in Cmds \cup {Nobody}
      BY <1>1
    <2>3. QueueTypeOK'
      BY <1>3, <2>1, <2>2 DEF QueueTypeOK, HandRecords, CmdRecords
    <2>4. QED
      BY <1>4, <2>3
  <1>6. CommandInv'
    BY <1>1, <1>2 DEF CommandInv, CommandSound, Active, IdleCmd, Drafting, Hands
  <1>7. HandInv' /\ PhaseInv'
    BY <1>1, <1>2
    DEF HandInv, HandOwnsItem, OneHand, DrainHands, Carried, Proven, Active, Hands,
        PhaseInv, Recovering, Attended, Resolved, IdleCmd
  <1>8. QED
    BY <1>1, <1>5, <1>6, <1>7, ItemShape, SameItems DEF QueueInv

LEMMA QueueStep ==
  ASSUME QueueAssumption, QInv, [QueueNext]_vars
  PROVE  QInv' /\ Forward /\ Accounted
  <1> DEFINE Goal == QueueInv' /\ Forward /\ Accounted
  <1>1. [DispatchNext]_dispatchVars
    BY DispatchBelow
  <1>2. TypeInv' /\ turns' <= MaxTurns
    BY <1>1, DispatchAssumption, TypeStep, TurnsBounded DEF QInv
  <1> SUFFICES Goal
    BY <1>2 DEF QInv
  <1>3. ProvenStay
    <2>1. DurablesStay
      BY <1>1, DurableStays DEF QInv, DurablesStay
    <2>2. QED
      BY <2>1, ProvenStays
  <1>4. QueueInv /\ Queued /\ Apart
    BY ItemShape DEF QInv
  <1>5. ASSUME UNCHANGED <<items, recovery, chain, hand, cmd, faults>>,
               Wake \/ UNCHANGED <<drain, again>>,
               up' = up \/ up' = "stopping"
        PROVE  Goal
    <2>1. DrainSafe /\ FaultsGrow
      BY <1>4, <1>5, WakeSafe, FaultsMayGrow
    <2>2. QueueInv'
      BY <1>3, <1>4, <1>5, <2>1, Aside
    <2>3. Forward /\ Accounted
      BY <1>4, <1>5, SameItems
    <2>4. QED
      BY <2>2, <2>3
  <1>6. CASE \/ \E d \in Callers : QuietStep(d) \/ LoudStep(d) \/ DirectSend(d) \/ DirectDone(d)
             \/ EventStep \/ (StopRefused /\ UNCHANGED queueVars)
             \/ Stop \/ UNCHANGED vars
    <2>1. /\ UNCHANGED <<items, recovery, chain, hand, cmd, faults>>
          /\ up' = up \/ up' = "stopping"
      BY <1>6
      DEF QuietStep, LoudStep, DirectSend, DirectDone, EventStep, Stop, vars, queueVars, runtime
    <2>2. Wake \/ UNCHANGED <<drain, again>>
      BY <1>6
      DEF QuietStep, LoudStep, DirectSend, DirectDone, EventStep, Stop, vars, queueVars, runtime
    <2>3. QED
      BY <1>5, <2>1, <2>2
  <1>7. CASE StopResolves
    <2>1. /\ UNCHANGED <<items, recovery, drain, again, chain, hand, cmd, faults>>
          /\ up' = "exited" /\ recovery # "pending" /\ drain' = "none"
          /\ \A p \in Cmds : cmd[p] = IdleCmd
      BY <1>7 DEF StopResolves
    <2>2. DrainSafe /\ FaultsGrow
      BY <1>4, <2>1, WakeSafe, FaultsMayGrow
    <2>3. QueueInv'
      BY <1>3, <1>4, <2>1, <2>2, Aside
    <2>4. Forward /\ Accounted
      BY <1>4, <2>1, SameItems
    <2>5. QED
      BY <2>3, <2>4
  <1>8. CASE Recovers
    <2>1. QueueInv'
      BY <1>3, <1>4, <1>8, QueueAssumption, RecoveryKeeps
    <2>2. Forward /\ Accounted
      <3>1. CASE UNCHANGED items
        BY <1>4, <3>1, SameItems
      <3>2. ASSUME NEW i \in Sending, Durable(items[i].id), Commit(Without(i))
            PROVE  Forward /\ Accounted
        BY <1>4, <3>2, Leaves DEF Sending, Commit
      <3>3. ASSUME NEW i \in Sending, Commit([items EXCEPT ![i].state = "needs_review"])
            PROVE  Forward /\ Accounted
        <4>1. i \in DOMAIN items /\ items[i].state = "sending"
          BY DEF Sending
        <4>2. items' = [items EXCEPT ![i].state = "needs_review"]
          BY <3>3 DEF Commit
        <4>3. Stage["needs_review"] >= Stage[items[i].state]
          BY <4>1, StageOrder
        <4>4. QED
          BY <1>4, <4>1, <4>2, <4>3, States, Advances
      <3>4. \/ UNCHANGED items
            \/ \E i \in Sending : \/ Durable(items[i].id) /\ Commit(Without(i))
                                 \/ Commit([items EXCEPT ![i].state = "needs_review"])
        BY <1>8 DEF Recovers, WriteFails
      <3>5. QED
        BY <3>1, <3>2, <3>3, <3>4
    <2>3. QED
      BY <2>1, <2>2
  <1>9. QED
    <2>1. CASE \E h \in Hands : HandStep(h)
      BY <1>3, <1>4, <2>1, QueueAssumption, HandStepKeeps
    <2>2. CASE DrainStep
      BY <1>3, <1>4, <2>2, QueueAssumption, DrainStepKeeps
    <2>3. CASE \E p \in Cmds : CommandBegins(p) \/ CommandStep(p)
      BY <1>3, <1>4, <2>3, QueueAssumption, CommandStepKeeps
    <2>4. CASE Restart
      BY <1>4, <2>4, QueueAssumption, RestartKeeps
    <2>5. QED
      BY <1>6, <1>7, <1>8, <2>1, <2>2, <2>3, <2>4 DEF QueueNext

LEMMA QueueStarts ==
  ASSUME QueueAssumption, QueueInit
  PROVE  QInv
  <1>1. TypeInv /\ turns <= MaxTurns
    <2>1. IInv /\ turns = 0
      BY DispatchAssumption, InitOK DEF QueueInit, DispatchInit
    <2>2. QED
      BY <2>1, DispatchAssumption DEF IInv, DispatchAssumption
  <1>2. /\ items = <<>> /\ chain = Nobody /\ up = "up" /\ recovery = "pending" /\ drain = "none"
        /\ again = FALSE /\ faults = 0
        /\ hand = [h \in Hands |-> IdleHand] /\ cmd = [p \in Cmds |-> IdleCmd]
    BY DEF QueueInit
  <1>3. IdleHand \in HandRecords /\ IdleHand.pc = "none" /\ IdleCmd \in CmdRecords
    BY DEF IdleHand, HandRecords, HandPcs, IdleCmd, CmdRecords, CmdPcs, AllOps
  <1>4. items \in Seq(ItemRecords) /\ Len(items) = 0 /\ DOMAIN items = {}
    BY <1>2, EmptySeq
  <1>5. QueueTypeOK
    <2>1. hand \in [Hands -> HandRecords] /\ cmd \in [Cmds -> CmdRecords]
      BY <1>2, <1>3
    <2>2. Len(items) <= MaxItems
      BY <1>4, QueueAssumption DEF QueueAssumption
    <2>3. QED
      BY <1>2, <1>4, <2>1, <2>2 DEF QueueTypeOK, HandRecords, CmdRecords, ItemRecords
  <1>6. UniqueIds /\ OneSent
    BY <1>4 DEF UniqueIds, OneSent, Sending
  <1>7. CommandInv
    BY <1>2, <1>3 DEF CommandInv, CommandSound, Active, IdleCmd, Drafting, Hands
  <1>8. HandInv /\ PhaseInv
    BY <1>2, <1>3
    DEF HandInv, HandOwnsItem, OneHand, DrainHands, Carried, Proven, Active, Hands,
        PhaseInv, Recovering, Attended, Resolved, IdleCmd
  <1>9. QED
    BY <1>1, <1>5, <1>6, <1>7, <1>8 DEF QInv, QueueInv

-----------------------------------------------------------------------------
(* Theorems *)

\* What the steps keep of the queue: one item is under way at most, each hand holds the item it claimed,
\* and an item under way has a hand, a recovery ahead of it or a failed write behind it.
THEOREM QueueInvariance == QueueSpec => []QInv
  <1>1. QueueInit => QInv
    BY QueueAssumption, QueueStarts
  <1>2. QInv /\ [QueueNext]_vars => QInv'
    BY QueueAssumption, QueueStep
  <1>3. QED
    BY <1>1, <1>2, PTL DEF QueueSpec

\* The queue's variables keep their shape, and the queue its capacity, however many clients enqueue at
\* once.
THEOREM QueueTypeCorrect == QueueSpec => []QueueTypeOK
  <1>1. QInv => QueueTypeOK
    BY DEF QInv, QueueInv
  <1>2. QED
    BY <1>1, QueueInvariance, PTL

\* No two items share an id: an enqueue holds the promise chain from its look at the queue to its
\* commit.
THEOREM IdsUnique == QueueSpec => []UniqueIds
  <1>1. QInv => UniqueIds
    BY DEF QInv, QueueInv
  <1>2. QED
    BY <1>1, QueueInvariance, PTL

\* What is handed over is what was claimed, and the drain hands over the head.
THEOREM HandedAsClaimed == QueueSpec => []HandOwnsItem
  <1>1. QInv => HandOwnsItem
    BY DEF QInv, QueueInv, HandInv
  <1>2. QED
    BY <1>1, QueueInvariance, PTL

\* The drain and the clients together have one item under way at most.
THEOREM OneAtATime == QueueSpec => []OneSending
  <1>1. QInv => OneSending
    <2>1. SUFFICES ASSUME QInv PROVE Cardinality(Sending) <= 1
      BY DEF OneSending
    <2>2. CASE Sending = {}
      BY <2>2, FS_EmptySet
    <2>3. ASSUME NEW i \in Sending PROVE Cardinality(Sending) <= 1
      <3>1. Sending = {i}
        BY <2>1 DEF QInv, QueueInv, OneSent
      <3>2. Cardinality({i}) = 1
        BY FS_Singleton
      <3>3. QED
        BY <3>1, <3>2
    <2>4. QED
      BY <2>2, <2>3
  <1>2. QED
    BY <1>1, QueueInvariance, PTL

\* Stop resolves with nothing under way, unless a write failed.
THEOREM StopsClean == QueueSpec => []CleanStop
  <1>1. QInv => CleanStop
    <2>1. SUFFICES ASSUME QInv, up = "exited", faults = 0 PROVE Sending = {}
      BY DEF CleanStop
    <2>2. recovery # "pending" /\ drain = "none" /\ \A p \in Cmds : cmd[p].pc = "idle"
      BY <2>1 DEF QInv, QueueInv, PhaseInv, Resolved, IdleCmd
    <2>3. ~Active(Drain)
      BY <2>1, <2>2 DEF QInv, QueueInv, HandInv, DrainHands
    <2>4. \A p \in Cmds : ~Active(p)
      BY <2>1, <2>2 DEF QInv, QueueInv, CommandInv, CommandSound
    <2>5. QED
      BY <2>1, <2>2, <2>3, <2>4 DEF QInv, QueueInv, PhaseInv, Attended, Hands
  <1>2. QED
    BY <1>1, QueueInvariance, PTL

\* What was claimed is never queued again, nor claimed again after a review, also across restarts.
THEOREM NeverBack == QueueSpec => ForwardOnly
  <1>1. QInv /\ [QueueNext]_vars =>
          [\A i \in DOMAIN items, j \in DOMAIN items' :
             items'[j].id = items[i].id => Stage[items'[j].state] >= Stage[items[i].state]]_vars
    BY QueueAssumption, QueueStep DEF Forward
  <1>2. QED
    BY <1>1, QueueInvariance, PTL DEF QueueSpec, ForwardOnly

\* An item leaves with the proof of its handoff, or by the hand of a client.
THEOREM KeptForProof == QueueSpec => KeptUntilHandedOff
  <1>1. QInv /\ [QueueNext]_vars =>
          [\A i \in DOMAIN items :
             (\A j \in DOMAIN items' : items'[j].id # items[i].id) =>
               \/ Durable(items[i].id)
               \/ /\ items[i].state # "sending"
                  /\ \E p \in Cmds :
                       /\ cmd[p].pc = "exec"
                       /\ cmd[p].op \in {"delete", "discard"}
                       /\ cmd[p].id = items[i].id]_vars
    BY QueueAssumption, QueueStep DEF Accounted, Left, TakenOut
  <1>2. QED
    BY <1>1, QueueInvariance, PTL DEF QueueSpec, KeptUntilHandedOff

\* The queue, its clients and the senders beside it use the dispatch as PromptDispatch describes: every
\* property of the dispatch holds below the queue.
THEOREM UsesDispatch == QueueSpec => DispatchSpec
  <1>1. QueueInit => DispatchInit
    BY DEF QueueInit
  <1>2. QInv /\ [QueueNext]_vars => [DispatchNext]_dispatchVars
    BY QueueAssumption, DispatchBelow
  <1>3. QED
    BY <1>1, <1>2, QueueInvariance, PTL DEF QueueSpec, DispatchSpec

\* A message that goes through the queue, beside it, or both, reaches the provider once at most.
THEOREM QueuedOnce == QueueSpec => []AtMostOnce
  BY UsesDispatch, OnceAtMost, PTL

\* A daemon with its queue, its clients and the senders beside it is an implementation of once-only
\* delivery.
THEOREM QueueImplementsOnce == QueueSpec => OnceImpl
  BY UsesDispatch, ImplementsOnce, PTL
=============================================================================
