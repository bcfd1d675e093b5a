------------------------------ MODULE InputQueue ------------------------------
(***************************************************************************)
(* The durable Host input queue of one agent: InputQueueStore (queue.json, *)
(* one writer), InputQueueRuntime (client commands, the drain, shutdown)   *)
(* and the agent adapter that hands an item to sendPromptToAgent, composed *)
(* with the prompt dispatch of that agent.                                 *)
(*                                                                         *)
(* Every store operation runs alone on the store's promise chain, writes   *)
(* the file by rename and only then replaces the cached snapshot, so a     *)
(* commit is one step.  An enqueue reads the transcript while it holds the *)
(* chain, so it is two.  Revisions are abstracted to what they decide: a   *)
(* command is fresh while no commit followed the snapshot it names.        *)
(***************************************************************************)
EXTENDS PromptDispatch, Sequences, FiniteSets

CONSTANTS
  Drain,      \* the drain, as the actor of a handoff
  Cmds,       \* concurrent queue commands of clients
  Ops,        \* the commands clients issue
  DirectModes,\* how messages are sent beside the queue
  MaxItems,   \* capacity of the queue (32 in the code)
  MaxFaults   \* bound: failed writes of queue.json in a behaviour

AllOps == {"fetch", "enqueue", "update", "move_to_end", "delete", "discard", "send_now", "steer_now"}
Drafting == {"enqueue", "update", "move_to_end"}
Hands == Cmds \cup {Drain}

ASSUME QueueAssumption ==
  /\ Drain \notin Cmds
  /\ Nobody \notin Cmds
  /\ Ops \subseteq AllOps
  /\ DirectModes \subseteq Modes
  /\ MaxItems \in Nat \ {0}
  /\ MaxFaults \in Nat

VARIABLES
  items,     \* disk and cache: the queue, as a sequence of [id, c, state]
  chain,     \* the enqueue holding the store's promise chain, or Nobody
  up,        \* "up", "stopping" (stopped = true) or "exited" (stop resolved)
  recovery,  \* state.recovering: "pending", "done" or "failed"
  drain,     \* where state.draining is
  again,     \* state.drainAgain
  hand,      \* handoffs under way, by the drain or by a command
  cmd,       \* client commands under way
  faults     \* failed writes so far

runtime == <<up, recovery, drain, again, chain>>
queueVars == <<items, runtime, hand, cmd, faults>>
vars == <<dispatchVars, queueVars>>

-----------------------------------------------------------------------------
(* The snapshot *)

HandPcs == {"none", "attach", "send", "confirm", "settle", "review"}
CmdPcs == {"idle", "exec", "commit", "hand"}
IdleHand == [pc |-> "none", id |-> NoId, c |-> NoContent, via |-> Nobody]
IdleCmd == [pc |-> "idle", op |-> "fetch", id |-> NoId, c |-> NoContent, exp |-> 0, fresh |-> FALSE]

Stage == [queued |-> 0, sending |-> 1, needs_review |-> 2]
Item(id, c, state) == [id |-> id, c |-> c, state |-> state]
IndexesOf(id) == {i \in DOMAIN items : items[i].id = id}
Held(id) == IndexesOf(id) # {}
At(id) == CHOOSE i \in IndexesOf(id) : TRUE
Sending == {i \in DOMAIN items : items[i].state = "sending"}
HeadQueued == items # <<>> /\ items[1].state = "queued"
Without(i) == [j \in 1..(Len(items) - 1) |-> IF j < i THEN items[j] ELSE items[j + 1]]

\* commit: every command that names an older snapshot is stale from here on
Stale == [p \in Cmds |-> [cmd[p] EXCEPT !.fresh = FALSE]]
Commit(next) == items' = next
WriteFails == faults < MaxFaults /\ faults' = faults + 1 /\ UNCHANGED items

ChainFree == chain = Nobody
NoSubmission == UNCHANGED dispatchVars

QueueInit ==
  /\ DispatchInit
  /\ items = <<>>
  /\ chain = Nobody
  /\ up = "up"
  /\ recovery = "pending"
  /\ drain = "none"
  /\ again = FALSE
  /\ hand = [h \in Hands |-> IdleHand]
  /\ cmd = [p \in Cmds |-> IdleCmd]
  /\ faults = 0

-----------------------------------------------------------------------------
(* Waking and draining *)

\* Slip: a wake during a drain is dropped.
WakeOnce ==
  /\ drain' = IF drain = "none" /\ up = "up" THEN "check" ELSE drain
  /\ UNCHANGED again

\* wake: one drain per target; a wake during a drain asks for another one
Wake ==
  IF up = "up"
  THEN /\ drain' = IF drain = "none" THEN "check" ELSE drain
       /\ again' = (again \/ drain # "none")
  ELSE UNCHANGED <<drain, again>>

\* drain has returned ("ending"); its finally block looks for wakes that came meanwhile.
DrainFinishes ==
  /\ drain = "ending"
  /\ drain' = IF again /\ up = "up" THEN "check" ELSE "none"
  /\ again' = FALSE
  /\ NoSubmission
  /\ UNCHANGED <<items, up, recovery, chain, hand, cmd, faults>>

\* isReady
Ready == lifecycle = "idle" /\ ~InFlight

\* The drain reads the head once recovery is over; failed recovery pauses the target.
DrainChecks ==
  /\ drain = "check"
  /\ recovery # "pending"
  /\ ChainFree
  /\ IF recovery = "done" /\ up = "up" /\ HeadQueued
     THEN drain' = "ready"
     ELSE drain' = "ending"
  /\ NoSubmission
  /\ UNCHANGED <<items, again, up, recovery, chain, hand, cmd, faults>>

DrainAsksReady ==
  /\ drain = "ready"
  /\ drain' = IF Ready THEN "claim" ELSE "ending"
  /\ NoSubmission
  /\ UNCHANGED <<items, again, up, recovery, chain, hand, cmd, faults>>

\* Slip: a claim does not look for another handoff.
ClaimableBesides(i) == i \in DOMAIN items /\ items[i].state = "queued"

\* InputQueueStore.claim: one sending item at a time, and only a queued one
Claimable(i) == Sending = {} /\ i \in DOMAIN items /\ items[i].state = "queued"
Claim(h, i) ==
  /\ Commit([items EXCEPT ![i].state = "sending"])
  /\ hand' = [hand EXCEPT ![h] = [pc |-> "attach", id |-> items[i].id, c |-> items[i].c,
                                 via |-> Nobody]]

DrainClaims ==
  /\ drain = "claim"
  /\ ChainFree
  /\ \/ /\ Claimable(1)
        /\ Claim(Drain, 1)
        /\ cmd' = Stale
        /\ drain' = "handoff"
        /\ UNCHANGED faults
     \/ /\ Claimable(1)
        /\ WriteFails
        /\ drain' = "ending"
        /\ UNCHANGED <<hand, cmd>>
     \/ /\ ~Claimable(1)
        /\ drain' = "ending"
        /\ UNCHANGED <<items, hand, cmd, faults>>
  /\ NoSubmission
  /\ UNCHANGED <<again, up, recovery, chain>>

-----------------------------------------------------------------------------
(* Handoff *)

HandMode(h) ==
  IF h = Drain THEN "plain" ELSE IF cmd[h].op = "send_now" THEN "interrupt" ELSE "steer"
HandExp(h) == IF HandMode(h) = "steer" THEN cmd[h].exp ELSE 0

\* Files are attached; a turn that started since the claim stops a plain handoff.
HandBegins(h, d) ==
  /\ hand[h].pc = "attach"
  /\ HandMode(h) = "plain" => ~InFlight
  /\ Begin(d, hand[h].id, hand[h].c, HandMode(h), HandExp(h))
  /\ hand' = [hand EXCEPT ![h].pc = "send", ![h].via = d]
  /\ UNCHANGED <<items, runtime, cmd, faults>>

\* That turn, missing bytes or a steer target of another agent: the handoff throws.
HandAborts(h) ==
  /\ hand[h].pc = "attach"
  /\ hand' = [hand EXCEPT ![h].pc = "review"]
  /\ NoSubmission
  /\ UNCHANGED <<items, runtime, cmd, faults>>

HandAnswered(h) ==
  LET d == hand[h].via IN
  /\ hand[h].pc = "send"
  /\ hand' = [hand EXCEPT ![h].pc = IF AtCall(d, "returned") THEN "confirm" ELSE "review",
                          ![h].via = Nobody]
  /\ Done(d)
  /\ UNCHANGED <<items, runtime, cmd, faults>>

\* Slip: the answer of the send counts as the proof.
HandTrusted(h) ==
  /\ hand[h].pc = "confirm"
  /\ hand' = [hand EXCEPT ![h].pc = "settle"]
  /\ NoSubmission
  /\ UNCHANGED <<items, runtime, cmd, faults>>

\* waitForDurableSubmittedMessage and the delivered check that follows it
HandConfirmed(h) ==
  /\ hand[h].pc = "confirm"
  /\ Durable(hand[h].id)
  /\ hand' = [hand EXCEPT ![h].pc = "settle"]
  /\ NoSubmission
  /\ UNCHANGED <<items, runtime, cmd, faults>>

\* Slip: only a run that failed ends the wait.
HandFailsOnly(h) ==
  /\ hand[h].pc = "confirm"
  /\ lifecycle = "error"
  /\ hand' = [hand EXCEPT ![h].pc = "review"]
  /\ NoSubmission
  /\ UNCHANGED <<items, runtime, cmd, faults>>

\* The run failed to start, or its start or its proof took longer than 60 s.
HandTimesOut(h) ==
  /\ hand[h].pc = "confirm"
  /\ hand' = [hand EXCEPT ![h].pc = "review"]
  /\ NoSubmission
  /\ UNCHANGED <<items, runtime, cmd, faults>>

\* InputQueueStore.settle, a no-op unless the item is sending
SettleWith(id, outcome) ==
  IF Held(id) /\ items[At(id)].state = "sending"
  THEN /\ Commit(IF outcome = "handed_off"
                 THEN Without(At(id))
                 ELSE [items EXCEPT ![At(id)].state = "needs_review"])
       /\ UNCHANGED faults
  ELSE UNCHANGED <<items, faults>>

\* The end of a handoff: the drain or the command that ran it goes on.
HandEnds(h, wakes) ==
  /\ hand' = [hand EXCEPT ![h] = IdleHand]
  /\ cmd' = IF h = Drain THEN Stale ELSE [Stale EXCEPT ![h] = IdleCmd]
  /\ IF h = Drain
     THEN drain' = "ending" /\ again' = (again \/ (wakes /\ up = "up"))
     ELSE IF wakes THEN Wake ELSE UNCHANGED <<drain, again>>

HandSettles(h) ==
  /\ hand[h].pc = "settle"
  /\ ChainFree
  /\ \/ /\ SettleWith(hand[h].id, "handed_off")
        /\ HandEnds(h, TRUE)
     \/ /\ WriteFails
        /\ hand' = [hand EXCEPT ![h].pc = "review"]
        /\ UNCHANGED <<drain, again, cmd>>
  /\ NoSubmission
  /\ UNCHANGED <<up, recovery, chain>>

\* The error path: the item is kept for a person; nobody wakes the drain.
HandReviews(h) ==
  /\ hand[h].pc = "review"
  /\ ChainFree
  /\ \/ SettleWith(hand[h].id, "unknown")
     \/ WriteFails
  /\ HandEnds(h, FALSE)
  /\ NoSubmission
  /\ UNCHANGED <<up, recovery, chain>>

-----------------------------------------------------------------------------
(* Commands *)

\* What a client asks: a draft where one is sent, the turn it saw for a steer, and whether the
\* snapshot it names is still the current one.
Requests(op) ==
  [pc : {"exec"}, op : {op},
   id : IF op = "fetch" THEN {NoId} ELSE Ids,
   c : IF op \in Drafting THEN Contents ELSE {NoContent},
   exp : IF op = "steer_now" THEN 1..turns ELSE {0},
   fresh : IF op = "enqueue" THEN {FALSE} ELSE BOOLEAN]

CommandBegins(p) ==
  /\ up = "up"
  /\ cmd[p] = IdleCmd
  /\ \E op \in Ops : \E request \in Requests(op) : cmd' = [cmd EXCEPT ![p] = request]
  /\ NoSubmission
  /\ UNCHANGED <<items, runtime, hand, faults>>

\* A command runs once recovery is over; failed recovery refuses it.
Executes(p, ops) ==
  /\ cmd[p].pc = "exec"
  /\ cmd[p].op \in ops
  /\ recovery = "done"
  /\ ChainFree

Reply(p) == cmd' = [cmd EXCEPT ![p] = IdleCmd]
ReplyCommitted(p) == cmd' = [Stale EXCEPT ![p] = IdleCmd]

CommandRefused(p) ==
  /\ cmd[p].pc = "exec"
  /\ recovery = "failed"
  /\ Reply(p)
  /\ NoSubmission
  /\ UNCHANGED <<items, runtime, hand, faults>>

\* A fetch that names the current revision is answered "unchanged" and wakes nothing.
Fetches(p) ==
  /\ Executes(p, {"fetch"})
  /\ IF cmd[p].fresh THEN UNCHANGED <<drain, again>> ELSE Wake
  /\ Reply(p)
  /\ NoSubmission
  /\ UNCHANGED <<items, up, recovery, chain, hand, faults>>

\* The ID is held or was delivered: same content is answered as accepted, other content refused.
EnqueueKnown(p) ==
  LET id == cmd[p].id
      same == cmd[p].c = IF Held(id) THEN items[At(id)].c ELSE digest[id]
  IN
  /\ Executes(p, {"enqueue"})
  /\ Held(id) \/ Durable(id)
  /\ IF same THEN Wake ELSE UNCHANGED <<drain, again>>
  /\ Reply(p)
  /\ NoSubmission
  /\ UNCHANGED <<items, up, recovery, chain, hand, faults>>

EnqueueFull(p) ==
  /\ Executes(p, {"enqueue"})
  /\ ~Held(cmd[p].id) /\ ~Durable(cmd[p].id)
  /\ Len(items) >= MaxItems
  /\ Reply(p)
  /\ NoSubmission
  /\ UNCHANGED <<items, runtime, hand, faults>>

\* Slip: the capacity is not looked at.
EnqueueBeyond(p) ==
  /\ Executes(p, {"enqueue"})
  /\ ~Held(cmd[p].id) /\ ~Durable(cmd[p].id)
  /\ chain' = p
  /\ cmd' = [cmd EXCEPT ![p].pc = "commit"]
  /\ NoSubmission
  /\ UNCHANGED <<items, up, recovery, drain, again, hand, faults>>

\* Slip: files are prepared outside the promise chain.
EnqueueUnchained(p) ==
  /\ Executes(p, {"enqueue"})
  /\ ~Held(cmd[p].id) /\ ~Durable(cmd[p].id)
  /\ Len(items) < MaxItems
  /\ cmd' = [cmd EXCEPT ![p].pc = "commit"]
  /\ NoSubmission
  /\ UNCHANGED <<items, runtime, hand, faults>>

\* The transcript does not have it: the files are prepared while the chain is held.
EnqueuePrepares(p) ==
  /\ Executes(p, {"enqueue"})
  /\ ~Held(cmd[p].id) /\ ~Durable(cmd[p].id)
  /\ Len(items) < MaxItems
  /\ chain' = p
  /\ cmd' = [cmd EXCEPT ![p].pc = "commit"]
  /\ NoSubmission
  /\ UNCHANGED <<items, up, recovery, drain, again, hand, faults>>

EnqueueCommits(p) ==
  /\ cmd[p].pc = "commit"
  /\ Commit(Append(items, Item(cmd[p].id, cmd[p].c, "queued")))
  /\ chain' = Nobody
  /\ ReplyCommitted(p)
  /\ Wake
  /\ NoSubmission
  /\ UNCHANGED <<up, recovery, hand, faults>>

\* A file of the draft is missing, too large or not the sender's, or the write failed.
EnqueueFails(p) ==
  /\ cmd[p].pc = "commit"
  /\ chain' = Nobody
  /\ Reply(p)
  /\ NoSubmission
  /\ UNCHANGED <<items, up, recovery, drain, again, hand, faults>>

\* Slip: an item under way can still be edited.
MutableWhileSending(p) ==
  /\ cmd[p].fresh
  /\ Held(cmd[p].id)
  /\ items[At(cmd[p].id)].state # "needs_review" \/ cmd[p].op = "discard"

\* InputQueueStore.mutate: revision, presence and state decide
Mutable(p) ==
  LET id == cmd[p].id IN
  /\ cmd[p].fresh
  /\ Held(id)
  /\ \/ items[At(id)].state = "queued"
     \/ items[At(id)].state = "needs_review" /\ cmd[p].op = "discard"

Mutated(p) ==
  LET i == At(cmd[p].id)
      edited == [items[i] EXCEPT !.c = cmd[p].c]
  IN CASE cmd[p].op = "update" -> [items EXCEPT ![i] = edited]
       [] cmd[p].op = "move_to_end" -> Append(Without(i), edited)
       [] OTHER -> Without(i)

Mutates(p) ==
  /\ Executes(p, {"update", "move_to_end", "delete", "discard"})
  /\ Mutable(p)
  /\ Commit(Mutated(p))
  /\ ReplyCommitted(p)
  /\ Wake
  /\ NoSubmission
  /\ UNCHANGED <<up, recovery, chain, hand, faults>>

\* A conflict, a file of the draft that cannot be kept, or a failed write.
MutateRefused(p) ==
  /\ Executes(p, {"update", "move_to_end", "delete", "discard"})
  /\ \/ /\ Mutable(p) => cmd[p].op \in Drafting
        /\ UNCHANGED <<items, faults>>
     \/ Mutable(p) /\ WriteFails
  /\ Reply(p)
  /\ NoSubmission
  /\ UNCHANGED <<runtime, hand>>

SendNow(p) ==
  /\ Executes(p, {"send_now", "steer_now"})
  /\ cmd[p].fresh
  /\ Held(cmd[p].id)
  /\ Claimable(At(cmd[p].id))
  /\ Claim(p, At(cmd[p].id))
  /\ cmd' = [Stale EXCEPT ![p].pc = "hand"]
  /\ NoSubmission
  /\ UNCHANGED <<runtime, faults>>

SendNowRefused(p) ==
  /\ Executes(p, {"send_now", "steer_now"})
  /\ \/ ~(cmd[p].fresh /\ Held(cmd[p].id) /\ Claimable(At(cmd[p].id))) /\ UNCHANGED <<items, faults>>
     \/ WriteFails
  /\ Reply(p)
  /\ NoSubmission
  /\ UNCHANGED <<runtime, hand>>

-----------------------------------------------------------------------------
(* Restart and shutdown *)

\* Slip: a claim without proof is queued again.
RecoversByReplay ==
  /\ recovery = "pending"
  /\ ChainFree
  /\ recovery' = "done"
  /\ Commit([i \in DOMAIN items |-> [items[i] EXCEPT !.state = IF @ = "sending" THEN "queued" ELSE @]])
  /\ Wake
  /\ NoSubmission
  /\ UNCHANGED <<up, chain, hand, cmd, faults>>

\* InputQueueStore.recover: a claim left by the last process is settled by proof, never replayed.
\* A proof that cannot be read counts as none.
Recovers ==
  /\ recovery = "pending"
  /\ ChainFree
  /\ \/ /\ Sending = {}
        /\ recovery' = "done"
        /\ UNCHANGED <<items, faults>>
     \/ \E i \in Sending :
          /\ \/ Durable(items[i].id) /\ Commit(Without(i))
             \/ Commit([items EXCEPT ![i].state = "needs_review"])
          /\ UNCHANGED <<recovery, faults>>
     \/ /\ Sending # {}
        /\ WriteFails
        /\ recovery' = "failed"
  /\ IF recovery' = "done" THEN Wake ELSE UNCHANGED <<drain, again>>
  /\ NoSubmission
  /\ UNCHANGED <<up, chain, hand, cmd>>

Stop ==
  /\ up = "up"
  /\ up' = "stopping"
  /\ NoSubmission
  /\ UNCHANGED <<items, recovery, drain, again, chain, hand, cmd, faults>>

\* Slip: stop does not wait for the drain.
StopBesidesDrain ==
  /\ up = "stopping"
  /\ recovery # "pending"
  /\ \A p \in Cmds : cmd[p] = IdleCmd
  /\ up' = "exited"
  /\ NoSubmission
  /\ UNCHANGED <<items, recovery, drain, again, chain, hand, cmd, faults>>

\* Slip: stop waits for an empty queue.
StopWhenEmpty ==
  /\ up = "stopping"
  /\ items = <<>>
  /\ drain = "none"
  /\ \A p \in Cmds : cmd[p] = IdleCmd
  /\ up' = "exited"
  /\ NoSubmission
  /\ UNCHANGED <<items, recovery, drain, again, chain, hand, cmd, faults>>

\* stop resolves once every command, the recovery and the drain have settled.
StopResolves ==
  /\ up = "stopping"
  /\ recovery # "pending"
  /\ drain = "none"
  /\ \A p \in Cmds : cmd[p] = IdleCmd
  /\ up' = "exited"
  /\ NoSubmission
  /\ UNCHANGED <<items, recovery, drain, again, chain, hand, cmd, faults>>

\* The process ends, by a crash or after stop, and the next one starts from queue.json.
Restart ==
  /\ Crash
  /\ up' = "up"
  /\ recovery' = "pending"
  /\ drain' = "none"
  /\ again' = FALSE
  /\ chain' = Nobody
  /\ hand' = [h \in Hands |-> IdleHand]
  /\ cmd' = [p \in Cmds |-> IdleCmd]
  /\ UNCHANGED <<items, faults>>

-----------------------------------------------------------------------------
\* A send beside the queue: a person's message interrupts or steers.
DirectSend(d) ==
  /\ \E id \in Ids, c \in Contents, mode \in DirectModes, exp \in 0..MaxTurns :
       Begin(d, id, c, mode, exp)
  /\ UNCHANGED queueVars
DirectDone(d) ==
  /\ \A h \in Hands : hand[h].via # d
  /\ Done(d)
  /\ UNCHANGED queueVars

QuietStep(d) == Quiet(d) /\ UNCHANGED queueVars
LoudStep(d) == Loud(d) /\ Wake /\ UNCHANGED <<items, up, recovery, chain, hand, cmd, faults>>
EventStep == AgentEvent /\ Wake /\ UNCHANGED <<items, up, recovery, chain, hand, cmd, faults>>

DrainStep == DrainChecks \/ DrainAsksReady \/ DrainClaims \/ DrainFinishes
HandStep(h) ==
  \/ \E d \in Callers : HandBegins(h, d)
  \/ HandAborts(h) \/ HandAnswered(h)
  \/ HandConfirmed(h) \/ HandTimesOut(h) \/ HandSettles(h) \/ HandReviews(h)
CommandStep(p) ==
  \/ CommandRefused(p) \/ Fetches(p)
  \/ EnqueueKnown(p) \/ EnqueueFull(p) \/ EnqueuePrepares(p) \/ EnqueueCommits(p) \/ EnqueueFails(p)
  \/ Mutates(p) \/ MutateRefused(p)
  \/ SendNow(p) \/ SendNowRefused(p)
QueueNext ==
  \/ \E d \in Callers : QuietStep(d) \/ LoudStep(d)
  \/ \E d \in Callers : DirectSend(d) \/ DirectDone(d)
  \/ EventStep
  \/ StopRefused /\ UNCHANGED queueVars
  \/ DrainStep
  \/ \E h \in Hands : HandStep(h)
  \/ \E p \in Cmds : CommandBegins(p) \/ CommandStep(p)
  \/ Recovers \/ Stop \/ StopResolves \/ Restart

QueueSpec == QueueInit /\ [][QueueNext]_vars

\* The daemon goes on wherever it can; a cancellation (DispatchFairness) and an operation of the
\* store are served in their turn, as the mutation queue and the promise chain are first-come.
\* Nothing is assumed of clients, of turns or of the provider: a drain must be woken by the code.
QueueFairness ==
  /\ \A d \in Callers :
       /\ WF_vars((QuietStep(d) \/ LoudStep(d)) /\ call'[d] # call[d])
       /\ SF_vars((QuietStep(d) \/ LoudStep(d)) /\ AtCall(d, "cancel") /\ call'[d] # call[d])
  /\ SF_vars(DrainStep)
  /\ \A h \in Hands : SF_vars(HandStep(h))
  /\ \A p \in Cmds : SF_vars(CommandStep(p))
  /\ WF_vars(Recovers)
  /\ WF_vars(StopResolves)

FairQueueSpec == QueueSpec /\ QueueFairness

-----------------------------------------------------------------------------
(* Properties *)

\* Every variable keeps its shape, and the queue its capacity.
QueueTypeOK ==
  /\ items \in Seq([id : Ids, c : Contents, state : DOMAIN Stage])
  /\ Len(items) <= MaxItems
  /\ chain \in Cmds \cup {Nobody}
  /\ up \in {"up", "stopping", "exited"}
  /\ recovery \in {"pending", "done", "failed"}
  /\ drain \in {"none", "check", "ready", "claim", "handoff", "ending"}
  /\ again \in BOOLEAN
  /\ hand \in [Hands -> [pc : HandPcs, id : Ids \cup {NoId}, c : Contents \cup {NoContent},
                       via : Callers \cup {Nobody}]]
  /\ cmd \in [Cmds -> [pc : CmdPcs, op : AllOps, id : Ids \cup {NoId},
                       c : Contents \cup {NoContent}, exp : Nat, fresh : BOOLEAN]]
  /\ faults \in Nat

\* No two items share an id, whatever clients enqueue at once: load() refuses such a snapshot for
\* good ("Queue snapshot contains duplicate identities").
UniqueIds == \A i, j \in DOMAIN items : items[i].id = items[j].id => i = j

\* One handoff at a time, by the drain or by send_now, also across restarts.
OneSending == Cardinality(Sending) <= 1

\* While an item is handed over it stays as it was claimed: no edit reaches what the agent is being
\* given, and the drain hands over the head.
HandOwnsItem ==
  \A h \in Hands : hand[h].pc # "none" =>
    \E i \in Sending :
      /\ items[i].id = hand[h].id
      /\ items[i].c = hand[h].c
      /\ h = Drain => i = 1

\* Stop resolves only after every handoff under way has been settled, unless a write failed.
CleanStop == up = "exited" /\ faults = 0 => Sending = {}

\* An item only goes forward: what was claimed is never queued again, and what needs review is not
\* claimed again, not even after a restart.
ForwardOnly ==
  [][\A i \in DOMAIN items, j \in DOMAIN items' :
       items'[j].id = items[i].id => Stage[items'[j].state] >= Stage[items[i].state]]_vars

\* An item leaves the queue when the transcript proves its handoff, or when a client removes an item
\* that is not being handed over.
KeptUntilHandedOff ==
  [][\A i \in DOMAIN items :
       (\A j \in DOMAIN items' : items'[j].id # items[i].id) =>
         \/ Durable(items[i].id)
         \/ /\ items[i].state # "sending"
            /\ \E p \in Cmds :
                 /\ cmd[p].pc = "exec"
                 /\ cmd[p].op \in {"delete", "discard"}
                 /\ cmd[p].id = items[i].id]_vars

\* No lost wakeup: a queued head does not wait for good on an agent that is ready.
NeverStuck == ~<>[](up = "up" /\ recovery = "done" /\ HeadQueued /\ Ready)

\* Every handoff is settled, whatever the provider does with it.
HandsSettle == \A h \in Hands : hand[h].pc # "none" ~> hand[h].pc = "none"

\* A daemon asked to stop its queue gets there, or is killed.
StopEnds == up = "stopping" ~> up # "stopping"
=============================================================================
