---------------------------- MODULE PromptDispatch ----------------------------
(***************************************************************************)
(* How one agent of the daemon takes a prompt: every surface (a client's   *)
(* send, the Host input queue, a notification) ends in sendPromptToAgent,  *)
(* which admits the logical message in a durable ledger, then starts,      *)
(* replaces or steers a provider turn, and finally records the canonical   *)
(* user row and marks the ledger entry applied.                            *)
(*                                                                         *)
(* The ledger and the rows are on disk; everything else is memory of the   *)
(* daemon and is lost in a crash.  A step of the model is the code between *)
(* two awaits.  Several calls run at once on the same agent.               *)
(***************************************************************************)
EXTENDS Naturals

CONSTANTS
  Ids,                \* logical message ids (clientMessageId)
  Contents,           \* prompts, as the ledger's digest tells them apart
  OutOfBandContents,  \* the prompts the provider runs as out-of-band commands
  Callers,            \* concurrent calls of sendPromptToAgent
  Autonomous,         \* owner of a turn the provider started by itself
  Nobody,             \* no tracked run
  NoContent,          \* the digest of a message never admitted
  NoId,               \* the message of an idle call
  MaxTurns,           \* bound: turns started in a behaviour
  MaxCrashes          \* bound: crashes of the daemon in a behaviour

ASSUME DispatchAssumption ==
  /\ OutOfBandContents \subseteq Contents
  /\ NoContent \notin Contents
  /\ NoId \notin Ids
  /\ Autonomous \notin Callers
  /\ Nobody \notin Callers \cup {Autonomous}
  /\ MaxTurns \in Nat
  /\ MaxCrashes \in Nat

VARIABLES
  ledger,     \* disk: state of the submission of each message
  digest,     \* disk: the content it was first admitted with
  row,        \* disk: the canonical user row of each message
  received,   \* history: how often the provider took each message
  seen,       \* history: the contents the provider took under each id
  call,       \* the calls of sendPromptToAgent under way
  fwd,        \* the stream forwarder a call left behind
  run,        \* owner of the run tracked for the agent, or Nobody
  turn,       \* the active turn: its number and its owner
  turns,      \* turns started so far
  lifecycle,  \* the agent's published lifecycle
  replacing,  \* agent.pendingReplacement
  crashes     \* crashes so far

disk == <<ledger, digest, row>>
history == <<received, seen>>
agent == <<run, turn, turns, lifecycle, replacing>>
dispatchVars == <<disk, history, call, fwd, agent, crashes>>

-----------------------------------------------------------------------------
Modes == {"plain", "interrupt", "steer"}
CallPcs == {"idle", "admit", "dispatch", "steering", "cancel", "replace", "withdraw",
            "row", "apply", "command", "returned", "failed"}
FwdPcs == {"none", "start", "reject", "withdraw", "row", "apply", "live"}
Owners == Callers \cup {Autonomous}
CallRecords ==
  [pc : CallPcs, id : Ids \cup {NoId}, c : Contents \cup {NoContent}, mode : Modes, exp : Nat]
FwdRecords == [pc : FwdPcs, id : Ids \cup {NoId}, c : Contents \cup {NoContent}, repl : BOOLEAN]

IdleCall == [pc |-> "idle", id |-> NoId, c |-> NoContent, mode |-> "plain", exp |-> 0]
IdleFwd == [pc |-> "none", id |-> NoId, c |-> NoContent, repl |-> FALSE]
NoTurn == [n |-> 0, by |-> Nobody]

\* hasInFlightRun
InFlight == lifecycle = "running" \/ turn # NoTurn \/ run # Nobody

\* hasDurableSubmittedMessage: applied admission plus its row proves handoff
Durable(id) == ledger[id] = "applied" /\ row[id] # "none"

\* Slip: replacing a run holds the mutation that cancelling it takes again.
MutatingWhileReplacing(d) == call[d].pc \in {"steering", "cancel"}

\* A steer holds the agent's foreground mutation until its row and its ledger entry are written;
\* cancelAgentRun takes the same lock.
Mutating(d) ==
  \/ call[d].pc = "steering"
  \/ call[d].pc \in {"row", "apply"} /\ call[d].c \notin OutOfBandContents
MutationFree == \A d \in Callers : ~Mutating(d)

\* A run tracked for a cancellation names no turn and ends with any.
RunOf == {turn.by, Autonomous}

\* The turn is past its start, so its terminal event reaches it.
Underway == turn # NoTurn /\ (turn.by \in Callers => fwd[turn.by].pc = "live")

AtCall(d, pc) == call[d].pc = pc
GoCall(d, pc) == call' = [call EXCEPT ![d].pc = pc]
GoFwd(d, pc) == fwd' = [fwd EXCEPT ![d].pc = pc]
EndFwd(d) == fwd' = [fwd EXCEPT ![d] = IdleFwd]
\* resolveTransition: a pending admission is resolved; what was resolved before is kept.
Resolve(id, outcome) == ledger' = [ledger EXCEPT ![id] = IF @ = "pending" THEN outcome ELSE @]
\* A settled start no longer holds the agent's run.
FinishRun(d) == run' = IF run = d THEN Nobody ELSE run
\* The active turn is closed, whoever owns it: a forwarder that follows it waits for good.
CloseTurn(d) ==
  /\ turn' = NoTurn
  /\ fwd' = [e \in Callers |-> IF e = d \/ (Underway /\ e = turn.by) THEN IdleFwd ELSE fwd[e]]
Receive(id, c) ==
  /\ received' = [received EXCEPT ![id] = @ + 1]
  /\ seen' = [seen EXCEPT ![id] = @ \cup {c}]

DispatchInit ==
  /\ ledger = [id \in Ids |-> "absent"]
  /\ digest = [id \in Ids |-> NoContent]
  /\ row = [id \in Ids |-> "none"]
  /\ received = [id \in Ids |-> 0]
  /\ seen = [id \in Ids |-> {}]
  /\ call = [d \in Callers |-> IdleCall]
  /\ fwd = [d \in Callers |-> IdleFwd]
  /\ run = Nobody
  /\ turn = NoTurn
  /\ turns = 0
  /\ lifecycle = "idle"
  /\ replacing = FALSE
  /\ crashes = 0

-----------------------------------------------------------------------------
(* Admission *)

\* A caller sends message id; a steer names the turn it saw (0: none).
Begin(d, id, c, mode, exp) ==
  /\ call[d] = IdleCall
  /\ fwd[d] = IdleFwd
  /\ mode # "steer" => exp = 0
  /\ exp <= turns
  /\ call' = [call EXCEPT ![d] = [pc |-> "admit", id |-> id, c |-> c, mode |-> mode, exp |-> exp]]
  /\ UNCHANGED <<disk, history, fwd, agent, crashes>>

\* The agent could not be loaded, or the admission could not be written.
AdmitFails(d) ==
  /\ AtCall(d, "admit")
  /\ GoCall(d, "failed")
  /\ UNCHANGED <<disk, history, fwd, agent, crashes>>

\* Slip: an unresolved attempt is admitted again.
AdmitAgain(d) ==
  LET id == call[d].id IN
  /\ AtCall(d, "admit")
  /\ ledger[id] = "absent" \/ (ledger[id] # "applied" /\ digest[id] = call[d].c)
  /\ ledger' = [ledger EXCEPT ![id] = "pending"]
  /\ digest' = [digest EXCEPT ![id] = call[d].c]
  /\ GoCall(d, "dispatch")
  /\ UNCHANGED <<row, history, fwd, agent, crashes>>

\* Slip: a withdrawn message is admitted again with any content.
AdmitOther(d) ==
  LET id == call[d].id IN
  /\ AtCall(d, "admit")
  /\ ledger[id] \in {"absent", "withdrawn"}
  /\ ledger' = [ledger EXCEPT ![id] = "pending"]
  /\ digest' = [digest EXCEPT ![id] = IF ledger[id] = "absent" THEN call[d].c ELSE @]
  /\ GoCall(d, "dispatch")
  /\ UNCHANGED <<row, history, fwd, agent, crashes>>

AdmitNew(d) ==
  LET id == call[d].id IN
  /\ AtCall(d, "admit")
  /\ \/ ledger[id] = "absent"
     \/ ledger[id] = "withdrawn" /\ digest[id] = call[d].c
  /\ ledger' = [ledger EXCEPT ![id] = "pending"]
  /\ digest' = [digest EXCEPT ![id] = call[d].c]
  /\ GoCall(d, "dispatch")
  /\ UNCHANGED <<row, history, fwd, agent, crashes>>

\* Already applied with the same content: the caller is answered without a dispatch.
AdmitKnown(d) ==
  LET id == call[d].id IN
  /\ AtCall(d, "admit")
  /\ ledger[id] = "applied"
  /\ digest[id] = call[d].c
  /\ GoCall(d, "returned")
  /\ UNCHANGED <<disk, history, fwd, agent, crashes>>

\* Another content under this id, or an attempt whose outcome is unknown.
AdmitRefused(d) ==
  LET id == call[d].id IN
  /\ AtCall(d, "admit")
  /\ \/ ledger[id] # "absent" /\ digest[id] # call[d].c
     \/ ledger[id] = "pending"
  /\ GoCall(d, "failed")
  /\ UNCHANGED <<disk, history, fwd, agent, crashes>>

-----------------------------------------------------------------------------
(* Dispatch *)

\* A plain error before the provider is reached: the submission stays pending.
DispatchFails(d) ==
  /\ AtCall(d, "dispatch")
  /\ GoCall(d, "failed")
  /\ UNCHANGED <<disk, history, fwd, agent, crashes>>

\* A command is recorded first and run afterwards.
OutOfBand(d) ==
  /\ AtCall(d, "dispatch")
  /\ call[d].c \in OutOfBandContents
  /\ GoCall(d, "row")
  /\ UNCHANGED <<disk, history, fwd, agent, crashes>>

\* The turn named is not the active one, or none was named while one runs.
SteerRefused(d) ==
  /\ AtCall(d, "dispatch")
  /\ call[d].c \notin OutOfBandContents
  /\ call[d].mode = "steer"
  /\ IF call[d].exp = 0 THEN InFlight ELSE call[d].exp # turn.n
  /\ GoCall(d, "withdraw")
  /\ UNCHANGED <<disk, history, fwd, agent, crashes>>

\* runSteerAdmission: the assertion that the turn is still the one named
SteerAdmitted(d) ==
  /\ AtCall(d, "dispatch")
  /\ call[d].c \notin OutOfBandContents
  /\ call[d].mode = "steer"
  /\ call[d].exp # 0
  /\ call[d].exp = turn.n
  /\ MutationFree
  /\ GoCall(d, "steering")
  /\ UNCHANGED <<disk, history, fwd, agent, crashes>>

SteerAccepted(d) ==
  /\ AtCall(d, "steering")
  /\ call[d].exp = turn.n
  /\ Receive(call[d].id, call[d].c)
  /\ GoCall(d, "row")
  /\ UNCHANGED <<disk, fwd, agent, crashes>>

\* The provider cannot steer this turn.
SteerUnavailable(d) ==
  /\ AtCall(d, "steering")
  /\ GoCall(d, "withdraw")
  /\ UNCHANGED <<disk, history, fwd, agent, crashes>>

\* Slip: any failure of the provider's steer counts as not delivered.
SteerFailsFree(d) ==
  /\ AtCall(d, "steering")
  /\ \/ Receive(call[d].id, call[d].c)
     \/ UNCHANGED history
  /\ GoCall(d, "withdraw")
  /\ UNCHANGED <<disk, fwd, agent, crashes>>

\* The provider call failed: it may or may not have taken the prompt.
SteerFails(d) ==
  /\ AtCall(d, "steering")
  /\ \/ Receive(call[d].id, call[d].c)
     \/ UNCHANGED history
  /\ GoCall(d, "failed")
  /\ UNCHANGED <<disk, fwd, agent, crashes>>

\* A refused prompt frees its message; a failed write leaves it pending.
Withdraw(d) ==
  LET id == call[d].id IN
  /\ AtCall(d, "withdraw")
  /\ \/ Resolve(id, "withdrawn")
     \/ UNCHANGED ledger
  /\ GoCall(d, "failed")
  /\ UNCHANGED <<digest, row, history, fwd, agent, crashes>>

\* streamAgent: one run at a time, and the call returns before the provider is asked.
Starting(d) ==
  \/ AtCall(d, "replace")
  \/ /\ AtCall(d, "dispatch")
     /\ call[d].c \notin OutOfBandContents
     /\ \/ call[d].mode = "plain"
        \/ call[d].mode = "interrupt" /\ ~InFlight
        \/ call[d].mode = "steer" /\ call[d].exp = 0 /\ ~InFlight

\* Slip: only the tracked run is looked at, not the active turn.
StreamOverTurn(d) ==
  /\ Starting(d)
  /\ run = Nobody
  /\ run' = d
  /\ fwd' = [fwd EXCEPT ![d] = [pc |-> "start", id |-> call[d].id, c |-> call[d].c,
                                repl |-> replacing]]
  /\ GoCall(d, "returned")
  /\ UNCHANGED <<disk, history, turn, turns, lifecycle, replacing, crashes>>

StreamAgent(d) ==
  /\ Starting(d)
  /\ run = Nobody
  /\ turn = NoTurn
  /\ run' = d
  /\ fwd' = [fwd EXCEPT ![d] = [pc |-> "start", id |-> call[d].id, c |-> call[d].c,
                                repl |-> replacing]]
  /\ GoCall(d, "returned")
  /\ UNCHANGED <<disk, history, turn, turns, lifecycle, replacing, crashes>>

\* Another run got there first: a plain error, so the submission stays pending.
StreamRefused(d) ==
  /\ Starting(d)
  /\ run # Nobody \/ turn # NoTurn
  /\ replacing' = (replacing /\ ~AtCall(d, "replace"))
  /\ GoCall(d, "failed")
  /\ UNCHANGED <<disk, history, fwd, run, turn, turns, lifecycle, crashes>>

\* replaceAgentRun: the agent is held busy while its run is cancelled.
ReplaceRun(d) ==
  /\ AtCall(d, "dispatch")
  /\ call[d].c \notin OutOfBandContents
  /\ call[d].mode = "interrupt"
  /\ InFlight
  /\ replacing' = TRUE
  /\ lifecycle' = "running"
  /\ GoCall(d, "cancel")
  /\ UNCHANGED <<disk, history, fwd, run, turn, turns, crashes>>

-----------------------------------------------------------------------------
(* Cancellation *)

\* A run is tracked, or the agent only says it is running and a run is tracked for the occasion.
Cancellable == run # Nobody \/ lifecycle = "running"

\* Slip: the cancelled run is cleared with the wrong empty value.
SettleToNoId ==
  /\ run' = NoId
  /\ turn' = IF Underway THEN NoTurn ELSE turn
  /\ fwd' = IF Underway /\ turn.by \in Callers THEN [fwd EXCEPT ![turn.by] = IdleFwd] ELSE fwd
  /\ lifecycle' = IF replacing THEN "running" ELSE "idle"

\* Slip: the waiters of the cancelled turn are not told.
SettleSilently ==
  /\ run' = Nobody
  /\ turn' = IF Underway THEN NoTurn ELSE turn
  /\ fwd' = fwd
  /\ lifecycle' = IF replacing THEN "running" ELSE "idle"

\* cancelAgentRunNow settles the tracked run.  A turn past its start ends; a start still waiting
\* for the provider, or still recording its prompt, loses its run and goes on by itself.
SettleRun ==
  /\ run' = Nobody
  /\ turn' = IF Underway THEN NoTurn ELSE turn
  /\ fwd' = IF Underway /\ turn.by \in Callers THEN [fwd EXCEPT ![turn.by] = IdleFwd] ELSE fwd
  /\ lifecycle' = IF ~replacing THEN "idle" ELSE IF Underway THEN "running" ELSE lifecycle

CancelSettles(d) ==
  /\ AtCall(d, "cancel")
  /\ MutationFree
  /\ IF Cancellable THEN SettleRun ELSE UNCHANGED <<run, turn, fwd, lifecycle>>
  /\ GoCall(d, "replace")
  /\ UNCHANGED <<disk, history, turns, replacing, crashes>>

\* The provider acknowledged no interrupt and the run did not settle: it stays tracked.
RefuseCancel ==
  /\ Cancellable
  /\ MutationFree
  /\ run' = IF run = Nobody THEN Autonomous ELSE run

CancelRefused(d) ==
  /\ AtCall(d, "cancel")
  /\ RefuseCancel
  /\ replacing' = FALSE
  /\ GoCall(d, "failed")
  /\ UNCHANGED <<disk, history, fwd, turn, turns, lifecycle, crashes>>

\* A person stops the run.
StopRun ==
  /\ Cancellable
  /\ MutationFree
  /\ SettleRun
  /\ UNCHANGED <<disk, history, call, turns, replacing, crashes>>
StopRefused ==
  /\ RefuseCancel
  /\ UNCHANGED <<disk, history, call, fwd, turn, turns, lifecycle, replacing, crashes>>

-----------------------------------------------------------------------------
(* The stream forwarder: session.startTurn, then the prompt's row, then its ledger entry *)

\* The start of a run that was cancelled meanwhile: the provider has the prompt, nobody waits.
StartOrphaned(d) ==
  /\ fwd[d].pc = "start"
  /\ run # d
  /\ \/ Receive(fwd[d].id, fwd[d].c)
     \/ UNCHANGED history
  /\ EndFwd(d)
  /\ UNCHANGED <<disk, call, agent, crashes>>

StartAccepted(d) ==
  /\ fwd[d].pc = "start"
  /\ run = d
  /\ turns < MaxTurns
  /\ Receive(fwd[d].id, fwd[d].c)
  /\ turns' = turns + 1
  /\ turn' = [n |-> turns + 1, by |-> d]
  /\ lifecycle' = "running"
  /\ replacing' = (replacing /\ ~fwd[d].repl)
  /\ GoFwd(d, "row")
  /\ UNCHANGED <<disk, call, run, crashes>>

\* A rejection that may have followed dispatch: the attempt stays in the transcript.
StartRejected(d) ==
  /\ fwd[d].pc = "start"
  /\ run = d
  /\ \/ Receive(fwd[d].id, fwd[d].c)
     \/ UNCHANGED history
  /\ replacing' = FALSE
  /\ GoFwd(d, "reject")
  /\ UNCHANGED <<disk, call, run, turn, turns, lifecycle, crashes>>

\* Slip: recording a rejected attempt also confirms its delivery.
RejectConfirms(d) ==
  /\ fwd[d].pc = "reject"
  /\ row' = [row EXCEPT ![fwd[d].id] = IF @ = "none" THEN "rejected" ELSE @]
  /\ Resolve(fwd[d].id, "applied")
  /\ CloseTurn(d)
  /\ FinishRun(d)
  /\ lifecycle' = "error"
  /\ UNCHANGED <<digest, history, call, turns, replacing, crashes>>

\* Once its row is written, the failure is applied to whatever turn the agent has by then.
RejectRecorded(d) ==
  /\ fwd[d].pc = "reject"
  /\ row' = [row EXCEPT ![fwd[d].id] = IF @ = "none" THEN "rejected" ELSE @]
  /\ CloseTurn(d)
  /\ run' = IF run = d \/ (Underway /\ run \in RunOf) THEN Nobody ELSE run
  /\ lifecycle' = "error"
  /\ UNCHANGED <<ledger, digest, history, call, turns, replacing, crashes>>

\* Slip: an error after dispatch is classified as not delivered.
StartMaybeDelivered(d) ==
  /\ fwd[d].pc = "start"
  /\ Receive(fwd[d].id, fwd[d].c)
  /\ GoFwd(d, "withdraw")
  /\ UNCHANGED <<disk, call, agent, crashes>>

\* PromptNotDeliveredError: the provider provably never had the prompt.
StartNotDelivered(d) ==
  /\ fwd[d].pc = "start"
  /\ GoFwd(d, "withdraw")
  /\ UNCHANGED <<disk, history, call, agent, crashes>>

\* The message is freed before the failed start is visible.
StartWithdraws(d) ==
  LET id == fwd[d].id IN
  /\ fwd[d].pc = "withdraw"
  /\ \/ Resolve(id, "withdrawn")
     \/ UNCHANGED ledger
  /\ EndFwd(d)
  /\ FinishRun(d)
  /\ replacing' = (replacing /\ run # d)
  /\ lifecycle' = IF run = d THEN "error" ELSE lifecycle
  /\ UNCHANGED <<digest, row, history, call, turn, turns, crashes>>

\* The prompt is recorded: the forwarder follows its turn, if that is still the active one.
Follow(d) == IF turn.by = d THEN GoFwd(d, "live") ELSE EndFwd(d)

\* recordSubmittedPrompt returns early when the row is there already.
RecordRow(d) ==
  LET id == fwd[d].id IN
  /\ fwd[d].pc = "row"
  /\ row' = [row EXCEPT ![id] = IF @ = "none" THEN "accepted" ELSE @]
  /\ IF row[id] = "none" THEN GoFwd(d, "apply") ELSE Follow(d)
  /\ UNCHANGED <<ledger, digest, history, call, agent, crashes>>

RecordApplied(d) ==
  LET id == fwd[d].id IN
  /\ fwd[d].pc = "apply"
  /\ ledger[id] \in {"pending", "applied"}
  /\ Resolve(id, "applied")
  /\ Follow(d)
  /\ UNCHANGED <<digest, row, history, call, agent, crashes>>

\* handleAcceptedPromptFailure: the turn is interrupted, or stays as an autonomous run.
RecordFails(d) ==
  /\ fwd[d].pc \in {"row", "apply"}
  /\ \/ /\ CloseTurn(d)
        /\ FinishRun(d)
        /\ lifecycle' = IF replacing THEN "running" ELSE "idle"
     \/ /\ EndFwd(d)
        /\ run' = IF run \in {d, Nobody} THEN Autonomous ELSE run
        /\ turn' = IF turn.by = d THEN [turn EXCEPT !.by = Autonomous] ELSE turn
        /\ UNCHANGED lifecycle
  /\ UNCHANGED <<disk, history, call, turns, replacing, crashes>>

\* The same two writes for a steer or a command, inside the call.
CallRow(d) ==
  LET id == call[d].id
      after == IF call[d].c \in OutOfBandContents THEN "command" ELSE "returned"
  IN
  /\ AtCall(d, "row")
  /\ row' = [row EXCEPT ![id] = IF @ = "none" THEN "accepted" ELSE @]
  /\ GoCall(d, IF row[id] = "none" THEN "apply" ELSE after)
  /\ UNCHANGED <<ledger, digest, history, fwd, agent, crashes>>

CallApplied(d) ==
  LET id == call[d].id IN
  /\ AtCall(d, "apply")
  /\ ledger[id] \in {"pending", "applied"}
  /\ Resolve(id, "applied")
  /\ GoCall(d, IF call[d].c \in OutOfBandContents THEN "command" ELSE "returned")
  /\ UNCHANGED <<digest, row, history, fwd, agent, crashes>>

CallRecordFails(d) ==
  /\ call[d].pc \in {"row", "apply"}
  /\ GoCall(d, "failed")
  /\ UNCHANGED <<disk, history, fwd, agent, crashes>>

RunCommand(d) ==
  /\ AtCall(d, "command")
  /\ Receive(call[d].id, call[d].c)
  /\ GoCall(d, "returned")
  /\ UNCHANGED <<disk, fwd, agent, crashes>>

-----------------------------------------------------------------------------
(* The caller, the provider and the process *)

\* The caller takes the answer.
Done(d) ==
  /\ call[d].pc \in {"returned", "failed"}
  /\ call' = [call EXCEPT ![d] = IdleCall]
  /\ UNCHANGED <<disk, history, fwd, agent, crashes>>

\* Events of the provider wait behind the barrier of a steer.
TurnEnds(failed) ==
  /\ Underway
  /\ MutationFree
  /\ turn' = NoTurn
  /\ run' = IF run \in RunOf THEN Nobody ELSE run
  /\ fwd' = IF turn.by \in Callers THEN [fwd EXCEPT ![turn.by] = IdleFwd] ELSE fwd
  /\ lifecycle' = IF failed THEN "error" ELSE IF replacing THEN "running" ELSE "idle"
  /\ UNCHANGED <<disk, history, call, turns, replacing, crashes>>

\* The provider starts a turn by itself.
AutonomousTurn ==
  /\ run \in {Nobody, Autonomous}
  /\ turn = NoTurn
  /\ MutationFree
  /\ turns < MaxTurns
  /\ run' = Autonomous
  /\ turn' = [n |-> turns + 1, by |-> Autonomous]
  /\ turns' = turns + 1
  /\ lifecycle' = "running"
  /\ UNCHANGED <<disk, history, call, fwd, replacing, crashes>>

\* The daemon dies and starts again; the ledger and the rows survive.
Crash ==
  /\ crashes < MaxCrashes
  /\ crashes' = crashes + 1
  /\ call' = [d \in Callers |-> IdleCall]
  /\ fwd' = [d \in Callers |-> IdleFwd]
  /\ run' = Nobody
  /\ turn' = NoTurn
  /\ lifecycle' = "idle"
  /\ replacing' = FALSE
  /\ UNCHANGED <<disk, history, turns>>

-----------------------------------------------------------------------------
\* Steps that publish an agent_state or agent_stream event, and steps that publish none.
Loud(d) ==
  \/ ReplaceRun(d) \/ CancelSettles(d)
  \/ StartAccepted(d) \/ RejectRecorded(d)
  \/ StartWithdraws(d) /\ run = d
  \/ RecordRow(d) \/ RecordApplied(d) \/ RecordFails(d)
  \/ CallRow(d) \/ CallApplied(d) \/ RunCommand(d)
Quiet(d) ==
  \/ AdmitFails(d) \/ AdmitNew(d) \/ AdmitKnown(d) \/ AdmitRefused(d)
  \/ DispatchFails(d) \/ OutOfBand(d)
  \/ SteerRefused(d) \/ SteerAdmitted(d) \/ SteerAccepted(d) \/ SteerUnavailable(d) \/ SteerFails(d)
  \/ Withdraw(d)
  \/ StreamAgent(d) \/ StreamRefused(d) \/ CancelRefused(d)
  \/ StartOrphaned(d) \/ StartRejected(d) \/ StartNotDelivered(d)
  \/ StartWithdraws(d) /\ run # d
  \/ CallRecordFails(d)
AgentEvent == StopRun \/ AutonomousTurn \/ \E failed \in BOOLEAN : TurnEnds(failed)

Send(d) ==
  \E id \in Ids, c \in Contents, mode \in Modes, exp \in 0..MaxTurns : Begin(d, id, c, mode, exp)

DispatchNext ==
  \/ \E d \in Callers : Send(d) \/ Done(d) \/ Loud(d) \/ Quiet(d)
  \/ AgentEvent
  \/ StopRefused
  \/ Crash

DispatchSpec == DispatchInit /\ [][DispatchNext]_dispatchVars

\* What the daemon itself does for a call: every step of it but the send that begins it.
CallStep(d) == (Loud(d) \/ Quiet(d)) /\ call'[d] # call[d]

\* A call goes on whenever it can.  Cancellation waits its turn in a first-come queue of foreground
\* mutations, so a call that waits for it is served once the mutations before it are over.  Nothing
\* is assumed of forwarders, of turns or of their provider: startTurn may stay pending for good.
DispatchFairness ==
  \A d \in Callers :
    /\ WF_dispatchVars(CallStep(d))
    /\ SF_dispatchVars(CancelSettles(d) \/ CancelRefused(d))
    /\ WF_dispatchVars(Done(d))

FairDispatchSpec == DispatchSpec /\ DispatchFairness

-----------------------------------------------------------------------------
(* Properties *)

\* Every variable keeps its shape.
DispatchTypeOK ==
  /\ ledger \in [Ids -> {"absent", "pending", "withdrawn", "applied"}]
  /\ digest \in [Ids -> Contents \cup {NoContent}]
  /\ row \in [Ids -> {"none", "accepted", "rejected"}]
  /\ received \in [Ids -> Nat]
  /\ seen \in [Ids -> SUBSET Contents]
  /\ call \in [Callers -> CallRecords]
  /\ fwd \in [Callers -> FwdRecords]
  /\ run \in Owners \cup {Nobody}
  /\ turn \in [n : Nat, by : Owners \cup {Nobody}]
  /\ turns \in Nat
  /\ lifecycle \in {"idle", "running", "error"}
  /\ replacing \in BOOLEAN
  /\ crashes \in Nat

\* However many calls carry it, and whatever fails or crashes between admission, dispatch and
\* recording, the provider is given a logical message at most once.
AtMostOnce == \A id \in Ids : received[id] <= 1

\* Only a message the provider never had is freed for another attempt, and it left no row.
WithdrawnUnseen == \A id \in Ids : ledger[id] = "withdrawn" => received[id] = 0 /\ row[id] = "none"

\* What the provider is given under an id is what the ledger holds for it, also when other calls
\* send other contents under the same id.
OneContent == \A id \in Ids : seen[id] \subseteq {digest[id]}

\* hasDurableSubmittedMessage proves a handoff: the provider took the message and its row says
\* accepted.  A command is recorded before it runs, so for a command it proves only admission.
HandoffProof ==
  \A id \in Ids :
    Durable(id) /\ digest[id] \notin OutOfBandContents => received[id] = 1 /\ row[id] = "accepted"

\* The run tracked for an agent, its active turn and the forwarder that follows it are the same one.
OneTurn ==
  /\ \A d \in Callers : fwd[d].pc = "live" => turn.by = d
  /\ run # Nobody /\ turn # NoTurn => run \in RunOf

\* A turn ends before the next begins: no start takes the place of an active turn.
TurnKept == [][turn # NoTurn => turn' = NoTurn \/ turn'.n = turn.n]_dispatchVars

\* The dispatch implements once-only delivery.
Once == INSTANCE OnceDelivery
  WITH Ids <- Ids, Contents <- Contents, NoContent <- NoContent,
       ledger <- ledger, digest <- digest, received <- received
OnceImpl == Once!OnceSpec

\* A send is answered, even if the provider never settles a start or ends a turn: calls never wait
\* on one another for good, at the ledger, at the run slot or at the lock of foreground mutations.
CallsAnswered == \A d \in Callers : call[d].pc # "idle" ~> call[d].pc = "idle"

\* An agent shown as running has a run, a turn, or a call that is replacing one
\* (docs/agent-lifecycle.md:114).
NotHeldForNothing ==
  lifecycle = "running" =>
    run # Nobody \/ turn # NoTurn \/ \E d \in Callers : call[d].pc \in {"cancel", "replace"}

\* While a replacement waits for its turn, what is left of an older run does not end the running
\* state (the test "replaceAgentRun stays running when a stale old terminal arrives ...").
StaysRunning ==
  [][\A d \in Callers :
       lifecycle = "running" /\ run = d /\ run' = d /\ fwd[d].pc = "start" /\ fwd'[d] = fwd[d]
         => lifecycle' = "running"]_dispatchVars
=============================================================================
