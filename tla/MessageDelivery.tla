--------------------------- MODULE MessageDelivery ---------------------------
(***************************************************************************)
(* A message on its way from an app to a provider: the app's outbox, its   *)
(* delivery lane for one agent, the Host's message receipts and the        *)
(* submission ledger.  The app sends again whatever it is not sure of; the *)
(* Host recognises it by its id.  The dispatch behind a receipt is taken   *)
(* from OnceDelivery, the promise PromptDispatch is shown to keep.         *)
(*                                                                         *)
(* The turn a steer names is a choice: what the app knows of the agent's   *)
(* turn is not modelled, nor is the turn itself.  An image may be encoded  *)
(* differently after the app restarted.  Handing the parts of a first      *)
(* attempt to the Host queue is left to InputQueue.                        *)
(***************************************************************************)
EXTENDS Naturals, Sequences, Functions

CONSTANTS
  NumMessages,  \* messages of this app to the agent, in the order they are pressed
  Parts,        \* how many parts each is split into; the last one carries its text and its id
  Steers,       \* those sent as a steer
  Turns,        \* turns a steer may name
  NoTurn,
  Encodings,    \* how the bytes of an image may turn out
  NoEncoding,
  MaxAsks,      \* bound: requests of this app the Host handles at once
  MaxFaults     \* bound: lost connections, crashes, restarts and presses of Retry

Messages == 1..NumMessages

ASSUME DeliveryAssumption ==
  /\ NumMessages \in Nat
  /\ MaxAsks \in Nat
  /\ MaxFaults \in Nat
  /\ Parts \in [Messages -> Nat \ {0}]
  /\ Steers \subseteq Messages
  /\ NoTurn \notin Turns
  /\ NoEncoding \notin Encodings

VARIABLES
  outbox,    \* the persisted entry of each message
  lane,      \* deliveries under way, in press order; the first one is being attempted
  attempt,   \* the attempt at the first: the part it is at and the request it waits for
  encoding,  \* how this run of the app encodes images
  online,    \* the app is connected
  ask,       \* the Host's handlers of requests
  receipt,   \* receipts on the Host's disk
  ledger, digest, received,  \* the submission ledger and the provider, as in OnceDelivery
  faults     \* faults so far

once == <<ledger, digest, received>>
deliveryVars == <<outbox, lane, attempt, encoding, online, ask, receipt, once, faults>>

\* What goes over the wire is one part.
Wire == UNION {{m} \X (1..Parts[m]) : m \in Messages}
Text(m) == <<m, Parts[m]>>
Slots == 1..MaxAsks
Names == Turns \cup {NoTurn}

\* An entry is there from the press until the message left: sent, or deleted by its user.
Kept == {"sending", "waiting", "refused"}
OutboxStates == Kept \cup {"unpressed", "sent", "deleted"}

Answers == {"none", "ok", "held", "unknown", "target", "refused"}
NoAsk == [pc |-> "none", what |-> <<0, 0>>, turn |-> NoTurn, encoding |-> NoEncoding, answer |-> "none"]
AskRecords ==
  [pc : {"arrived", "dispatch", "given", "taken", "finish", "free", "done"},
   what : Wire, turn : Names, encoding : Encodings, answer : Answers]
NoReceipt == [state |-> "absent", turn |-> NoTurn, encoding |-> NoEncoding]
Receipts == [state : {"pending", "completed"}, turn : Names, encoding : Encodings]
\* slot 0: no request under way.
FreshAttempt == [part |-> 1, slot |-> 0, again |-> FALSE]

Once ==
  INSTANCE OnceDelivery
    WITH Ids <- Wire, Contents <- Encodings, NoContent <- NoEncoding,
         ledger <- ledger, digest <- digest, received <- received

DeliveryInit ==
  /\ outbox = [m \in Messages |-> "unpressed"]
  /\ lane = <<>>
  /\ attempt = FreshAttempt
  /\ encoding \in Encodings
  /\ online = TRUE
  /\ ask = [a \in Slots |-> NoAsk]
  /\ receipt = [w \in Wire |-> NoReceipt]
  /\ Once!OnceInit
  /\ faults = 0

-----------------------------------------------------------------------------
(* The app: outbox and lane *)

\* A press is shown and persisted at once; its delivery joins the lane.
Press(m) ==
  /\ outbox[m] = "unpressed"
  /\ \A l \in 1..(m - 1) : outbox[l] # "unpressed"
  /\ outbox' = [outbox EXCEPT ![m] = "sending"]
  /\ lane' = Append(lane, m)
  /\ UNCHANGED <<attempt, encoding, online, ask, receipt, once, faults>>

\* The attempt at the head is over.  An entry that left meanwhile shows nothing any more.
Settle(state) ==
  LET m == Head(lane) IN
  /\ outbox' = IF outbox[m] \in Kept THEN [outbox EXCEPT ![m] = state] ELSE outbox
  /\ lane' = Tail(lane)
  /\ attempt' = FreshAttempt

Ready == lane # <<>> /\ attempt.slot = 0

\* Slip: a message that cannot leave counts as sent.
UnreachableIsSent ==
  /\ Ready
  /\ ~online
  /\ Settle("sent")
  /\ UNCHANGED <<encoding, online, ask, receipt, once, faults>>

\* There is no client for the Host, so nothing leaves the device.
Unreachable ==
  /\ Ready
  /\ ~online
  /\ Settle("waiting")
  /\ UNCHANGED <<encoding, online, ask, receipt, once, faults>>

\* The part at hand goes to the Host.  A steer names the turn the app knows; a steer that was
\* refused for its turn names none the second time.
SendPart ==
  LET m == Head(lane)
      part == <<m, attempt.part>> IN
  /\ Ready
  /\ online
  /\ \E a \in Slots, n \in Names :
       /\ n # NoTurn => m \in Steers /\ ~attempt.again
       /\ ask[a] = NoAsk
       /\ \A b \in 1..(a - 1) : ask[b] # NoAsk
       /\ ask' = [ask EXCEPT ![a] =
            [pc |-> "arrived", what |-> part, turn |-> n, encoding |-> encoding, answer |-> "none"]]
       /\ attempt' = [attempt EXCEPT !.slot = a]
  /\ UNCHANGED <<outbox, lane, encoding, online, receipt, once, faults>>

\* The app no longer waits for the request of this attempt.  A handler that has ended is gone.
Released == [ask EXCEPT ![attempt.slot] = IF @.pc = "done" THEN NoAsk ELSE @]

Answered(kind) ==
  /\ lane # <<>>
  /\ attempt.slot # 0
  /\ online
  /\ ask[attempt.slot].answer = kind
  /\ ask' = Released
  /\ UNCHANGED <<encoding, online, receipt, once, faults>>

\* Slips: the last part is forgotten to be the last; an id the Host holds counts as an accepted part.
PartAlwaysFollowed ==
  /\ Answered("ok")
  /\ attempt' = [FreshAttempt EXCEPT !.part = attempt.part + 1]
  /\ UNCHANGED <<outbox, lane>>
HeldIsAccepted ==
  /\ Answered("held")
  /\ IF attempt.part < Parts[Head(lane)]
     THEN /\ attempt' = [FreshAttempt EXCEPT !.part = attempt.part + 1]
          /\ UNCHANGED <<outbox, lane>>
     ELSE Settle("sent")

\* A part was accepted: the next one is sent, and after the last the entry leaves.
PartAccepted ==
  /\ Answered("ok")
  /\ IF attempt.part < Parts[Head(lane)]
     THEN /\ attempt' = [FreshAttempt EXCEPT !.part = attempt.part + 1]
          /\ UNCHANGED <<outbox, lane>>
     ELSE Settle("sent")

\* The Host holds the id with another content: counted as sent, unless this was the second try of
\* a refused steer, whose first error stands.
IdHeld ==
  /\ Answered("held")
  /\ Settle(IF attempt.again THEN "refused" ELSE "sent")

\* Refused for its turn: once the agent looks idle it is sent again naming none, else given up.
TargetRefused ==
  /\ Answered("target")
  /\ \/ /\ ~attempt.again
        /\ attempt' = [attempt EXCEPT !.slot = 0, !.again = TRUE]
        /\ UNCHANGED <<outbox, lane>>
     \/ Settle("refused")

\* Every other error of the Host, also one that says the outcome of an earlier attempt is unknown.
Refused ==
  /\ Answered("refused") \/ Answered("unknown")
  /\ Settle("refused")

\* No answer within the RPC timeout.  The Host may still be at it.
AskTimesOut ==
  /\ lane # <<>>
  /\ attempt.slot # 0
  /\ Settle("waiting")
  /\ ask' = Released
  /\ UNCHANGED <<encoding, online, receipt, once, faults>>

\* The timeline shows the message: its entry leaves, whatever the request reports.
RowArrives(m) ==
  /\ online
  /\ outbox[m] \in Kept
  /\ received[Text(m)] = 1
  /\ outbox' = [outbox EXCEPT ![m] = "sent"]
  /\ UNCHANGED <<lane, attempt, encoding, online, ask, receipt, once, faults>>

\* The user deletes an entry; a delivery under way goes on.
Discard(m) ==
  /\ outbox[m] \in Kept
  /\ outbox' = [outbox EXCEPT ![m] = "deleted"]
  /\ UNCHANGED <<lane, attempt, encoding, online, ask, receipt, once, faults>>

Fault == faults < MaxFaults /\ faults' = faults + 1

\* The user sends an entry again, under its id.
RetrySend(m) ==
  /\ Fault
  /\ outbox[m] \in Kept
  /\ m \notin Range(lane)
  /\ outbox' = [outbox EXCEPT ![m] = "sending"]
  /\ lane' = Append(lane, m)
  /\ UNCHANGED <<attempt, encoding, online, ask, receipt, once>>

\* Slips: only what was cut off is due, or only what waits.
DueInterrupted == {m \in Messages : outbox[m] = "sending" /\ m \notin Range(lane)}
DueWaiting == {m \in Messages : outbox[m] = "waiting" /\ m \notin Range(lane)}
\* Entries to send again when the Host comes back: those cut off in the middle and those waiting.
Due == {m \in Messages : outbox[m] \in {"sending", "waiting"} /\ m \notin Range(lane)}

\* A set of messages in the order they were pressed.
InPressOrder(S) ==
  {s \in UNION {[1..n -> S] : n \in 0..NumMessages} :
     Range(s) = S /\ \A i, j \in DOMAIN s : i < j => s[i] < s[j]}

Reconnect ==
  /\ ~online
  /\ online' = TRUE
  /\ outbox' = [m \in Messages |-> IF m \in Due THEN "sending" ELSE outbox[m]]
  /\ \E s \in InPressOrder(Due) : lane' = lane \o s
  /\ UNCHANGED <<attempt, encoding, ask, receipt, once, faults>>

\* A pending request fails with the connection; what is being prepared goes on.
Disconnect ==
  /\ online
  /\ online' = FALSE
  /\ IF attempt.slot # 0 THEN Settle("waiting") ELSE UNCHANGED <<outbox, lane, attempt>>

LoseConnection ==
  /\ Fault
  /\ Disconnect
  /\ ask' = IF attempt.slot # 0 THEN Released ELSE ask
  /\ UNCHANGED <<encoding, receipt, once>>

\* Only the persisted entries survive.  Nothing says that images are encoded as before.
AppRestart ==
  /\ Fault
  /\ online' = FALSE
  /\ lane' = <<>>
  /\ attempt' = FreshAttempt
  /\ encoding' \in Encodings
  /\ ask' = IF attempt.slot # 0 THEN Released ELSE ask
  /\ UNCHANGED <<outbox, receipt, once>>

-----------------------------------------------------------------------------
(* The Host: receipts around the dispatch *)

At(a, pc) == ask[a].pc = pc

\* The handler goes on; it has ended once its dispatch is over and nobody waits for its answer.
Go(a, pc, answer) ==
  ask' = [ask EXCEPT ![a] =
    IF pc = "done" /\ attempt.slot # a THEN NoAsk ELSE [@ EXCEPT !.pc = pc, !.answer = answer]]

HostStep == UNCHANGED <<outbox, lane, attempt, encoding, online, faults>>

\* Requests with one key are chained: the next begins when the one before it has its answer.
Busy(w) ==
  \E b \in Slots : ask[b].what = w /\ ask[b].answer = "none" /\ ask[b].pc \in {"dispatch", "given", "taken", "finish", "free"}

\* The receipt is looked up first.
Begins(a, held) ==
  /\ At(a, "arrived")
  /\ ~Busy(ask[a].what)
  /\ held <=> receipt[ask[a].what] # NoReceipt
  /\ HostStep

SameRequest(a) ==
  LET r == receipt[ask[a].what] IN r.turn = ask[a].turn /\ r.encoding = ask[a].encoding

ReceiptAnswers(a) ==
  LET r == receipt[ask[a].what] IN
  /\ Begins(a, TRUE)
  /\ \/ ~SameRequest(a) /\ Go(a, "done", "held")
     \/ SameRequest(a) /\ r.state = "completed" /\ Go(a, "done", "ok")
     \/ SameRequest(a) /\ r.state = "pending" /\ Go(a, "done", "unknown")
  /\ UNCHANGED <<receipt, once>>

\* The agent could not be loaded: there is no receipt yet.
PrepareFails(a) ==
  /\ Begins(a, FALSE)
  /\ Go(a, "done", "refused")
  /\ UNCHANGED <<receipt, once>>

WritePending(a) ==
  /\ Begins(a, FALSE)
  /\ receipt' = [receipt EXCEPT ![ask[a].what] =
       [state |-> "pending", turn |-> ask[a].turn, encoding |-> ask[a].encoding]]
  /\ Go(a, "dispatch", "none")
  /\ UNCHANGED once

Admitted(a) ==
  /\ At(a, "dispatch")
  /\ Once!Admit(ask[a].what, ask[a].encoding)
  /\ Go(a, "given", "none")
  /\ UNCHANGED receipt /\ HostStep

\* The ledger knows the message as applied, or refuses it.
NotAdmitted(a) ==
  LET w == ask[a].what IN
  /\ At(a, "dispatch")
  /\ \/ ledger[w] = "applied" /\ digest[w] = ask[a].encoding /\ Go(a, "finish", "none")
     \/ ledger[w] = "pending" /\ Go(a, "done", "refused")
     \/ ledger[w] # "absent" /\ digest[w] # ask[a].encoding /\ Go(a, "done", "refused")
  /\ UNCHANGED <<receipt, once>> /\ HostStep

\* The caller gets an error while the provider is still asked: a start that takes too long.
AnswersEarly(a) ==
  /\ At(a, "given")
  /\ ask[a].answer = "none"
  /\ Go(a, "given", "refused")
  /\ UNCHANGED <<receipt, once>> /\ HostStep

Takes(a) ==
  /\ At(a, "given")
  /\ Once!Deliver(ask[a].what)
  /\ Go(a, "taken", ask[a].answer)
  /\ UNCHANGED receipt /\ HostStep

\* Neither taken nor known not to be: the submission stays pending.
Fails(a) ==
  /\ At(a, "given")
  /\ Go(a, "done", IF ask[a].answer = "none" THEN "refused" ELSE ask[a].answer)
  /\ UNCHANGED <<receipt, once>> /\ HostStep

\* PromptNotDeliveredError: the submission is withdrawn, or that write fails.
NotDelivered(a) ==
  /\ At(a, "given")
  /\ Once!Free(ask[a].what) \/ UNCHANGED once
  /\ IF ask[a].answer = "none" THEN Go(a, "free", "none") ELSE Go(a, "done", ask[a].answer)
  /\ UNCHANGED receipt /\ HostStep

Records(a) ==
  /\ At(a, "taken")
  /\ Once!Confirm(ask[a].what)
  /\ IF ask[a].answer = "none" THEN Go(a, "finish", "none") ELSE Go(a, "done", ask[a].answer)
  /\ UNCHANGED receipt /\ HostStep

RecordingFails(a) ==
  /\ At(a, "taken")
  /\ Go(a, "done", IF ask[a].answer = "none" THEN "refused" ELSE ask[a].answer)
  /\ UNCHANGED <<receipt, once>> /\ HostStep

\* Slip: whatever the error, the receipt is removed.
FreeAnyReceipt(a) ==
  /\ At(a, "free") \/ At(a, "taken")
  /\ receipt' = [receipt EXCEPT ![ask[a].what] = NoReceipt]
  /\ Go(a, "done", "refused")
  /\ UNCHANGED once /\ HostStep

\* The receipt of an undelivered message is removed, and the message may be sent again.
FreeReceipt(a) ==
  /\ At(a, "free")
  /\ receipt' = [receipt EXCEPT ![ask[a].what] = NoReceipt]
  /\ Go(a, "done", "refused") \/ (ask[a].what[1] \in Steers /\ Go(a, "done", "target"))
  /\ UNCHANGED once /\ HostStep

Completes(a) ==
  /\ At(a, "finish")
  /\ receipt' = [receipt EXCEPT ![ask[a].what] = [@ EXCEPT !.state = "completed"]]
  /\ Go(a, "done", "ok")
  /\ UNCHANGED once /\ HostStep

\* The receipt's file cannot be removed, or cannot be written.
ReceiptWriteFails(a) ==
  /\ At(a, "free") \/ At(a, "finish")
  /\ Go(a, "done", "refused")
  /\ UNCHANGED <<receipt, once>> /\ HostStep

\* Receipts and ledger survive; the handlers and the connections do not.
HostCrash ==
  /\ Fault
  /\ online' = FALSE
  /\ IF attempt.slot # 0 THEN Settle("waiting") ELSE UNCHANGED <<outbox, lane, attempt>>
  /\ ask' = [a \in Slots |-> NoAsk]
  /\ UNCHANGED <<encoding, receipt, once>>

HandlerNext(a) ==
  \/ ReceiptAnswers(a) \/ PrepareFails(a) \/ WritePending(a)
  \/ Admitted(a) \/ NotAdmitted(a) \/ AnswersEarly(a)
  \/ Takes(a) \/ Fails(a) \/ NotDelivered(a) \/ Records(a) \/ RecordingFails(a)
  \/ FreeReceipt(a) \/ Completes(a) \/ ReceiptWriteFails(a)

AttemptNext == Unreachable \/ SendPart \/ PartAccepted \/ IdHeld \/ TargetRefused \/ Refused \/ AskTimesOut

DeliveryNext ==
  \/ \E m \in Messages : Press(m) \/ RowArrives(m) \/ Discard(m) \/ RetrySend(m)
  \/ AttemptNext
  \/ Reconnect
  \/ LoseConnection
  \/ AppRestart
  \/ HostCrash
  \/ \E a \in Slots : HandlerNext(a)

DeliverySpec == DeliveryInit /\ [][DeliveryNext]_deliveryVars

\* The app's own steps and timers run, and a lost connection comes back.  Nothing is assumed of
\* the Host: it may answer late or never.
DeliveryFairness == WF_deliveryVars(AttemptNext) /\ WF_deliveryVars(Reconnect)
FairDeliverySpec == DeliverySpec /\ DeliveryFairness

-----------------------------------------------------------------------------
(* Properties *)

\* Every variable keeps its shape.
DeliveryTypeOK ==
  /\ outbox \in [Messages -> OutboxStates]
  /\ lane \in Seq(Messages)
  /\ attempt \in [part : Nat \ {0}, slot : Slots \cup {0}, again : BOOLEAN]
  /\ encoding \in Encodings
  /\ online \in BOOLEAN
  /\ ask \in [Slots -> AskRecords \cup {NoAsk}]
  /\ receipt \in [Wire -> Receipts \cup {NoReceipt}]
  /\ ledger \in [Wire -> Once!States]
  /\ digest \in [Wire -> Encodings \cup {NoEncoding}]
  /\ received \in [Wire -> 0..1]
  /\ faults \in Nat

\* A receipt says "completed" only of what the provider took, and what it took keeps a receipt:
\* however requests, retries, failed writes and crashes interleave, no resend is taken for new.
ReceiptTells ==
  \A w \in Wire :
    /\ receipt[w].state = "completed" => received[w] = 1
    /\ received[w] = 1 => receipt[w] # NoReceipt

\* The text of a split message never reaches the provider before its images.
PartsInOrder ==
  \A m \in Messages : \A k \in 1..(Parts[m] - 1) :
    received[<<m, k + 1>>] = 1 => received[<<m, k>>] = 1

\* The outbox lets go of a message only if the Host has all of it, or holds an id of it.
SentHeld ==
  \A m \in Messages :
    outbox[m] = "sent" => received[Text(m)] = 1 \/ \E k \in 1..Parts[m] : receipt[<<m, k>>] # NoReceipt

\* Every attempt ends by itself, also one that a restart of the app cut off.
AttemptsEnd == \A m \in Messages : outbox[m] = "sending" ~> outbox[m] # "sending"

\* What waits for a Host that went away is sent again when it is back, or leaves.
Resent == \A m \in Messages : outbox[m] = "waiting" /\ ~online ~> outbox[m] # "waiting"
=============================================================================
