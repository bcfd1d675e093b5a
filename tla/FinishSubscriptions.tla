-------------------------- MODULE FinishSubscriptions --------------------------
(***************************************************************************)
(* One agent waits to hear of another that it prompted: registrations on   *)
(* disk, the watches that observe for them, the notices they send through  *)
(* AgentMessages, and what a shutdown, a crash and a restart leave of it.  *)
(*                                                                         *)
(* A registration is its number; a watch is known by its first one.        *)
(* Registrations of other pairs of agents share nothing but the chain of   *)
(* mutations, and are left out.                                            *)
(***************************************************************************)
EXTENDS AgentMessages

CONSTANTS
  MaxRegs,         \* bound: registrations
  Owned,           \* those of a creation, which end when the child is detached
  RemoteTries,     \* failed observations before a host counts as lost
  MaxTroubles      \* bound: permission requests, archiving, detaching, failures, crashes and shutdowns

ASSUME FinishAssumption ==
  /\ {MaxRegs, MaxTroubles} \subseteq Nat
  /\ Owned \subseteq 1..MaxRegs
  /\ RemoteTries \in Nat \ {0}

VARIABLES
  store,     \* registrations on disk
  mutations, \* registrations, and removals of superseded or rejected ones, one at a time
  asked,     \* registrations asked for
  prompt,    \* what became of the prompt of each registration
  watch,     \* the watch of each registration
  closed,    \* the daemon shuts down
  remote,    \* the child runs on another host
  caller,    \* the caller is not archived
  child,     \* the child is still the caller's
  owed,      \* the accepted registration whose finish the caller is to hear of
  troubles

watches == <<mutations, asked, prompt, watch>>
world == <<remote, caller, child>>
finishVars == <<messageVars, store, watches, closed, world, owed, troubles>>

Regs == 1..MaxRegs
NoWatch == [pc |-> "none", live |-> FALSE, pending |-> FALSE, before |-> {}, records |-> {},
            out |-> "none", acked |-> FALSE, msg |-> 0, fails |-> 0]

FinishInit ==
  /\ MessagesInit
  /\ store = {} /\ mutations = <<>> /\ asked = 0
  /\ prompt = [w \in Regs |-> "none"]
  /\ watch = [w \in Regs |-> NoWatch]
  /\ closed = "no"
  /\ remote \in BOOLEAN /\ caller = TRUE /\ child = TRUE
  /\ owed = 0
  /\ troubles = 0

Group == {w \in Regs : watch[w].live}
At(w, pc) == watch[w].pc = pc /\ watch[w].live
Go(w, pc) == watch' = [watch EXCEPT ![w].pc = pc]
\* Of a watch that is over only its registrations matter, and the prompt that may still be accepted.
End(w) == watch' = [watch EXCEPT ![w] =
  [NoWatch EXCEPT !.pc = "end", !.records = watch[w].records,
                  !.pending = watch[w].pending, !.before = watch[w].before]]
Trouble == troubles < MaxTroubles /\ troubles' = troubles + 1

-----------------------------------------------------------------------------
(* Registering *)

\* A tool that prompts the child registers first.
AskRegister ==
  /\ asked < MaxRegs
  /\ closed = "no"
  /\ asked' = asked + 1
  /\ mutations' = Append(mutations, [op |-> "put", w |-> asked + 1, drop |-> {}])
  /\ UNCHANGED <<messageVars, store, prompt, watch, closed, world, owed, troubles>>

Turn(op) == mutations # <<>> /\ mutations[1].op = op

\* The registration is on disk before anything else of it exists, or the tool fails.  The candidate
\* joins the watches of the pair and remembers those before it.
Register ==
  /\ Turn("put")
  /\ mutations' = Tail(mutations)
  /\ LET w == mutations[1].w IN
     \/ /\ closed = "no"
        /\ store' = store \cup {w}
        /\ watch' = [watch EXCEPT ![w] =
             [NoWatch EXCEPT !.pc = "wait", !.live = TRUE, !.pending = TRUE,
                             !.before = Group, !.records = {w}]]
        /\ prompt' = [prompt EXCEPT ![w] = "sent"]
        /\ UNCHANGED troubles
     \/ /\ \/ Trouble
           \/ closed # "no" /\ UNCHANGED troubles
        /\ UNCHANGED <<store, watch, prompt>>
  /\ UNCHANGED <<messageVars, asked, closed, world, owed>>

\* Prompts to one agent of this daemon are answered in the order they were sent.
InTurn(w) == remote \/ \A v \in 1..(w - 1) : prompt[v] # "sent"

\* Slip: a replacement leaves the watches it replaces alone.
AcceptBesides(w) ==
  /\ prompt[w] = "sent" /\ InTurn(w) /\ watch[w].pending /\ closed = "no"
  /\ prompt' = [prompt EXCEPT ![w] = "accepted"]
  /\ watch' = [watch EXCEPT ![w].pending = FALSE, ![w].pc = IF watch[w].live THEN "check" ELSE @]
  /\ mutations' = Append(mutations,
       [op |-> "drop", w |-> w, drop |-> UNION {watch[v].records : v \in watch[w].before}])
  /\ owed' = IF watch[w].live THEN w ELSE owed
  /\ UNCHANGED <<messageVars, store, asked, closed, world, troubles>>

\* The child took the prompt: the watches before this one stop, their registrations are removed.
\* What is owed is left as it is when the candidate was stopped by a later one.
Accept(w) ==
  /\ prompt[w] = "sent" /\ InTurn(w)
  /\ prompt' = [prompt EXCEPT ![w] = "accepted"]
  /\ IF closed # "no" \/ ~watch[w].pending
     THEN UNCHANGED <<watch, mutations, owed>>
     ELSE /\ watch' = [v \in Regs |->
               IF v = w THEN [watch[w] EXCEPT !.pending = FALSE, !.before = {},
                                              !.pc = IF watch[w].live THEN "check" ELSE @]
               ELSE IF v \in watch[w].before THEN [watch[v] EXCEPT !.live = FALSE]
               ELSE watch[v]]
          /\ mutations' = Append(mutations,
               [op |-> "drop", w |-> w, drop |-> UNION {watch[v].records : v \in watch[w].before}])
          /\ owed' = IF watch[w].live THEN w ELSE owed
  /\ UNCHANGED <<messageVars, store, asked, closed, world, troubles>>

\* The child did not take the prompt, or, on this daemon, its run did not start although the prompt
\* was accepted before: only this candidate goes, and nothing is owed for it.
Reject(w) ==
  /\ \/ prompt[w] = "sent" /\ UNCHANGED troubles
     \/ prompt[w] = "accepted" /\ ~remote /\ Trouble
  /\ prompt' = [prompt EXCEPT ![w] = "rejected"]
  /\ mutations' = Append(mutations, [op |-> "reject", w |-> w, drop |-> {}])
  /\ owed' = IF owed = w THEN 0 ELSE owed
  /\ UNCHANGED <<messageVars, store, asked, watch, closed, world>>

RejectedStops ==
  /\ Turn("reject")
  /\ LET w == mutations[1].w IN
     /\ watch' = [watch EXCEPT ![w].live = FALSE]
     /\ mutations' = [mutations EXCEPT ![1].op = "drop", ![1].drop = watch[w].records]
  /\ UNCHANGED <<messageVars, store, asked, prompt, closed, world, owed, troubles>>

\* Registrations are removed one by one; a failure leaves the others to the next start.
Drop ==
  /\ Turn("drop")
  /\ \/ /\ mutations[1].drop = {}
        /\ mutations' = Tail(mutations)
        /\ UNCHANGED <<store, troubles>>
     \/ \E r \in mutations[1].drop :
          /\ store' = store \ {r}
          /\ mutations' = [mutations EXCEPT ![1].drop = @ \ {r}]
          /\ UNCHANGED troubles
     \/ /\ mutations[1].drop # {} /\ Trouble
        /\ mutations' = Tail(mutations)
        /\ UNCHANGED store
  /\ UNCHANGED <<messageVars, asked, prompt, watch, closed, world, owed>>

-----------------------------------------------------------------------------
(* Watching *)

\* Nothing is owed of a registration whose notice is suppressed.
Suppress(w) ==
  /\ Go(w, "remove")
  /\ owed' = IF owed \in watch[w].records THEN 0 ELSE owed

Watching == <<messageVars, mutations, asked, prompt, closed, world>>

\* An archived caller hears nothing.  An outcome captured before is not observed again.
Check(w) ==
  /\ At(w, "check")
  /\ \/ ~caller /\ Suppress(w)
     \/ caller /\ UNCHANGED owed /\ Go(w, IF watch[w].out = "none" THEN "observe" ELSE "held")
  /\ UNCHANGED <<Watching, store, troubles>>

\* Observing captures a permission request of the child, or that it is done.
Observe(w) ==
  /\ At(w, "observe")
  /\ \E out \in {"permission", "finish"} :
       /\ out = "permission" => Trouble
       /\ out # "permission" => UNCHANGED troubles
       /\ watch' = [watch EXCEPT ![w].out = out, ![w].pc = "held", ![w].fails = 0]
  /\ UNCHANGED <<Watching, store, owed>>

\* A host that cannot be observed several times in a row is reported as lost.
ObserveFails(w) ==
  /\ At(w, "observe") /\ remote
  /\ Trouble
  /\ LET n == watch[w].fails + 1 IN
     watch' = [watch EXCEPT ![w].fails = n,
                            ![w].pc = IF n < RemoteTries THEN "check" ELSE "held",
                            ![w].out = IF n < RemoteTries THEN "none" ELSE "lost"]
  /\ UNCHANGED <<Watching, store, owed>>

\* An outcome waits until no candidate of the pair is undecided; a shutdown waits for none.
Held(w) ==
  /\ At(w, "held")
  /\ closed # "no" \/ \A v \in Group : ~watch[v].pending
  /\ Go(w, "recheck")
  /\ UNCHANGED <<Watching, store, owed, troubles>>

\* The caller may be archived meanwhile, or the child no longer its own.
Recheck(w) ==
  /\ At(w, "recheck")
  /\ LET detached == watch[w].out # "lost" /\ ~child /\ watch[w].records \subseteq Owned IN
     \/ (~caller \/ detached) /\ Suppress(w)
     \/ caller /\ ~detached /\ UNCHANGED owed /\ Go(w, "send")
  /\ UNCHANGED <<Watching, store, troubles>>

\* Slip: what was acknowledged is sent again when its removal failed.
SendAgain(w) ==
  /\ At(w, "send")
  /\ Enqueue([from |-> w, what |-> watch[w].out, turn |-> "steer", mode |-> NoMode])
  /\ watch' = [watch EXCEPT ![w].pc = "ack", ![w].msg = Len(admitted'), ![w].acked = FALSE]
  /\ UNCHANGED <<store, mutations, asked, prompt, closed, world, owed, troubles>>

\* The notice is queued for the caller, unless it was acknowledged before.
Send(w) ==
  /\ At(w, "send")
  /\ \/ /\ watch[w].acked
        /\ Go(w, "remove")
        /\ UNCHANGED messageVars
     \/ /\ ~watch[w].acked
        /\ Enqueue([from |-> w, what |-> watch[w].out, turn |-> "steer", mode |-> NoMode])
        /\ watch' = [watch EXCEPT ![w].pc = "ack", ![w].msg = Len(admitted')]
  /\ UNCHANGED <<store, mutations, asked, prompt, closed, world, owed, troubles>>

\* The dispatch of the notice is acknowledged.  After a permission request the watch goes on.
Acknowledged(w) ==
  /\ At(w, "ack")
  /\ watch[w].msg \in Range(handed)
  /\ watch' = [watch EXCEPT ![w] =
       IF @.out = "permission"
       THEN [@ EXCEPT !.pc = "check", !.out = "none", !.msg = 0]
       ELSE [@ EXCEPT !.pc = "remove", !.acked = TRUE, !.msg = 0]]
  /\ UNCHANGED <<Watching, store, owed, troubles>>

\* Slip: a refused notice ends the watch.
RefusedEnds(w) ==
  /\ At(w, "ack")
  /\ watch[w].msg \in refused
  /\ End(w)
  /\ UNCHANGED <<Watching, store, owed, troubles>>

\* A refused notice, and any step that fails, is tried again, with the outcome kept.
Refused(w) ==
  /\ At(w, "ack")
  /\ watch[w].msg \in refused
  /\ Go(w, "check")
  /\ UNCHANGED <<Watching, store, owed, troubles>>

StepFails(w) ==
  /\ watch[w].live \/ watch[w].pc = "remove"
  /\ watch[w].pc \in {"check", "observe", "recheck", "send", "remove"}
  /\ Trouble
  /\ IF watch[w].live THEN Go(w, "check") ELSE End(w)
  /\ UNCHANGED <<Watching, store, owed>>

\* Slip: a watch removes the registrations of the pair, and not only its own.
RemoveAll(w) ==
  /\ watch[w].pc = "remove"
  /\ store' = {}
  /\ End(w)
  /\ UNCHANGED <<Watching, owed, troubles>>

\* Only the registrations the watch was made for are removed, one by one, even after it stopped.
RemoveOwn(w) ==
  /\ watch[w].pc = "remove"
  /\ IF watch[w].records \cap store = {}
     THEN End(w) /\ UNCHANGED store
     ELSE \E r \in watch[w].records \cap store : store' = store \ {r} /\ UNCHANGED watch
  /\ UNCHANGED <<Watching, owed, troubles>>

\* A stopped watch ends at its next step.
Stopped(w) ==
  /\ ~watch[w].live
  /\ watch[w].pc \notin {"none", "remove", "end"}
  /\ End(w)
  /\ UNCHANGED <<Watching, store, owed, troubles>>

WatchSteps(w) ==
  \/ Check(w) \/ Held(w) \/ Recheck(w) \/ Send(w)
  \/ Acknowledged(w) \/ Refused(w) \/ RemoveOwn(w) \/ Stopped(w)

-----------------------------------------------------------------------------
(* The caller, its messages, and the daemon *)

ArchiveCaller ==
  /\ caller /\ Trouble
  /\ caller' = FALSE
  /\ UNCHANGED <<messageVars, store, watches, closed, remote, child, owed>>

DetachChild ==
  /\ child /\ Trouble
  /\ child' = FALSE
  /\ UNCHANGED <<messageVars, store, watches, closed, remote, caller, owed>>

\* The caller hears of the finish with the notice of a watch for the registration it is owed.
Hears ==
  owed' = IF \E i \in Range(handed') \ Range(handed) :
               /\ admitted[i].what \in {"finish", "lost"}
               /\ admitted[i].from # Other
               /\ owed \in watch[admitted[i].from].records
          THEN 0 ELSE owed

\* What other senders and waits do beside the notices is left to AgentMessages alone.
Deliver ==
  /\ QuietPeriodEnds \/ Dispatch \/ MessagesClosed
  /\ UNCHANGED <<store, watches, closed, world, owed, troubles>>

Acknowledge ==
  /\ DispatchAcknowledged
  /\ Hears
  /\ UNCHANGED <<store, watches, closed, world, troubles>>

Refuse ==
  /\ DispatchFails
  /\ Trouble
  /\ UNCHANGED <<store, watches, closed, world, owed>>

\* A shutdown takes no registration any more and lets those under way end, ...
Close ==
  /\ closed = "no"
  /\ Trouble
  /\ closed' = "closing"
  /\ UNCHANGED <<messageVars, store, watches, world, owed>>

\* ... stops every watch, ...
CloseWatches ==
  /\ closed = "closing"
  /\ mutations = <<>>
  /\ closed' = "stopped"
  /\ watch' = [w \in Regs |-> [watch[w] EXCEPT !.live = FALSE]]
  /\ UNCHANGED <<messageVars, store, mutations, asked, prompt, world, owed, troubles>>

\* ... and then flushes the messages.
CloseDelivery ==
  /\ closed = "stopped"
  /\ mutations = <<>>
  /\ \A w \in Regs : watch[w].pc \in {"none", "end"}
  /\ CloseMessages
  /\ UNCHANGED <<store, watches, closed, world, owed, troubles>>

\* Memory is gone; registrations on disk come back as one accepted watch before anything else.
Boot ==
  /\ admitted' = <<>> /\ window' = <<>> /\ groups' = <<>> /\ under' = FALSE
  /\ handed' = <<>> /\ refused' = {} /\ waiter' = NoWait /\ service' = "open"
  /\ mutations' = <<>>
  /\ prompt' = [w \in Regs |-> IF prompt[w] = "none" THEN "none" ELSE "lost"]
  /\ closed' = "no"
  /\ watch' = [w \in Regs |->
       IF w \in store /\ \A v \in store : w <= v
       THEN [NoWatch EXCEPT !.pc = "check", !.live = TRUE, !.records = store]
       ELSE NoWatch]
  /\ UNCHANGED <<store, asked, world>>

DaemonRestarts ==
  /\ service = "closed"
  /\ Boot
  /\ UNCHANGED <<owed, troubles>>

DaemonCrashes ==
  /\ Trouble
  /\ Boot
  /\ UNCHANGED owed

FinishNext ==
  \/ AskRegister \/ Register \/ RejectedStops \/ Drop
  \/ \E w \in Regs : Accept(w) \/ Reject(w)
  \/ \E w \in Regs : WatchSteps(w) \/ Observe(w) \/ ObserveFails(w) \/ StepFails(w)
  \/ ArchiveCaller \/ DetachChild
  \/ Deliver \/ Acknowledge \/ Refuse
  \/ Close \/ CloseWatches \/ CloseDelivery \/ DaemonRestarts \/ DaemonCrashes

FinishSpec == FinishInit /\ [][FinishNext]_finishVars

\* What the daemon does by itself: awaits resume, timers fire, a shutdown goes on.
Proceeds ==
  \/ Register \/ RejectedStops \/ Drop
  \/ \E w \in Regs : WatchSteps(w)
  \/ Deliver \/ CloseWatches \/ CloseDelivery

\* What others do some day: they answer a prompt, the child is done, a dispatch to the caller is
\* acknowledged, and a daemon that was shut down is started again.
Answered ==
  \/ \E w \in Regs : Accept(w) \/ Reject(w) \/ (Observe(w) /\ watch'[w].out = "finish")
  \/ Acknowledge \/ DaemonRestarts

FinishFairness == WF_finishVars(Proceeds) /\ WF_finishVars(Answered)
FairFinishSpec == FinishSpec /\ FinishFairness

-----------------------------------------------------------------------------
(* Properties *)

\* The records keep their shape, one mutation at a time is under way, and no more than one watch of
\* the pair is past its decision: a finish is observed for one registration at a time.
FinishTypeOK ==
  /\ MessagesTypeOK
  /\ store \subseteq 1..asked
  /\ asked \in 0..MaxRegs
  /\ mutations \in Seq([op : {"put", "reject", "drop"}, w : Regs, drop : SUBSET Regs])
  /\ prompt \in [Regs -> {"none", "sent", "accepted", "rejected", "lost"}]
  /\ watch \in [Regs -> [pc : {"none", "wait", "check", "observe", "held", "recheck", "send", "ack",
                               "remove", "end"},
                         live : BOOLEAN, pending : BOOLEAN, before : SUBSET Regs,
                         records : SUBSET Regs, out : {"none", "permission", "finish", "lost"},
                         acked : BOOLEAN, msg : Nat, fails : 0..RemoteTries]]
  /\ closed \in {"no", "closing", "stopped"}
  /\ owed \in Regs \cup {0}
  /\ Cardinality({w \in Group : ~watch[w].pending}) <= 1

\* Until the caller's dispatch acknowledged the notice of a finish, the registration it was promised
\* for is on disk, whatever fails, is replaced, rejected or restarted meanwhile.
IntentKept == owed # 0 => owed \in store

\* Between two restarts a watch reports one finish once: when the removal of what was acknowledged
\* fails, only the removal is tried again.
ReportedOnce ==
  \A i, j \in DOMAIN handed :
    LET m == admitted[handed[i]]
        k == admitted[handed[j]] IN
    m.from # Other /\ m.from = k.from /\ {m.what, k.what} \subseteq {"finish", "lost"} => i = j

\* What the caller is owed arrives in the end, across failures, crashes and shutdowns, unless the
\* caller is archived or lost the child; a newer prompt of the caller takes the place of an older.
NoticeArrives == owed # 0 ~> owed = 0

\* A rejected prompt takes only its own candidate: what the prompt before it was promised stays on
\* disk until it was told (docs/agent-lifecycle.md:158-159).
RejectedAlone ==
  [][\A w \in Regs \ {1} :
       /\ prompt'[w] = "rejected" /\ prompt[w] # "rejected"
       /\ prompt[w - 1] = "accepted" /\ caller /\ child
       => \/ w - 1 \in store
          \/ \E i \in DOMAIN handed : admitted[handed[i]].from = w - 1]_finishVars
=============================================================================
