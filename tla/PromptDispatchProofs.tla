------------------------- MODULE PromptDispatchProofs -------------------------
(***************************************************************************)
(* Proofs about PromptDispatch for every set of messages, contents and     *)
(* calls and every bound.                                                  *)
(*                                                                         *)
(* The argument is ownership.  From its admission to its settlement a      *)
(* message is owned by one call or by one forwarder, and only its owner    *)
(* gives it to the provider, writes its row or resolves its ledger entry.  *)
(* An admission needs an entry that is absent or withdrawn, and such an    *)
(* entry has no owner; a start passes the ownership from the call to the   *)
(* forwarder.  What an owner has done to its message is determined by      *)
(* where it is, so a withdrawal can only meet an untouched message.        *)
(***************************************************************************)
EXTENDS PromptDispatch, TLAPS

-----------------------------------------------------------------------------
(* The inductive invariant *)

\* Calls and forwarders under way name a message and a content.
Named ==
  /\ \A d \in Callers : call[d].pc # "idle" => call[d].id \in Ids /\ call[d].c \in Contents
  /\ \A d \in Callers : fwd[d].pc # "none" => fwd[d].id \in Ids /\ fwd[d].c \in Contents

Early == {"dispatch", "steering", "cancel", "replace", "withdraw"}
CallOwns(d) == call[d].pc \in Early \cup {"row", "apply", "command"}
FwdOwns(d) == fwd[d].pc \in {"start", "withdraw", "reject", "row", "apply"}

Untouched(id) == ledger[id] = "pending" /\ received[id] = 0 /\ row[id] = "none"

MessageOK(id) ==
  /\ received[id] \in {0, 1}
  /\ ledger[id] \in {"absent", "withdrawn"} => received[id] = 0 /\ row[id] = "none"
  /\ received[id] = 0 => seen[id] = {}
  /\ seen[id] \subseteq {digest[id]}
  /\ Durable(id) /\ digest[id] \notin OutOfBandContents => received[id] = 1 /\ row[id] = "accepted"

\* What a call has done to the message it owns.  A steer is recorded after the provider took it, a
\* command before.
CallOK(d) ==
  LET id == call[d].id
      oob == call[d].c \in OutOfBandContents
      taken == IF oob THEN 0 ELSE 1
  IN
  /\ CallOwns(d) => digest[id] = call[d].c
  /\ call[d].pc \in Early => Untouched(id)
  /\ call[d].pc \in {"steering", "cancel", "replace"} => ~oob
  /\ call[d].pc = "row" => ledger[id] = "pending" /\ row[id] = "none" /\ received[id] = taken
  /\ call[d].pc = "apply" => ledger[id] = "pending" /\ row[id] = "accepted" /\ received[id] = taken
  /\ call[d].pc = "command" => oob /\ ledger[id] = "applied" /\ received[id] = 0

FwdOK(d) ==
  LET id == fwd[d].id IN
  /\ FwdOwns(d) => digest[id] = fwd[d].c /\ fwd[d].c \notin OutOfBandContents
  /\ fwd[d].pc \in {"start", "withdraw"} => Untouched(id)
  /\ fwd[d].pc = "reject" => ledger[id] = "pending" /\ row[id] = "none"
  /\ fwd[d].pc = "row" => ledger[id] = "pending" /\ row[id] = "none" /\ received[id] = 1
  /\ fwd[d].pc = "apply" => ledger[id] = "pending" /\ row[id] = "accepted" /\ received[id] = 1

OneOwner ==
  /\ \A d, e \in Callers : d # e /\ CallOwns(d) /\ CallOwns(e) => call[d].id # call[e].id
  /\ \A d, e \in Callers : d # e /\ FwdOwns(d) /\ FwdOwns(e) => fwd[d].id # fwd[e].id
  /\ \A d, e \in Callers : CallOwns(d) /\ FwdOwns(e) => call[d].id # fwd[e].id

Owned ==
  /\ \A id \in Ids : MessageOK(id)
  /\ \A d \in Callers : CallOK(d) /\ FwdOK(d)
  /\ OneOwner

TypeInv == DispatchTypeOK /\ Named

IInv == TypeInv /\ Owned

-----------------------------------------------------------------------------
(* What the helpers of the model do *)

\* A call that moves on keeps everything but its place.
LEMMA GoCallEffect ==
  ASSUME call \in [Callers -> CallRecords], NEW d \in Callers, NEW pc \in CallPcs, GoCall(d, pc)
  PROVE  /\ call' \in [Callers -> CallRecords]
         /\ call'[d].pc = pc
         /\ call'[d].id = call[d].id
         /\ call'[d].c = call[d].c
         /\ \A e \in Callers \ {d} : call'[e] = call[e]
  BY DEF GoCall, CallRecords

\* A forwarder that moves on keeps everything but its place.
LEMMA GoFwdEffect ==
  ASSUME fwd \in [Callers -> FwdRecords], NEW d \in Callers, NEW pc \in FwdPcs, GoFwd(d, pc)
  PROVE  /\ fwd' \in [Callers -> FwdRecords]
         /\ fwd'[d].pc = pc
         /\ fwd'[d].id = fwd[d].id
         /\ fwd'[d].c = fwd[d].c
         /\ \A e \in Callers \ {d} : fwd'[e] = fwd[e]
  BY DEF GoFwd, FwdRecords

\* Idle records have their type and name nothing.
LEMMA IdleRecords ==
  /\ IdleCall \in CallRecords /\ IdleCall.pc = "idle"
  /\ IdleFwd \in FwdRecords /\ IdleFwd.pc = "none"
  BY DEF IdleCall, IdleFwd, CallRecords, FwdRecords, CallPcs, FwdPcs, Modes

\* Forwarders only end.
FwdDrops == fwd' \in [Callers -> FwdRecords] /\ \A e \in Callers : fwd'[e] \in {fwd[e], IdleFwd}

LEMMA EndFwdEffect ==
  ASSUME fwd \in [Callers -> FwdRecords], NEW d \in Callers, EndFwd(d)
  PROVE  FwdDrops /\ fwd'[d] = IdleFwd
  BY IdleRecords DEF EndFwd, FwdDrops

LEMMA CloseTurnEffect ==
  ASSUME fwd \in [Callers -> FwdRecords], NEW d \in Callers, CloseTurn(d)
  PROVE  FwdDrops /\ fwd'[d] = IdleFwd
  BY IdleRecords DEF CloseTurn, FwdDrops

LEMMA SettleRunEffect ==
  ASSUME fwd \in [Callers -> FwdRecords], SettleRun
  PROVE  FwdDrops
  BY IdleRecords DEF SettleRun, FwdDrops

LEMMA TurnEndsEffect ==
  ASSUME fwd \in [Callers -> FwdRecords], NEW failed \in BOOLEAN, TurnEnds(failed)
  PROVE  FwdDrops
  BY IdleRecords DEF TurnEnds, FwdDrops

\* A message that no step touched.
Same(id) ==
  /\ ledger'[id] = ledger[id]
  /\ digest'[id] = digest[id]
  /\ row'[id] = row[id]
  /\ received'[id] = received[id]
  /\ seen'[id] = seen[id]

LEMMA ReceiveEffect ==
  ASSUME DispatchTypeOK, NEW m \in Ids, NEW c \in Contents, Receive(m, c)
  PROVE  /\ received' \in [Ids -> Nat]
         /\ seen' \in [Ids -> SUBSET Contents]
         /\ received'[m] = received[m] + 1
         /\ seen'[m] = seen[m] \cup {c}
         /\ \A id \in Ids \ {m} : received'[id] = received[id] /\ seen'[id] = seen[id]
  BY DEF DispatchTypeOK, Receive

LEMMA ResolveEffect ==
  ASSUME DispatchTypeOK, NEW m \in Ids, NEW outcome \in {"withdrawn", "applied"},
         Resolve(m, outcome)
  PROVE  /\ ledger' \in [Ids -> {"absent", "pending", "withdrawn", "applied"}]
         /\ ledger'[m] = IF ledger[m] = "pending" THEN outcome ELSE ledger[m]
         /\ \A id \in Ids \ {m} : ledger'[id] = ledger[id]
  BY DEF DispatchTypeOK, Resolve

-----------------------------------------------------------------------------
(* Type correctness *)

\* Only call d moved, and it keeps its message.
CallMoves(d) ==
  /\ call' \in [Callers -> CallRecords]
  /\ call'[d].id = call[d].id
  /\ call'[d].c = call[d].c
  /\ \A e \in Callers \ {d} : call'[e] = call[e]
  /\ call[d].pc # "idle"

FwdMoves(d) ==
  /\ fwd' \in [Callers -> FwdRecords]
  /\ fwd'[d].id = fwd[d].id
  /\ fwd'[d].c = fwd[d].c
  /\ \A e \in Callers \ {d} : fwd'[e] = fwd[e]
  /\ fwd[d].pc # "none"

LEMMA CallMovesNamed ==
  ASSUME Named, NEW d \in Callers, CallMoves(d)
  PROVE  \A e \in Callers : call'[e].pc # "idle" => call'[e].id \in Ids /\ call'[e].c \in Contents
  BY DEF Named, CallMoves

LEMMA FwdMovesNamed ==
  ASSUME Named, NEW d \in Callers, FwdMoves(d)
  PROVE  \A e \in Callers : fwd'[e].pc # "none" => fwd'[e].id \in Ids /\ fwd'[e].c \in Contents
  BY DEF Named, FwdMoves

LEMMA FwdDropsNamed ==
  ASSUME Named, FwdDrops
  PROVE  \A e \in Callers : fwd'[e].pc # "none" => fwd'[e].id \in Ids /\ fwd'[e].c \in Contents
  BY IdleRecords DEF Named, FwdDrops

\* The steps that only move a call, and leave the agent its type.
LEMMA SilentStep ==
  ASSUME DispatchTypeOK, Named, NEW d \in Callers,
         \/ AdmitFails(d) \/ AdmitKnown(d) \/ AdmitRefused(d) \/ DispatchFails(d) \/ OutOfBand(d)
         \/ SteerRefused(d) \/ SteerAdmitted(d) \/ SteerUnavailable(d) \/ CallRecordFails(d)
  PROVE  CallMoves(d) /\ UNCHANGED <<disk, history, fwd, agent, crashes>>
  <1>1. \E pc \in CallPcs : GoCall(d, pc) /\ UNCHANGED <<disk, history, fwd, agent, crashes>>
    BY DEF AdmitFails, AdmitKnown, AdmitRefused, DispatchFails, OutOfBand, SteerRefused,
           SteerAdmitted, SteerUnavailable, CallRecordFails, CallPcs
  <1>2. call[d].pc # "idle"
    BY DEF AdmitFails, AdmitKnown, AdmitRefused, DispatchFails, OutOfBand, SteerRefused,
           SteerAdmitted, SteerUnavailable, CallRecordFails, AtCall
  <1>3. QED
    BY <1>1, <1>2, GoCallEffect DEF CallMoves, DispatchTypeOK

LEMMA TypeStep ==
  ASSUME DispatchAssumption, TypeInv, [DispatchNext]_dispatchVars
  PROVE  TypeInv'
  <1> USE DEF TypeInv, DispatchTypeOK, disk, history, agent, AtCall
  <1>1. ASSUME NEW d \in Callers, AdmitFails(d) \/ AdmitKnown(d) \/ AdmitRefused(d) \/ DispatchFails(d)
               \/ OutOfBand(d) \/ SteerRefused(d) \/ SteerAdmitted(d) \/ SteerUnavailable(d)
               \/ CallRecordFails(d)
        PROVE  TypeInv'
    BY <1>1, SilentStep, CallMovesNamed DEF CallMoves, Named
  <1>2. ASSUME NEW d \in Callers, AdmitNew(d)
        PROVE  TypeInv'
    <2>1. CallMoves(d)
      BY <1>2, GoCallEffect DEF AdmitNew, CallMoves, CallPcs
    <2>2. QED
      BY <1>2, <2>1, CallMovesNamed DEF AdmitNew, CallMoves, Named
  <1>3. ASSUME NEW d \in Callers, SteerAccepted(d)
        PROVE  TypeInv'
    <2>1. CallMoves(d)
      BY <1>3, GoCallEffect DEF SteerAccepted, CallMoves, CallPcs
    <2>2. QED
      BY <1>3, <2>1, CallMovesNamed, ReceiveEffect DEF SteerAccepted, CallMoves, Named
  <1>4. ASSUME NEW d \in Callers, SteerFails(d)
        PROVE  TypeInv'
    <2>1. CallMoves(d)
      BY <1>4, GoCallEffect DEF SteerFails, CallMoves, CallPcs
    <2>2. QED
      BY <1>4, <2>1, CallMovesNamed, ReceiveEffect DEF SteerFails, CallMoves, Named
  <1>5. ASSUME NEW d \in Callers, Withdraw(d)
        PROVE  TypeInv'
    <2>1. CallMoves(d)
      BY <1>5, GoCallEffect DEF Withdraw, CallMoves, CallPcs
    <2>2. QED
      BY <1>5, <2>1, CallMovesNamed, ResolveEffect DEF Withdraw, CallMoves, Named
  <1>6. ASSUME NEW d \in Callers, StreamRefused(d)
        PROVE  TypeInv'
    <2>1. CallMoves(d)
      BY <1>6, GoCallEffect DEF StreamRefused, CallMoves, CallPcs, Starting
    <2>2. QED
      BY <1>6, <2>1, CallMovesNamed DEF StreamRefused, CallMoves, Named
  <1>7. ASSUME NEW d \in Callers, ReplaceRun(d)
        PROVE  TypeInv'
    <2>1. CallMoves(d)
      BY <1>7, GoCallEffect DEF ReplaceRun, CallMoves, CallPcs
    <2>2. QED
      BY <1>7, <2>1, CallMovesNamed DEF ReplaceRun, CallMoves, Named
  <1>8. ASSUME NEW d \in Callers, CancelRefused(d)
        PROVE  TypeInv'
    <2>1. CallMoves(d)
      BY <1>8, GoCallEffect DEF CancelRefused, CallMoves, CallPcs
    <2>2. QED
      BY <1>8, <2>1, CallMovesNamed DEF CancelRefused, CallMoves, Named, RefuseCancel, Owners
  <1>9. ASSUME NEW d \in Callers, CallRow(d)
        PROVE  TypeInv'
    <2>1. CallMoves(d)
      BY <1>9, GoCallEffect DEF CallRow, CallMoves, CallPcs
    <2>2. QED
      BY <1>9, <2>1, CallMovesNamed DEF CallRow, CallMoves, Named
  <1>10. ASSUME NEW d \in Callers, CallApplied(d)
        PROVE  TypeInv'
    <2>1. CallMoves(d)
      BY <1>10, GoCallEffect DEF CallApplied, CallMoves, CallPcs
    <2>2. QED
      BY <1>10, <2>1, CallMovesNamed, ResolveEffect DEF CallApplied, CallMoves, Named
  <1>11. ASSUME NEW d \in Callers, RunCommand(d)
        PROVE  TypeInv'
    <2>1. CallMoves(d)
      BY <1>11, GoCallEffect DEF RunCommand, CallMoves, CallPcs
    <2>2. QED
      BY <1>11, <2>1, CallMovesNamed, ReceiveEffect DEF RunCommand, CallMoves, Named
  <1>12. ASSUME NEW d \in Callers, StartAccepted(d)
        PROVE  TypeInv'
    <2>1. FwdMoves(d)
      BY <1>12, GoFwdEffect DEF StartAccepted, FwdMoves, FwdPcs
    <2>2. QED
      BY <1>12, <2>1, FwdMovesNamed, ReceiveEffect DEF StartAccepted, FwdMoves, Named, Owners
  <1>13. ASSUME NEW d \in Callers, StartRejected(d)
        PROVE  TypeInv'
    <2>1. FwdMoves(d)
      BY <1>13, GoFwdEffect DEF StartRejected, FwdMoves, FwdPcs
    <2>2. QED
      BY <1>13, <2>1, FwdMovesNamed, ReceiveEffect DEF StartRejected, FwdMoves, Named
  <1>14. ASSUME NEW d \in Callers, StartNotDelivered(d)
        PROVE  TypeInv'
    <2>1. FwdMoves(d)
      BY <1>14, GoFwdEffect DEF StartNotDelivered, FwdMoves, FwdPcs
    <2>2. QED
      BY <1>14, <2>1, FwdMovesNamed DEF StartNotDelivered, FwdMoves, Named
  <1>15. ASSUME NEW d \in Callers, StartOrphaned(d)
        PROVE  TypeInv'
    <2>1. FwdDrops
      BY <1>15, EndFwdEffect DEF StartOrphaned
    <2>2. QED
      BY <1>15, <2>1, FwdDropsNamed, ReceiveEffect DEF StartOrphaned, FwdDrops, Named
  <1>16. ASSUME NEW d \in Callers, StartWithdraws(d)
        PROVE  TypeInv'
    <2>1. FwdDrops
      BY <1>16, EndFwdEffect DEF StartWithdraws
    <2>2. QED
      BY <1>16, <2>1, FwdDropsNamed, ResolveEffect DEF StartWithdraws, FwdDrops, Named, FinishRun
  <1>17. ASSUME NEW d \in Callers, RejectRecorded(d)
        PROVE  TypeInv'
    <2>1. FwdDrops
      BY <1>17, CloseTurnEffect DEF RejectRecorded
    <2>2. QED
      BY <1>17, <2>1, FwdDropsNamed DEF RejectRecorded, FwdDrops, Named, CloseTurn, Owners, NoTurn
  <1>18. ASSUME NEW d \in Callers, RecordFails(d)
        PROVE  TypeInv'
    <2>1. FwdDrops
      BY <1>18, EndFwdEffect, CloseTurnEffect DEF RecordFails
    <2>2. QED
      BY <1>18, <2>1, FwdDropsNamed DEF RecordFails, FwdDrops, Named, CloseTurn, FinishRun, Owners, NoTurn
  <1>19. ASSUME NEW failed \in BOOLEAN, TurnEnds(failed)
        PROVE  TypeInv'
    <2>1. FwdDrops
      BY <1>19, TurnEndsEffect
    <2>2. QED
      BY <1>19, <2>1, FwdDropsNamed DEF TurnEnds, FwdDrops, Named, NoTurn, Owners
  <1>20. ASSUME StopRun
        PROVE  TypeInv'
    <2>1. FwdDrops
      BY <1>20, SettleRunEffect DEF StopRun
    <2>2. QED
      BY <1>20, <2>1, FwdDropsNamed DEF StopRun, SettleRun, FwdDrops, Named, NoTurn, Owners
  <1>21. ASSUME NEW d \in Callers, RecordRow(d)
        PROVE  TypeInv'
    <2>1. FwdMoves(d) \/ FwdDrops
      BY <1>21, GoFwdEffect, EndFwdEffect DEF RecordRow, Follow, FwdMoves, FwdPcs
    <2>2. QED
      BY <1>21, <2>1, FwdMovesNamed, FwdDropsNamed, ResolveEffect
      DEF RecordRow, FwdMoves, FwdDrops, Named
  <1>22. ASSUME NEW d \in Callers, RecordApplied(d)
        PROVE  TypeInv'
    <2>1. FwdMoves(d) \/ FwdDrops
      BY <1>22, GoFwdEffect, EndFwdEffect DEF RecordApplied, Follow, FwdMoves, FwdPcs
    <2>2. QED
      BY <1>22, <2>1, FwdMovesNamed, FwdDropsNamed, ResolveEffect
      DEF RecordApplied, FwdMoves, FwdDrops, Named
  <1>23. ASSUME NEW d \in Callers, CancelSettles(d)
        PROVE  TypeInv'
    <2>1. CallMoves(d)
      BY <1>23, GoCallEffect DEF CancelSettles, CallMoves, CallPcs
    <2>2. FwdDrops
      BY <1>23, SettleRunEffect DEF CancelSettles, FwdDrops
    <2>3. QED
      BY <1>23, <2>1, <2>2, CallMovesNamed, FwdDropsNamed
      DEF CancelSettles, SettleRun, CallMoves, FwdDrops, NoTurn, Owners, Named
  <1>24. ASSUME NEW d \in Callers, StreamAgent(d)
        PROVE  TypeInv'
    <2>1. CallMoves(d)
      BY <1>24, GoCallEffect DEF StreamAgent, Starting, CallMoves, CallPcs
    <2>2. call[d].id \in Ids /\ call[d].c \in Contents
      BY <2>1 DEF CallMoves, Named
    <2>3. /\ fwd' \in [Callers -> FwdRecords]
          /\ fwd'[d].id \in Ids /\ fwd'[d].c \in Contents
          /\ \A e \in Callers \ {d} : fwd'[e] = fwd[e]
      BY <1>24, <2>2 DEF StreamAgent, FwdRecords, FwdPcs
    <2>4. QED
      BY <1>24, <2>1, <2>3, CallMovesNamed DEF StreamAgent, CallMoves, Named, Owners
  <1>25. ASSUME NEW d \in Callers, Send(d)
        PROVE  TypeInv'
    <2>1. PICK id \in Ids, c \in Contents, mode \in Modes, exp \in 0..MaxTurns :
           Begin(d, id, c, mode, exp)
      BY <1>25 DEF Send
    <2>2. /\ call' \in [Callers -> CallRecords]
          /\ call'[d].id \in Ids /\ call'[d].c \in Contents
          /\ \A e \in Callers \ {d} : call'[e] = call[e]
      BY <2>1, DispatchAssumption DEF Begin, CallRecords, CallPcs
    <2>3. QED
      BY <2>1, <2>2 DEF Begin, Named
  <1>26. ASSUME NEW d \in Callers, Done(d)
        PROVE  TypeInv'
    <2>1. call' \in [Callers -> CallRecords] /\ call'[d].pc = "idle"
          /\ \A e \in Callers \ {d} : call'[e] = call[e]
      BY <1>26, IdleRecords DEF Done
    <2>2. QED
      BY <1>26, <2>1 DEF Done, Named
  <1>27. ASSUME Crash
        PROVE  TypeInv'
    <2>1. /\ call' \in [Callers -> CallRecords] /\ \A e \in Callers : call'[e].pc = "idle"
          /\ fwd' \in [Callers -> FwdRecords] /\ \A e \in Callers : fwd'[e].pc = "none"
      BY <1>27, IdleRecords DEF Crash
    <2>2. /\ UNCHANGED <<ledger, digest, row, received, seen, turns>>
          /\ run' = Nobody /\ lifecycle' = "idle" /\ replacing' = FALSE
      BY <1>27 DEF Crash
    <2>3. turn' \in [n : Nat, by : Owners \cup {Nobody}] /\ crashes' \in Nat
      BY <1>27 DEF Crash, NoTurn
    <2>4. DispatchTypeOK'
      BY <2>1, <2>2, <2>3
    <2>5. QED
      BY <2>1, <2>4 DEF Named
  <1>28. ASSUME StopRefused
        PROVE  TypeInv'
    BY <1>28 DEF StopRefused, RefuseCancel, Owners, Named
  <1>29. ASSUME AutonomousTurn
        PROVE  TypeInv'
    BY <1>29 DEF AutonomousTurn, Owners, Named
  <1>30. ASSUME UNCHANGED dispatchVars
        PROVE  TypeInv'
    BY <1>30 DEF dispatchVars, Named
  <1>31. QED
    BY <1>1, <1>2, <1>3, <1>4, <1>5, <1>6, <1>7, <1>8, <1>9, <1>10, <1>11, <1>12, <1>13, <1>14, <1>15, <1>16, <1>17, <1>18, <1>19, <1>20, <1>21, <1>22, <1>23, <1>24, <1>25, <1>26, <1>27, <1>28, <1>29, <1>30
    DEF DispatchNext, Loud, Quiet, AgentEvent
-----------------------------------------------------------------------------
(* Ownership *)

\* A step that touches no message but m leaves those who own another as they are.
LEMMA OthersKept ==
  ASSUME TypeInv, Owned, NEW m \in Ids,
         \A id \in Ids \ {m} : Same(id),
         MessageOK(m)',
         \A e \in Callers : \/ ~CallOwns(e)'
                            \/ call'[e] = call[e] /\ call[e].id # m
                            \/ CallOK(e)',
         \A e \in Callers : \/ ~FwdOwns(e)'
                            \/ fwd'[e] = fwd[e] /\ fwd[e].id # m
                            \/ FwdOK(e)'
  PROVE  /\ \A id \in Ids : MessageOK(id)'
         /\ \A e \in Callers : CallOK(e)' /\ FwdOK(e)'
  <1>1. ASSUME NEW id \in Ids PROVE MessageOK(id)'
    <2>1. CASE id = m
      BY <2>1
    <2>2. CASE id # m
      BY <2>2 DEF Owned, MessageOK, Durable, Same
    <2>3. QED
      BY <2>1, <2>2
  <1>2. ASSUME NEW e \in Callers PROVE CallOK(e)'
    <2>1. CASE ~CallOwns(e)'
      BY <2>1 DEF CallOK, CallOwns, Early
    <2>2. CASE CallOwns(e)' /\ call'[e] = call[e] /\ call[e].id # m
      <3>1. call[e].id \in Ids /\ CallOK(e)
        BY <2>2 DEF TypeInv, Named, Owned, CallOwns, Early
      <3>2. Same(call[e].id)
        BY <3>1, <2>2
      <3>3. QED
        BY <2>2, <3>1, <3>2 DEF CallOK, CallOwns, Early, Untouched, Same
    <2>3. QED
      BY <2>1, <2>2
  <1>3. ASSUME NEW e \in Callers PROVE FwdOK(e)'
    <2>1. CASE ~FwdOwns(e)'
      BY <2>1 DEF FwdOK, FwdOwns
    <2>2. CASE FwdOwns(e)' /\ fwd'[e] = fwd[e] /\ fwd[e].id # m
      <3>1. fwd[e].id \in Ids /\ FwdOK(e)
        BY <2>2 DEF TypeInv, Named, Owned, FwdOwns
      <3>2. Same(fwd[e].id)
        BY <3>1, <2>2
      <3>3. QED
        BY <2>2, <3>1, <3>2 DEF FwdOK, FwdOwns, Untouched, Same
    <2>3. QED
      BY <2>1, <2>2
  <1>4. QED
    BY <1>1, <1>2, <1>3

\* The same when nobody comes to own a message.
LEMMA OwnerActs ==
  ASSUME TypeInv, Owned, NEW m \in Ids,
         \A id \in Ids \ {m} : Same(id),
         MessageOK(m)',
         \A e \in Callers : \/ ~CallOwns(e)'
                            \/ call'[e] = call[e] /\ call[e].id # m
                            \/ CallOwns(e) /\ call'[e].id = call[e].id /\ CallOK(e)',
         \A e \in Callers : \/ ~FwdOwns(e)'
                            \/ fwd'[e] = fwd[e] /\ fwd[e].id # m
                            \/ FwdOwns(e) /\ fwd'[e].id = fwd[e].id /\ FwdOK(e)'
  PROVE  Owned'
  <1>1. \A e \in Callers : CallOwns(e)' => CallOwns(e) /\ call'[e].id = call[e].id
    BY DEF CallOwns
  <1>2. \A e \in Callers : FwdOwns(e)' => FwdOwns(e) /\ fwd'[e].id = fwd[e].id
    BY DEF FwdOwns
  <1>3. OneOwner'
    BY <1>1, <1>2 DEF Owned, OneOwner
  <1>4. QED
    BY <1>3, OthersKept DEF Owned

\* A call or a forwarder may come to own nothing it did not own before.
CallKeeps(e) ==
  \/ ~CallOwns(e)'
  \/ call'[e] = call[e]
  \/ CallOwns(e) /\ call'[e].id = call[e].id /\ CallOK(e)'
FwdKeeps(e) ==
  \/ ~FwdOwns(e)'
  \/ fwd'[e] = fwd[e]
  \/ FwdOwns(e) /\ fwd'[e].id = fwd[e].id /\ FwdOK(e)'

\* A step that touches no message.
LEMMA NothingTouched ==
  ASSUME TypeInv, Owned, \A id \in Ids : Same(id),
         \A e \in Callers : CallKeeps(e) /\ FwdKeeps(e)
  PROVE  Owned'
  <1>1. ASSUME NEW id \in Ids PROVE MessageOK(id)'
    BY DEF Owned, MessageOK, Durable, Same
  <1>2. ASSUME NEW e \in Callers PROVE CallOK(e)'
    <2>1. CASE ~CallOwns(e)'
      BY <2>1 DEF CallOK, CallOwns, Early
    <2>2. CASE CallOwns(e)' /\ call'[e] = call[e]
      <3>1. call[e].id \in Ids /\ CallOK(e)
        BY <2>2 DEF TypeInv, Named, Owned, CallOwns, Early
      <3>2. QED
        BY <2>2, <3>1 DEF CallOK, CallOwns, Early, Untouched, Same
    <2>3. QED
      BY <2>1, <2>2 DEF CallKeeps
  <1>3. ASSUME NEW e \in Callers PROVE FwdOK(e)'
    <2>1. CASE ~FwdOwns(e)'
      BY <2>1 DEF FwdOK, FwdOwns
    <2>2. CASE FwdOwns(e)' /\ fwd'[e] = fwd[e]
      <3>1. fwd[e].id \in Ids /\ FwdOK(e)
        BY <2>2 DEF TypeInv, Named, Owned, FwdOwns
      <3>2. QED
        BY <2>2, <3>1 DEF FwdOK, FwdOwns, Untouched, Same
    <2>3. QED
      BY <2>1, <2>2 DEF FwdKeeps
  <1>4. \A e \in Callers : CallOwns(e)' => CallOwns(e) /\ call'[e].id = call[e].id
    BY DEF CallOwns, CallKeeps
  <1>5. \A e \in Callers : FwdOwns(e)' => FwdOwns(e) /\ fwd'[e].id = fwd[e].id
    BY DEF FwdOwns, FwdKeeps
  <1>6. OneOwner'
    BY <1>4, <1>5 DEF Owned, OneOwner
  <1>7. QED
    BY <1>1, <1>2, <1>3, <1>6 DEF Owned

\* Call d does something to the message it owns.
LEMMA CallActs ==
  ASSUME TypeInv, Owned, NEW d \in Callers, CallOwns(d), CallMoves(d), UNCHANGED fwd,
         NEW m \in Ids, m = call[d].id, \A id \in Ids \ {m} : Same(id),
         MessageOK(m)',
         ~CallOwns(d)' \/ CallOK(d)'
  PROVE  Owned'
  <1>1. ASSUME NEW e \in Callers
        PROVE  \/ ~CallOwns(e)'
               \/ call'[e] = call[e] /\ call[e].id # m
               \/ CallOwns(e) /\ call'[e].id = call[e].id /\ CallOK(e)'
    <2>1. CASE e = d
      BY <2>1 DEF CallMoves
    <2>2. CASE e # d
      BY <2>2 DEF CallMoves, CallOwns, Owned, OneOwner
    <2>3. QED
      BY <2>1, <2>2
  <1>2. ASSUME NEW e \in Callers
        PROVE  ~FwdOwns(e)' \/ (fwd'[e] = fwd[e] /\ fwd[e].id # m)
    BY DEF FwdOwns, Owned, OneOwner
  <1>3. QED
    BY <1>1, <1>2, OwnerActs

\* Forwarder d does something to the message it owns; others may end.
LEMMA FwdActs ==
  ASSUME TypeInv, Owned, NEW d \in Callers, FwdOwns(d), UNCHANGED call,
         \A e \in Callers \ {d} : fwd'[e] \in {fwd[e], IdleFwd},
         NEW m \in Ids, m = fwd[d].id, \A id \in Ids \ {m} : Same(id),
         MessageOK(m)',
         ~FwdOwns(d)' \/ (fwd'[d].id = fwd[d].id /\ FwdOK(d)')
  PROVE  Owned'
  <1>1. ASSUME NEW e \in Callers
        PROVE  \/ ~FwdOwns(e)'
               \/ fwd'[e] = fwd[e] /\ fwd[e].id # m
               \/ FwdOwns(e) /\ fwd'[e].id = fwd[e].id /\ FwdOK(e)'
    <2>1. CASE e = d
      BY <2>1
    <2>2. CASE e # d /\ fwd'[e] = fwd[e]
      BY <2>2 DEF FwdOwns, Owned, OneOwner
    <2>3. CASE e # d /\ fwd'[e] = IdleFwd
      BY <2>3, IdleRecords DEF FwdOwns
    <2>4. QED
      BY <2>1, <2>2, <2>3
  <1>2. ASSUME NEW e \in Callers
        PROVE  ~CallOwns(e)' \/ (call'[e] = call[e] /\ call[e].id # m)
    BY DEF CallOwns, FwdOwns, Owned, OneOwner
  <1>3. QED
    BY <1>1, <1>2, OwnerActs

LEMMA CallsKept ==
  ASSUME NEW d \in Callers, CallMoves(d), ~CallOwns(d)' \/ (CallOwns(d) /\ CallOK(d)')
  PROVE  \A e \in Callers : CallKeeps(e)
  BY DEF CallMoves, CallKeeps

LEMMA FwdsKept ==
  ASSUME FwdDrops \/ UNCHANGED fwd
  PROVE  \A e \in Callers : FwdKeeps(e)
  BY IdleRecords DEF FwdDrops, FwdKeeps, FwdOwns

LEMMA NoMessage ==
  ASSUME UNCHANGED <<disk, history>>
  PROVE  \A id \in Ids : Same(id)
  BY DEF Same, disk, history

\* Steps of a call that touch no message.
LEMMA OwnedQuiet ==
  ASSUME TypeInv, Owned, NEW d \in Callers,
         \/ AdmitFails(d) \/ AdmitKnown(d) \/ AdmitRefused(d) \/ DispatchFails(d) \/ OutOfBand(d)
         \/ SteerRefused(d) \/ SteerAdmitted(d) \/ SteerUnavailable(d) \/ CallRecordFails(d)
  PROVE  Owned'
  <1>1. CallMoves(d) /\ UNCHANGED <<disk, history, fwd, agent, crashes>>
    BY SilentStep DEF TypeInv
  <1>2. CallOK(d) /\ call[d].id \in Ids
    BY <1>1 DEF Owned, TypeInv, Named, CallMoves
  <1>3. CASE AdmitFails(d) \/ AdmitKnown(d) \/ AdmitRefused(d) \/ DispatchFails(d)
             \/ CallRecordFails(d)
    <2>1. ~CallOwns(d)'
      BY <1>3, GoCallEffect DEF AdmitFails, AdmitKnown, AdmitRefused, DispatchFails,
         CallRecordFails, CallOwns, Early, CallPcs, TypeInv, DispatchTypeOK
    <2>2. QED
      BY <1>1, <2>1, CallsKept, FwdsKept, NoMessage, NothingTouched
  <1>4. CASE OutOfBand(d) \/ SteerRefused(d) \/ SteerAdmitted(d) \/ SteerUnavailable(d)
    <2>1. /\ call[d].pc \in {"dispatch", "steering"}
          /\ call'[d].pc \in {"row", "withdraw", "steering"}
          /\ call'[d].pc = "row" => call[d].c \in OutOfBandContents
          /\ call'[d].pc = "steering" => call[d].c \notin OutOfBandContents
      BY <1>4, GoCallEffect DEF OutOfBand, SteerRefused, SteerAdmitted, SteerUnavailable,
         AtCall, CallPcs, TypeInv, DispatchTypeOK
    <2>2. CallOwns(d) /\ CallOK(d)'
      BY <1>1, <1>2, <2>1 DEF CallMoves, CallOK, CallOwns, Early, Untouched, disk, history
    <2>3. QED
      BY <1>1, <2>2, CallsKept, FwdsKept, NoMessage, NothingTouched
  <1>5. QED
    BY <1>3, <1>4

\* Steps by which a run is replaced or refused.
LEMMA OwnedReplace ==
  ASSUME TypeInv, Owned, NEW d \in Callers,
         StreamRefused(d) \/ ReplaceRun(d) \/ CancelSettles(d) \/ CancelRefused(d)
  PROVE  Owned'
  <1>1. /\ CallMoves(d)
        /\ FwdDrops \/ UNCHANGED fwd
        /\ UNCHANGED <<disk, history>>
        /\ \/ call'[d].pc = "failed"
           \/ /\ call[d].pc \in {"dispatch", "cancel"} /\ call'[d].pc \in {"cancel", "replace"}
              /\ call[d].pc = "dispatch" => call[d].c \notin OutOfBandContents
    BY GoCallEffect, SettleRunEffect
    DEF StreamRefused, ReplaceRun, CancelSettles, CancelRefused, Starting, AtCall, CallPcs,
        CallMoves, TypeInv, DispatchTypeOK
  <1>2. CallOK(d) /\ call[d].id \in Ids
    BY <1>1 DEF Owned, TypeInv, Named, CallMoves
  <1>3. ~CallOwns(d)' \/ (CallOwns(d) /\ CallOK(d)')
    BY <1>1, <1>2 DEF CallMoves, CallOK, CallOwns, Early, Untouched, disk, history
  <1>4. QED
    BY <1>1, <1>3, CallsKept, FwdsKept, NoMessage, NothingTouched

\* Steps that leave every call where it is, or end it.
LEMMA OwnedBeside ==
  ASSUME TypeInv, Owned,
         \/ StopRun \/ StopRefused \/ AutonomousTurn \/ Crash
         \/ \E failed \in BOOLEAN : TurnEnds(failed)
         \/ \E d \in Callers : Send(d) \/ Done(d)
         \/ UNCHANGED dispatchVars
  PROVE  Owned'
  <1>1. \A id \in Ids : Same(id)
    BY NoMessage DEF StopRun, StopRefused, AutonomousTurn, Crash, TurnEnds, Send, Begin, Done,
       dispatchVars
  <1>2. \A e \in Callers : fwd'[e] = fwd[e] \/ fwd'[e] = IdleFwd
    BY SettleRunEffect, TurnEndsEffect
    DEF StopRun, StopRefused, AutonomousTurn, Crash, Send, Begin, Done, FwdDrops, dispatchVars,
        TypeInv, DispatchTypeOK
  <1>3. \A e \in Callers : call'[e] = call[e] \/ call'[e].pc \in {"idle", "admit"}
    BY IdleRecords
    DEF StopRun, StopRefused, AutonomousTurn, Crash, TurnEnds, Send, Begin, Done, dispatchVars,
        TypeInv, DispatchTypeOK
  <1>4. \A e \in Callers : CallKeeps(e) /\ FwdKeeps(e)
    BY <1>2, <1>3, IdleRecords DEF CallKeeps, FwdKeeps, CallOwns, FwdOwns, Early
  <1>5. QED
    BY <1>1, <1>4, NothingTouched

\* Steps of a call that touch the message it owns.
LEMMA OwnedCall ==
  ASSUME TypeInv, Owned, NEW d \in Callers,
         \/ SteerAccepted(d) \/ SteerFails(d) \/ Withdraw(d)
         \/ CallRow(d) \/ CallApplied(d) \/ RunCommand(d)
  PROVE  Owned'
  <1> USE DEF TypeInv, DispatchTypeOK, disk, history, AtCall
  <1>1. PICK m \in Ids : m = call[d].id /\ call[d].c \in Contents
    <2>1. call[d].pc # "idle"
      BY DEF SteerAccepted, SteerFails, Withdraw, CallRow, CallApplied, RunCommand
    <2>2. QED
      BY <2>1 DEF Named
  <1>2. CallMoves(d) /\ UNCHANGED fwd /\ CallOwns(d)
    BY GoCallEffect
    DEF SteerAccepted, SteerFails, Withdraw, CallRow, CallApplied, RunCommand, CallMoves, CallPcs,
        CallOwns, Early
  <1>3. MessageOK(m) /\ CallOK(d) /\ digest[m] = call[d].c
    BY <1>1, <1>2 DEF Owned, CallOK
  <1>4. CASE SteerAccepted(d)
    <2>1. call'[d].pc = "row"
      BY <1>4, GoCallEffect DEF SteerAccepted, CallPcs
    <2>2. \A id \in Ids \ {m} : Same(id)
      BY <1>1, <1>2, <1>4, ReceiveEffect DEF SteerAccepted, Same, CallMoves
    <2>3. MessageOK(m)'
      BY <1>1, <1>2, <1>3, <1>4, ReceiveEffect DEF SteerAccepted, MessageOK, CallOK, Untouched, Durable, CallMoves,
         Early
    <2>4. ~CallOwns(d)' \/ CallOK(d)'
      BY <1>1, <1>2, <1>3, <2>1, <1>4, ReceiveEffect DEF SteerAccepted, CallOK, CallOwns, Early, Untouched, CallMoves
    <2>5. QED
      BY <1>1, <1>2, <2>2, <2>3, <2>4, CallActs
  <1>5. CASE SteerFails(d)
    <2>1. call'[d].pc = "failed"
      BY <1>5, GoCallEffect DEF SteerFails, CallPcs
    <2>2. \A id \in Ids \ {m} : Same(id)
      BY <1>1, <1>2, <1>5, ReceiveEffect DEF SteerFails, Same, CallMoves
    <2>3. MessageOK(m)'
      BY <1>1, <1>2, <1>3, <1>5, ReceiveEffect DEF SteerFails, MessageOK, CallOK, Untouched, Durable, CallMoves,
         Early
    <2>4. ~CallOwns(d)' \/ CallOK(d)'
      BY <1>1, <1>2, <1>3, <2>1, <1>5, ReceiveEffect DEF SteerFails, CallOK, CallOwns, Early, Untouched, CallMoves
    <2>5. QED
      BY <1>1, <1>2, <2>2, <2>3, <2>4, CallActs
  <1>6. CASE Withdraw(d)
    <2>1. call'[d].pc = "failed"
      BY <1>6, GoCallEffect DEF Withdraw, CallPcs
    <2>2. \A id \in Ids \ {m} : Same(id)
      BY <1>1, <1>2, <1>6, ResolveEffect DEF Withdraw, Same, CallMoves
    <2>3. MessageOK(m)'
      BY <1>1, <1>2, <1>3, <1>6, ResolveEffect DEF Withdraw, MessageOK, CallOK, Untouched, Durable, CallMoves,
         Early
    <2>4. ~CallOwns(d)' \/ CallOK(d)'
      BY <1>1, <1>2, <1>3, <2>1, <1>6, ResolveEffect DEF Withdraw, CallOK, CallOwns, Early, Untouched, CallMoves
    <2>5. QED
      BY <1>1, <1>2, <2>2, <2>3, <2>4, CallActs
  <1>7. CASE CallRow(d)
    <2>1. call'[d].pc = "apply"
      BY <1>1, <1>3, <1>7, GoCallEffect DEF CallRow, CallPcs, CallOK
    <2>2. \A id \in Ids \ {m} : Same(id)
      BY <1>1, <1>2, <1>7 DEF CallRow, Same, CallMoves
    <2>3. MessageOK(m)'
      BY <1>1, <1>2, <1>3, <1>7 DEF CallRow, MessageOK, CallOK, Untouched, Durable, CallMoves,
         Early
    <2>4. ~CallOwns(d)' \/ CallOK(d)'
      BY <1>1, <1>2, <1>3, <2>1, <1>7 DEF CallRow, CallOK, CallOwns, Early, Untouched, CallMoves
    <2>5. QED
      BY <1>1, <1>2, <2>2, <2>3, <2>4, CallActs
  <1>8. CASE CallApplied(d)
    <2>1. call'[d].pc = IF call[d].c \in OutOfBandContents THEN "command" ELSE "returned"
      BY <1>8, GoCallEffect DEF CallApplied, CallPcs
    <2>2. \A id \in Ids \ {m} : Same(id)
      BY <1>1, <1>2, <1>8, ResolveEffect DEF CallApplied, Same, CallMoves
    <2>3. MessageOK(m)'
      BY <1>1, <1>2, <1>3, <1>8, ResolveEffect DEF CallApplied, MessageOK, CallOK, Untouched, Durable, CallMoves,
         Early
    <2>4. ~CallOwns(d)' \/ CallOK(d)'
      BY <1>1, <1>2, <1>3, <2>1, <1>8, ResolveEffect DEF CallApplied, CallOK, CallOwns, Early, Untouched, CallMoves
    <2>5. QED
      BY <1>1, <1>2, <2>2, <2>3, <2>4, CallActs
  <1>9. CASE RunCommand(d)
    <2>1. call'[d].pc = "returned"
      BY <1>9, GoCallEffect DEF RunCommand, CallPcs
    <2>2. \A id \in Ids \ {m} : Same(id)
      BY <1>1, <1>2, <1>9, ReceiveEffect DEF RunCommand, Same, CallMoves
    <2>3. MessageOK(m)'
      BY <1>1, <1>2, <1>3, <1>9, ReceiveEffect DEF RunCommand, MessageOK, CallOK, Untouched, Durable, CallMoves,
         Early
    <2>4. ~CallOwns(d)' \/ CallOK(d)'
      BY <1>1, <1>2, <1>3, <2>1, <1>9, ReceiveEffect DEF RunCommand, CallOK, CallOwns, Early, Untouched, CallMoves
    <2>5. QED
      BY <1>1, <1>2, <2>2, <2>3, <2>4, CallActs
  <1>10. QED
    BY <1>4, <1>5, <1>6, <1>7, <1>8, <1>9

\* Steps of a forwarder that touch the message it owns.
LEMMA OwnedForward ==
  ASSUME TypeInv, Owned, NEW d \in Callers,
         \/ StartOrphaned(d) \/ StartAccepted(d) \/ StartRejected(d) \/ StartNotDelivered(d)
         \/ StartWithdraws(d) \/ RejectRecorded(d)
         \/ RecordRow(d) \/ RecordApplied(d) \/ RecordFails(d)
  PROVE  Owned'
  <1> USE DEF TypeInv, DispatchTypeOK, disk, history
  <1>1. FwdOwns(d) /\ UNCHANGED call
    BY DEF StartOrphaned, StartAccepted, StartRejected, StartNotDelivered, StartWithdraws,
       RejectRecorded, RecordRow, RecordApplied, RecordFails, FwdOwns
  <1>2. PICK m \in Ids : m = fwd[d].id /\ fwd[d].c \in Contents
    BY <1>1 DEF Named, FwdOwns
  <1>3. MessageOK(m) /\ FwdOK(d) /\ digest[m] = fwd[d].c /\ fwd[d].c \notin OutOfBandContents
    BY <1>1, <1>2 DEF Owned, FwdOK
  <1>4. CASE StartOrphaned(d)
    <2>1. FwdDrops /\ fwd'[d] = IdleFwd
      BY <1>2, <1>3, <1>4, EndFwdEffect DEF StartOrphaned
    <2>2. \A id \in Ids \ {m} : Same(id)
      BY <1>2, <1>4, ReceiveEffect DEF StartOrphaned, Same
    <2>3. MessageOK(m)'
      BY <1>2, <1>3, <1>4, ReceiveEffect DEF StartOrphaned, MessageOK, FwdOK, Untouched, Durable
    <2>4. ~FwdOwns(d)' \/ (fwd'[d].id = fwd[d].id /\ FwdOK(d)')
      BY <1>2, <1>3, <2>1, <1>4, ReceiveEffect, IdleRecords
      DEF StartOrphaned, FwdOK, FwdOwns, Untouched, FwdMoves, FwdDrops
    <2>5. QED
      BY <1>1, <1>2, <2>1, <2>2, <2>3, <2>4, FwdActs DEF FwdMoves, FwdDrops
  <1>5. CASE StartAccepted(d)
    <2>1. FwdMoves(d) /\ fwd'[d].pc = "row"
      BY <1>2, <1>3, <1>5, GoFwdEffect DEF StartAccepted, FwdMoves, FwdPcs
    <2>2. \A id \in Ids \ {m} : Same(id)
      BY <1>2, <1>5, ReceiveEffect DEF StartAccepted, Same
    <2>3. MessageOK(m)'
      BY <1>2, <1>3, <1>5, ReceiveEffect DEF StartAccepted, MessageOK, FwdOK, Untouched, Durable
    <2>4. ~FwdOwns(d)' \/ (fwd'[d].id = fwd[d].id /\ FwdOK(d)')
      BY <1>2, <1>3, <2>1, <1>5, ReceiveEffect, IdleRecords
      DEF StartAccepted, FwdOK, FwdOwns, Untouched, FwdMoves, FwdDrops
    <2>5. QED
      BY <1>1, <1>2, <2>1, <2>2, <2>3, <2>4, FwdActs DEF FwdMoves, FwdDrops
  <1>6. CASE StartRejected(d)
    <2>1. FwdMoves(d) /\ fwd'[d].pc = "reject"
      BY <1>2, <1>3, <1>6, GoFwdEffect DEF StartRejected, FwdMoves, FwdPcs
    <2>2. \A id \in Ids \ {m} : Same(id)
      BY <1>2, <1>6, ReceiveEffect DEF StartRejected, Same
    <2>3. MessageOK(m)'
      BY <1>2, <1>3, <1>6, ReceiveEffect DEF StartRejected, MessageOK, FwdOK, Untouched, Durable
    <2>4. ~FwdOwns(d)' \/ (fwd'[d].id = fwd[d].id /\ FwdOK(d)')
      BY <1>2, <1>3, <2>1, <1>6, ReceiveEffect, IdleRecords
      DEF StartRejected, FwdOK, FwdOwns, Untouched, FwdMoves, FwdDrops
    <2>5. QED
      BY <1>1, <1>2, <2>1, <2>2, <2>3, <2>4, FwdActs DEF FwdMoves, FwdDrops
  <1>7. CASE StartNotDelivered(d)
    <2>1. FwdMoves(d) /\ fwd'[d].pc = "withdraw"
      BY <1>2, <1>3, <1>7, GoFwdEffect DEF StartNotDelivered, FwdMoves, FwdPcs
    <2>2. \A id \in Ids \ {m} : Same(id)
      BY <1>2, <1>7 DEF StartNotDelivered, Same
    <2>3. MessageOK(m)'
      BY <1>2, <1>3, <1>7 DEF StartNotDelivered, MessageOK, FwdOK, Untouched, Durable
    <2>4. ~FwdOwns(d)' \/ (fwd'[d].id = fwd[d].id /\ FwdOK(d)')
      BY <1>2, <1>3, <2>1, <1>7, IdleRecords
      DEF StartNotDelivered, FwdOK, FwdOwns, Untouched, FwdMoves, FwdDrops
    <2>5. QED
      BY <1>1, <1>2, <2>1, <2>2, <2>3, <2>4, FwdActs DEF FwdMoves, FwdDrops
  <1>8. CASE StartWithdraws(d)
    <2>1. FwdDrops /\ fwd'[d] = IdleFwd
      BY <1>2, <1>3, <1>8, EndFwdEffect DEF StartWithdraws
    <2>2. \A id \in Ids \ {m} : Same(id)
      BY <1>2, <1>8, ResolveEffect DEF StartWithdraws, Same
    <2>3. MessageOK(m)'
      BY <1>2, <1>3, <1>8, ResolveEffect DEF StartWithdraws, MessageOK, FwdOK, Untouched, Durable
    <2>4. ~FwdOwns(d)' \/ (fwd'[d].id = fwd[d].id /\ FwdOK(d)')
      BY <1>2, <1>3, <2>1, <1>8, ResolveEffect, IdleRecords
      DEF StartWithdraws, FwdOK, FwdOwns, Untouched, FwdMoves, FwdDrops
    <2>5. QED
      BY <1>1, <1>2, <2>1, <2>2, <2>3, <2>4, FwdActs DEF FwdMoves, FwdDrops
  <1>9. CASE RejectRecorded(d)
    <2>1. FwdDrops /\ fwd'[d] = IdleFwd
      BY <1>2, <1>3, <1>9, CloseTurnEffect DEF RejectRecorded
    <2>2. \A id \in Ids \ {m} : Same(id)
      BY <1>2, <1>9 DEF RejectRecorded, Same
    <2>3. MessageOK(m)'
      BY <1>2, <1>3, <1>9 DEF RejectRecorded, MessageOK, FwdOK, Untouched, Durable
    <2>4. ~FwdOwns(d)' \/ (fwd'[d].id = fwd[d].id /\ FwdOK(d)')
      BY <1>2, <1>3, <2>1, <1>9, IdleRecords
      DEF RejectRecorded, FwdOK, FwdOwns, Untouched, FwdMoves, FwdDrops
    <2>5. QED
      BY <1>1, <1>2, <2>1, <2>2, <2>3, <2>4, FwdActs DEF FwdMoves, FwdDrops
  <1>10. CASE RecordRow(d)
    <2>1. FwdMoves(d) /\ fwd'[d].pc = "apply"
      BY <1>2, <1>3, <1>10, GoFwdEffect DEF RecordRow, FwdMoves, FwdPcs, FwdOK
    <2>2. \A id \in Ids \ {m} : Same(id)
      BY <1>2, <1>10 DEF RecordRow, Same
    <2>3. MessageOK(m)'
      BY <1>2, <1>3, <1>10 DEF RecordRow, MessageOK, FwdOK, Untouched, Durable
    <2>4. ~FwdOwns(d)' \/ (fwd'[d].id = fwd[d].id /\ FwdOK(d)')
      BY <1>2, <1>3, <2>1, <1>10, IdleRecords
      DEF RecordRow, FwdOK, FwdOwns, Untouched, FwdMoves, FwdDrops
    <2>5. QED
      BY <1>1, <1>2, <2>1, <2>2, <2>3, <2>4, FwdActs DEF FwdMoves, FwdDrops
  <1>11. CASE RecordApplied(d)
    <2>1. (FwdMoves(d) /\ fwd'[d].pc = "live") \/ (FwdDrops /\ fwd'[d] = IdleFwd)
      BY <1>2, <1>3, <1>11, GoFwdEffect, EndFwdEffect DEF RecordApplied, Follow, FwdMoves, FwdPcs
    <2>2. \A id \in Ids \ {m} : Same(id)
      BY <1>2, <1>11, ResolveEffect DEF RecordApplied, Same
    <2>3. MessageOK(m)'
      BY <1>2, <1>3, <1>11, ResolveEffect DEF RecordApplied, MessageOK, FwdOK, Untouched, Durable
    <2>4. ~FwdOwns(d)' \/ (fwd'[d].id = fwd[d].id /\ FwdOK(d)')
      BY <1>2, <1>3, <2>1, <1>11, ResolveEffect, IdleRecords
      DEF RecordApplied, FwdOK, FwdOwns, Untouched, FwdMoves, FwdDrops
    <2>5. QED
      BY <1>1, <1>2, <2>1, <2>2, <2>3, <2>4, FwdActs DEF FwdMoves, FwdDrops
  <1>12. CASE RecordFails(d)
    <2>1. FwdDrops /\ fwd'[d] = IdleFwd
      BY <1>2, <1>3, <1>12, EndFwdEffect, CloseTurnEffect DEF RecordFails
    <2>2. \A id \in Ids \ {m} : Same(id)
      BY <1>2, <1>12 DEF RecordFails, Same
    <2>3. MessageOK(m)'
      BY <1>2, <1>3, <1>12 DEF RecordFails, MessageOK, FwdOK, Untouched, Durable
    <2>4. ~FwdOwns(d)' \/ (fwd'[d].id = fwd[d].id /\ FwdOK(d)')
      BY <1>2, <1>3, <2>1, <1>12, IdleRecords
      DEF RecordFails, FwdOK, FwdOwns, Untouched, FwdMoves, FwdDrops
    <2>5. QED
      BY <1>1, <1>2, <2>1, <2>2, <2>3, <2>4, FwdActs DEF FwdMoves, FwdDrops
  <1>13. QED
    BY <1>4, <1>5, <1>6, <1>7, <1>8, <1>9, <1>10, <1>11, <1>12

\* The owner of a message holds an admission of it that was not withdrawn.
LEMMA OwnersAdmitted ==
  ASSUME Owned, NEW e \in Callers
  PROVE  /\ CallOwns(e) => ledger[call[e].id] \in {"pending", "applied"}
         /\ FwdOwns(e) => ledger[fwd[e].id] = "pending"
  BY DEF Owned, CallOK, FwdOK, CallOwns, FwdOwns, Early, Untouched

\* An admission gives a message nobody owns to the call.
LEMMA OwnedAdmission ==
  ASSUME TypeInv, Owned, NEW d \in Callers, AdmitNew(d)
  PROVE  Owned'
  <1> USE DEF TypeInv, DispatchTypeOK, disk, history, AtCall
  <1>1. PICK m \in Ids : m = call[d].id /\ call[d].c \in Contents
    BY DEF AdmitNew, Named
  <1>2. CallMoves(d) /\ call'[d].pc = "dispatch" /\ UNCHANGED <<fwd, row, history>>
    BY GoCallEffect DEF AdmitNew, CallMoves, CallPcs
  <1>3. /\ ledger[m] \in {"absent", "withdrawn"}
        /\ ledger'[m] = "pending" /\ digest'[m] = call[d].c
        /\ \A id \in Ids \ {m} : Same(id)
    BY <1>1, <1>2 DEF AdmitNew, Same
  <1>4. MessageOK(m)' /\ Untouched(m)'
    BY <1>2, <1>3 DEF Owned, MessageOK, Durable, Untouched
  <1>5. CallOK(d)'
    BY <1>1, <1>2, <1>3, <1>4 DEF CallOK, CallMoves, Untouched, Early
  <1>6. \A e \in Callers : /\ CallOwns(e) => call[e].id # m
                           /\ FwdOwns(e) => fwd[e].id # m
    BY <1>3, OwnersAdmitted
  <1>7. ASSUME NEW e \in Callers
        PROVE  \/ ~CallOwns(e)'
               \/ call'[e] = call[e] /\ call[e].id # m
               \/ CallOK(e)'
    BY <1>2, <1>5, <1>6 DEF CallMoves, CallOwns
  <1>8. ASSUME NEW e \in Callers
        PROVE  ~FwdOwns(e)' \/ (fwd'[e] = fwd[e] /\ fwd[e].id # m)
    BY <1>2, <1>6 DEF FwdOwns
  <1>9. OneOwner'
    <2>1. \A e \in Callers : CallOwns(e)' => call'[e].id = call[e].id /\ (e = d \/ CallOwns(e))
      BY <1>2 DEF CallMoves, CallOwns
    <2>2. \A e \in Callers : FwdOwns(e)' => fwd'[e].id = fwd[e].id /\ FwdOwns(e)
      BY <1>2 DEF FwdOwns
    <2>3. QED
      BY <1>1, <1>6, <2>1, <2>2 DEF Owned, OneOwner
  <1>10. QED
    BY <1>3, <1>4, <1>7, <1>8, <1>9, OthersKept DEF Owned

\* A start hands the message from the call to its forwarder.
LEMMA OwnedStart ==
  ASSUME TypeInv, Owned, NEW d \in Callers, StreamAgent(d)
  PROVE  Owned'
  <1> USE DEF TypeInv, DispatchTypeOK, disk, history, AtCall
  <1>1. PICK m \in Ids : m = call[d].id /\ call[d].c \in Contents
    BY DEF StreamAgent, Starting, Named
  <1>2. /\ CallMoves(d) /\ call'[d].pc = "returned" /\ UNCHANGED <<disk, history>>
        /\ CallOwns(d)
    BY GoCallEffect DEF StreamAgent, Starting, CallMoves, CallPcs, CallOwns, Early
  <1>3. /\ fwd'[d].pc = "start" /\ fwd'[d].id = m /\ fwd'[d].c = call[d].c
        /\ \A e \in Callers \ {d} : fwd'[e] = fwd[e]
    BY <1>1 DEF StreamAgent
  <1>4. CallOK(d) /\ MessageOK(m)
    BY DEF Owned
  <1>5. Untouched(m) /\ digest[m] = call[d].c /\ call[d].c \notin OutOfBandContents
    BY <1>1, <1>2, <1>4 DEF StreamAgent, Starting, CallOK, Early
  <1>6. FwdOK(d)' /\ MessageOK(m)' /\ \A id \in Ids \ {m} : Same(id)
    BY <1>2, <1>3, <1>4, <1>5 DEF FwdOK, MessageOK, Durable, Untouched, Same, FwdOwns
  <1>7. \A e \in Callers : /\ CallOwns(e) /\ e # d => call[e].id # m
                           /\ FwdOwns(e) => fwd[e].id # m
    BY <1>1, <1>2 DEF Owned, OneOwner
  <1>8. ~CallOwns(d)'
    BY <1>2 DEF CallOwns, Early
  <1>9. ASSUME NEW e \in Callers
        PROVE  ~CallOwns(e)' \/ (call'[e] = call[e] /\ call[e].id # m)
    BY <1>2, <1>7, <1>8 DEF CallMoves, CallOwns
  <1>10. ASSUME NEW e \in Callers
         PROVE  \/ ~FwdOwns(e)'
                \/ fwd'[e] = fwd[e] /\ fwd[e].id # m
                \/ FwdOK(e)'
    BY <1>3, <1>6, <1>7 DEF FwdOwns
  <1>11. OneOwner'
    <2>1. \A e \in Callers : CallOwns(e)' => call'[e].id = call[e].id /\ e # d /\ CallOwns(e)
      BY <1>2, <1>8 DEF CallMoves, CallOwns
    <2>2. \A e \in Callers : FwdOwns(e)' => \/ e = d /\ fwd'[e].id = m
                                            \/ e # d /\ fwd'[e].id = fwd[e].id /\ FwdOwns(e)
      BY <1>3 DEF FwdOwns
    <2>3. QED
      BY <1>7, <2>1, <2>2 DEF Owned, OneOwner
  <1>12. QED
    BY <1>6, <1>9, <1>10, <1>11, OthersKept DEF Owned

LEMMA OwnedStep ==
  ASSUME TypeInv, Owned, [DispatchNext]_dispatchVars
  PROVE  Owned'
  BY OwnedQuiet, OwnedReplace, OwnedBeside, OwnedCall, OwnedForward, OwnedAdmission, OwnedStart
  DEF DispatchNext, Loud, Quiet, AgentEvent

-----------------------------------------------------------------------------
(* Theorems *)

LEMMA InitOK == ASSUME DispatchAssumption, DispatchInit PROVE IInv
  <1> USE IdleRecords
  <1>1. DispatchTypeOK
    BY DEF DispatchInit, DispatchTypeOK, NoTurn, Owners
  <1>2. Named
    BY DEF DispatchInit, Named
  <1>3. Owned
    BY DEF DispatchInit, Owned, MessageOK, CallOK, FwdOK, OneOwner, CallOwns, FwdOwns, Early, Durable
  <1>4. QED
    BY <1>1, <1>2, <1>3 DEF IInv, TypeInv

THEOREM Invariance == DispatchSpec => []IInv
  <1>1. DispatchInit => IInv
    BY DispatchAssumption, InitOK
  <1>2. IInv /\ [DispatchNext]_dispatchVars => IInv'
    BY DispatchAssumption, TypeStep, OwnedStep DEF IInv
  <1>3. QED
    BY <1>1, <1>2, PTL DEF DispatchSpec

\* Every variable keeps its shape.
THEOREM TypeCorrect == DispatchSpec => []DispatchTypeOK
  BY Invariance, PTL DEF IInv, TypeInv

\* The provider is given a logical message at most once, whatever calls, failures and crashes come
\* between its admission, its dispatch and its recording.
THEOREM OnceAtMost == DispatchSpec => []AtMostOnce
  <1>1. ASSUME IInv PROVE AtMostOnce
    <2> SUFFICES ASSUME NEW id \in Ids PROVE received[id] <= 1
      BY DEF AtMostOnce
    <2>1. received[id] = 0 \/ received[id] = 1
      BY <1>1 DEF IInv, Owned, MessageOK
    <2>2. CASE received[id] = 0
      BY <2>2
    <2>3. CASE received[id] = 1
      BY <2>3
    <2>4. QED
      BY <2>1, <2>2, <2>3
  <1>2. QED
    BY <1>1, Invariance, PTL

\* A message freed for another attempt never reached the provider and left no row.
THEOREM FreedUnseen == DispatchSpec => []WithdrawnUnseen
  <1>1. IInv => WithdrawnUnseen
    BY DEF IInv, Owned, MessageOK, WithdrawnUnseen
  <1>2. QED
    BY <1>1, Invariance, PTL

\* What the provider was given under an id is the content the ledger holds for it.
THEOREM ContentKept == DispatchSpec => []OneContent
  <1>1. IInv => OneContent
    BY DEF IInv, Owned, MessageOK, OneContent
  <1>2. QED
    BY <1>1, Invariance, PTL

\* An applied admission with its row proves that the provider took the prompt.
THEOREM ProofOfHandoff == DispatchSpec => []HandoffProof
  <1>1. IInv => HandoffProof
    BY DEF IInv, Owned, MessageOK, HandoffProof
  <1>2. QED
    BY <1>1, Invariance, PTL

-----------------------------------------------------------------------------
(* One turn at a time *)

\* The run a start waits for keeps other turns out.
TurnInv ==
  /\ OneTurn
  /\ \A d \in Callers : fwd[d].pc = "start" /\ run = d => turn = NoTurn

\* A step keeps it, and takes no turn's place.
LEMMA TurnStep ==
  ASSUME DispatchAssumption, TypeInv, TurnInv, [DispatchNext]_dispatchVars
  PROVE  TurnInv' /\ (turn # NoTurn => turn' = NoTurn \/ turn'.n = turn.n)
  <1> DEFINE Goal == TurnInv' /\ (turn # NoTurn => turn' = NoTurn \/ turn'.n = turn.n)
  <1> USE DispatchAssumption
          DEF TypeInv, DispatchTypeOK, TurnInv, OneTurn, RunOf, NoTurn, agent, Owners
  <1>1. ASSUME UNCHANGED <<fwd, run, turn>> PROVE Goal
    BY <1>1
  <1>2. ASSUME NEW d \in Callers, StreamAgent(d) PROVE Goal
    BY <1>2 DEF StreamAgent
  <1>3. ASSUME NEW d \in Callers, StartAccepted(d) PROVE Goal
    BY <1>3, GoFwdEffect DEF StartAccepted, FwdPcs
  <1>4. ASSUME NEW d \in Callers, StartRejected(d) \/ StartNotDelivered(d) PROVE Goal
    BY <1>4, GoFwdEffect DEF StartRejected, StartNotDelivered, FwdPcs
  <1>5. ASSUME NEW d \in Callers, StartOrphaned(d) \/ StartWithdraws(d) PROVE Goal
    BY <1>5, EndFwdEffect, IdleRecords DEF StartOrphaned, StartWithdraws, FwdDrops, FinishRun
  <1>6. ASSUME NEW d \in Callers, RejectRecorded(d) PROVE Goal
    BY <1>6, IdleRecords DEF RejectRecorded, CloseTurn, Underway
  <1>7. ASSUME NEW d \in Callers, RecordRow(d) \/ RecordApplied(d) PROVE Goal
    BY <1>7, GoFwdEffect, EndFwdEffect, IdleRecords
    DEF RecordRow, RecordApplied, Follow, FwdDrops, FwdPcs
  <1>8. ASSUME NEW d \in Callers, RecordFails(d) PROVE Goal
    BY <1>8, IdleRecords DEF RecordFails, CloseTurn, Underway, FinishRun, EndFwd
  <1>9. ASSUME NEW failed \in BOOLEAN, TurnEnds(failed) PROVE Goal
    BY <1>9, IdleRecords DEF TurnEnds, Underway
  <1>10. ASSUME SettleRun PROVE Goal
    BY <1>10, IdleRecords DEF SettleRun, Underway
  <1>11. ASSUME RefuseCancel, UNCHANGED <<fwd, turn>> PROVE Goal
    BY <1>11 DEF RefuseCancel
  <1>12. ASSUME AutonomousTurn PROVE Goal
    BY <1>12 DEF AutonomousTurn
  <1>13. ASSUME Crash PROVE Goal
    BY <1>13, IdleRecords DEF Crash
  <1>14. ASSUME NEW d \in Callers, CancelSettles(d) PROVE Goal
    BY <1>14, <1>10, <1>1 DEF CancelSettles
  <1>15. ASSUME NEW d \in Callers, CancelRefused(d) PROVE Goal
    BY <1>15, <1>11 DEF CancelRefused
  <1>16. ASSUME StopRun \/ StopRefused PROVE Goal
    BY <1>16, <1>10, <1>11 DEF StopRun, StopRefused
  <1>17. ASSUME NEW d \in Callers,
                \/ Send(d) \/ Done(d) \/ AdmitFails(d) \/ AdmitNew(d) \/ AdmitKnown(d)
                \/ AdmitRefused(d) \/ DispatchFails(d) \/ OutOfBand(d) \/ SteerRefused(d)
                \/ SteerAdmitted(d) \/ SteerAccepted(d) \/ SteerUnavailable(d) \/ SteerFails(d)
                \/ Withdraw(d) \/ StreamRefused(d) \/ ReplaceRun(d) \/ CallRecordFails(d)
                \/ CallRow(d) \/ CallApplied(d) \/ RunCommand(d)
         PROVE  Goal
    <2>1. UNCHANGED <<fwd, run, turn>>
      BY <1>17
      DEF Send, Begin, Done, AdmitFails, AdmitNew, AdmitKnown, AdmitRefused, DispatchFails,
          OutOfBand, SteerRefused, SteerAdmitted, SteerAccepted, SteerUnavailable, SteerFails,
          Withdraw, StreamRefused, ReplaceRun, CallRecordFails, CallRow, CallApplied, RunCommand
    <2>2. QED
      BY <2>1, <1>1
  <1>18. ASSUME UNCHANGED dispatchVars PROVE Goal
    BY <1>18, <1>1 DEF dispatchVars
  <1>19. QED
    BY <1>2, <1>3, <1>4, <1>5, <1>6, <1>7, <1>8, <1>9, <1>12, <1>13, <1>14, <1>15, <1>16, <1>17,
       <1>18
    DEF DispatchNext, Loud, Quiet, AgentEvent

THEOREM TurnInvariance == DispatchSpec => [](TypeInv /\ TurnInv)
  <1>1. DispatchInit => TypeInv /\ TurnInv
    <2>1. DispatchInit => TypeInv
      BY DispatchAssumption, InitOK DEF IInv
    <2>2. DispatchInit => TurnInv
      BY IdleRecords DEF DispatchInit, TurnInv, OneTurn
    <2>3. QED
      BY <2>1, <2>2
  <1>2. TypeInv /\ TurnInv /\ [DispatchNext]_dispatchVars => (TypeInv /\ TurnInv)'
    BY DispatchAssumption, TypeStep, TurnStep
  <1>3. QED
    BY <1>1, <1>2, PTL DEF DispatchSpec

\* The tracked run, the active turn and the forwarder that follows it agree.
THEOREM RunsAgree == DispatchSpec => []OneTurn
  <1>1. TurnInv => OneTurn
    BY DEF TurnInv
  <1>2. QED
    BY <1>1, TurnInvariance, PTL

\* No start takes the place of an active turn.
THEOREM NoTurnReplaced == DispatchSpec => TurnKept
  <1>1. TypeInv /\ TurnInv /\ [DispatchNext]_dispatchVars
          => [turn # NoTurn => turn' = NoTurn \/ turn'.n = turn.n]_dispatchVars
    BY DispatchAssumption, TurnStep
  <1>2. QED
    BY <1>1, TurnInvariance, PTL DEF DispatchSpec, TurnKept

-----------------------------------------------------------------------------
(* Refinement: the dispatch implements once-only delivery *)

LEMMA ReceiveOnce ==
  ASSUME TypeInv, Owned, NEW m \in Ids, NEW c \in Contents, Receive(m, c),
         received[m] = 0, ledger[m] \in {"pending", "applied"}, UNCHANGED <<ledger, digest>>
  PROVE  Once!Deliver(m)
  BY DEF TypeInv, DispatchTypeOK, Receive, Once!Deliver

LEMMA ResolveOnce ==
  ASSUME TypeInv, NEW m \in Ids, NEW outcome \in {"withdrawn", "applied"}, Resolve(m, outcome),
         outcome = "withdrawn" => received[m] = 0, UNCHANGED <<digest, received>>
  PROVE  Once!Free(m) \/ Once!Confirm(m) \/ UNCHANGED Once!onceVars
  BY DEF TypeInv, DispatchTypeOK, Resolve, Once!Free, Once!Confirm, Once!onceVars

LEMMA RefinementStep ==
  ASSUME IInv, [DispatchNext]_dispatchVars
  PROVE  [Once!OnceNext]_(Once!onceVars)
  <1> DEFINE Goal == Once!OnceNext \/ UNCHANGED Once!onceVars
  <1> USE DEF IInv, AtCall, disk, history
  <1>1. \A id \in Ids : /\ Once!Deliver(id) => Goal
                        /\ Once!Free(id) => Goal
                        /\ Once!Confirm(id) => Goal
                        /\ \A c \in Contents : Once!Admit(id, c) => Goal
    BY DEF Once!OnceNext
  <1>2. ASSUME UNCHANGED <<ledger, digest, received>> PROVE Goal
    BY <1>2 DEF Once!onceVars
  <1>3. ASSUME NEW d \in Callers, AdmitNew(d) PROVE Goal
    <2>1. call[d].id \in Ids /\ call[d].c \in Contents
      BY <1>3 DEF AdmitNew, TypeInv, Named
    <2>2. Once!Admit(call[d].id, call[d].c)
      BY <1>3 DEF AdmitNew, Once!Admit
    <2>3. QED
      BY <1>1, <2>1, <2>2
  <1>4. ASSUME NEW d \in Callers, SteerAccepted(d) \/ SteerFails(d) \/ RunCommand(d) PROVE Goal
    <2>1. PICK m \in Ids, c \in Contents : m = call[d].id /\ c = call[d].c
      BY <1>4 DEF SteerAccepted, SteerFails, RunCommand, TypeInv, Named
    <2>2. received[m] = 0 /\ ledger[m] \in {"pending", "applied"}
      BY <1>4, <2>1 DEF SteerAccepted, SteerFails, RunCommand, Owned, CallOK, Untouched, Early
    <2>3. UNCHANGED <<ledger, digest>> /\ (Receive(m, c) \/ UNCHANGED received)
      BY <1>4, <2>1 DEF SteerAccepted, SteerFails, RunCommand
    <2>4. QED
      BY <1>1, <1>2, <2>2, <2>3, ReceiveOnce
  <1>5. ASSUME NEW d \in Callers, StartOrphaned(d) \/ StartAccepted(d) \/ StartRejected(d)
        PROVE  Goal
    <2>1. PICK m \in Ids, c \in Contents : m = fwd[d].id /\ c = fwd[d].c
      BY <1>5 DEF StartOrphaned, StartAccepted, StartRejected, TypeInv, Named
    <2>2. received[m] = 0 /\ ledger[m] \in {"pending", "applied"}
      BY <1>5, <2>1 DEF StartOrphaned, StartAccepted, StartRejected, Owned, FwdOK, Untouched
    <2>3. UNCHANGED <<ledger, digest>> /\ (Receive(m, c) \/ UNCHANGED received)
      BY <1>5, <2>1 DEF StartOrphaned, StartAccepted, StartRejected
    <2>4. QED
      BY <1>1, <1>2, <2>2, <2>3, ReceiveOnce
  <1>6. ASSUME NEW d \in Callers, Withdraw(d) \/ CallApplied(d) PROVE Goal
    <2>1. PICK m \in Ids : m = call[d].id
      BY <1>6 DEF Withdraw, CallApplied, TypeInv, Named
    <2>2. AtCall(d, "withdraw") => received[m] = 0
      BY <2>1 DEF Owned, CallOK, Untouched, Early
    <2>3. /\ UNCHANGED <<digest, received>>
          /\ \/ Resolve(m, "withdrawn") /\ received[m] = 0
             \/ Resolve(m, "applied")
             \/ UNCHANGED ledger
      BY <1>6, <2>1, <2>2 DEF Withdraw, CallApplied
    <2>4. QED
      BY <1>1, <1>2, <2>3, ResolveOnce DEF Once!onceVars
  <1>7. ASSUME NEW d \in Callers, StartWithdraws(d) \/ RecordApplied(d) PROVE Goal
    <2>1. PICK m \in Ids : m = fwd[d].id
      BY <1>7 DEF StartWithdraws, RecordApplied, TypeInv, Named
    <2>2. fwd[d].pc = "withdraw" => received[m] = 0
      BY <2>1 DEF Owned, FwdOK, Untouched
    <2>3. /\ UNCHANGED <<digest, received>>
          /\ \/ Resolve(m, "withdrawn") /\ received[m] = 0
             \/ Resolve(m, "applied")
             \/ UNCHANGED ledger
      BY <1>7, <2>1, <2>2 DEF StartWithdraws, RecordApplied
    <2>4. QED
      BY <1>1, <1>2, <2>3, ResolveOnce DEF Once!onceVars
  <1>8. ASSUME NEW d \in Callers,
               \/ Send(d) \/ Done(d) \/ AdmitFails(d) \/ AdmitKnown(d) \/ AdmitRefused(d)
               \/ DispatchFails(d) \/ OutOfBand(d) \/ SteerRefused(d) \/ SteerAdmitted(d)
               \/ SteerUnavailable(d) \/ StreamAgent(d) \/ StreamRefused(d) \/ ReplaceRun(d)
               \/ CancelSettles(d) \/ CancelRefused(d) \/ StartNotDelivered(d)
               \/ RejectRecorded(d) \/ RecordRow(d) \/ RecordFails(d) \/ CallRow(d)
               \/ CallRecordFails(d)
        PROVE  Goal
    <2>1. UNCHANGED <<ledger, digest, received>>
      BY <1>8
      DEF Send, Begin, Done, AdmitFails, AdmitKnown, AdmitRefused, DispatchFails, OutOfBand,
          SteerRefused, SteerAdmitted, SteerUnavailable, StreamAgent, StreamRefused, ReplaceRun,
          CancelSettles, CancelRefused, StartNotDelivered, RejectRecorded, RecordRow, RecordFails,
          CallRow, CallRecordFails
    <2>2. QED
      BY <2>1, <1>2
  <1>9. ASSUME \/ StopRun \/ StopRefused \/ AutonomousTurn \/ Crash
               \/ \E failed \in BOOLEAN : TurnEnds(failed)
               \/ UNCHANGED dispatchVars
        PROVE  Goal
    <2>1. UNCHANGED <<ledger, digest, received>>
      BY <1>9 DEF StopRun, StopRefused, AutonomousTurn, Crash, TurnEnds, dispatchVars
    <2>2. QED
      BY <2>1, <1>2
  <1>10. QED
    BY <1>3, <1>4, <1>5, <1>6, <1>7, <1>8, <1>9
    DEF DispatchNext, Loud, Quiet, AgentEvent

\* Every behaviour of the dispatch is one of once-only delivery.
THEOREM ImplementsOnce == DispatchSpec => OnceImpl
  <1>1. DispatchInit => Once!OnceInit
    BY DEF DispatchInit, Once!OnceInit
  <1>2. IInv /\ [DispatchNext]_dispatchVars => [Once!OnceNext]_(Once!onceVars)
    BY RefinementStep
  <1>3. QED
    BY <1>1, <1>2, Invariance, PTL DEF DispatchSpec, OnceImpl, Once!OnceSpec

=============================================================================
