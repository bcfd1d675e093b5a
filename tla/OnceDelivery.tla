----------------------------- MODULE OnceDelivery -----------------------------
(***************************************************************************)
(* What the daemon promises of a logical message, with no word of calls,   *)
(* runs or forwarders: an attempt is admitted, the provider takes the      *)
(* message at most once, and only a message the provider never took is     *)
(* freed for another attempt.  An attempt may stay unresolved for good.    *)
(***************************************************************************)
EXTENDS Naturals

CONSTANTS Ids, Contents, NoContent

VARIABLES
  ledger,    \* state of the submission of each message
  digest,    \* the content it was first admitted with
  received   \* how often the provider took it

onceVars == <<ledger, digest, received>>

States == {"absent", "pending", "withdrawn", "applied"}

OnceInit ==
  /\ ledger = [id \in Ids |-> "absent"]
  /\ digest = [id \in Ids |-> NoContent]
  /\ received = [id \in Ids |-> 0]

\* A new attempt, or a new one after the last was withdrawn; the content never changes.
Admit(id, c) ==
  /\ ledger[id] = "absent" \/ (ledger[id] = "withdrawn" /\ digest[id] = c)
  /\ ledger' = [ledger EXCEPT ![id] = "pending"]
  /\ digest' = [digest EXCEPT ![id] = c]
  /\ UNCHANGED received

\* The provider takes the message: during the attempt, or after it for a recorded command.
Deliver(id) ==
  /\ ledger[id] \in {"pending", "applied"}
  /\ received[id] = 0
  /\ received' = [received EXCEPT ![id] = 1]
  /\ UNCHANGED <<ledger, digest>>

Free(id) ==
  /\ ledger[id] = "pending"
  /\ received[id] = 0
  /\ ledger' = [ledger EXCEPT ![id] = "withdrawn"]
  /\ UNCHANGED <<digest, received>>

Confirm(id) ==
  /\ ledger[id] = "pending"
  /\ ledger' = [ledger EXCEPT ![id] = "applied"]
  /\ UNCHANGED <<digest, received>>

OnceNext ==
  \E id \in Ids :
    \/ \E c \in Contents : Admit(id, c)
    \/ Deliver(id)
    \/ Free(id)
    \/ Confirm(id)

OnceSpec == OnceInit /\ [][OnceNext]_onceVars
=============================================================================
