----------------------------- MODULE AgentMessages -----------------------------
(***************************************************************************)
(* Messages of agents to one agent: they wait two quiet seconds, go out in *)
(* groups, one group at a time, and their senders learn what became of     *)
(* them.  The timer is not modelled: the window may be flushed at any time.*)
(***************************************************************************)
EXTENDS Naturals, Sequences, FiniteSets, Functions

CONSTANTS
  Modes,     \* session modes a message may ask for
  NoMode,
  MaxOthers  \* bound: messages of other senders, and waits for them

ASSUME MessagesAssumption ==
  /\ NoMode \notin Modes
  /\ MaxOthers \in Nat

VARIABLES
  admitted,  \* messages admitted, in order
  window,    \* those that wait for the quiet period
  groups,    \* groups of messages to dispatch, in order; only the first is under way
  under,     \* it was given to the agent
  handed,    \* messages the agent's dispatch acknowledged
  refused,   \* messages of groups that failed
  waiter,    \* a wait for what was admitted before it
  service

messageVars == <<admitted, window, groups, under, handed, refused, waiter, service>>

\* Nobody is a sender without a subscription.
Other == 0
NoWait == [on |-> FALSE, upto |-> 0, for |-> {}]

MessagesInit ==
  /\ admitted = <<>> /\ window = <<>>
  /\ groups = <<>> /\ under = FALSE
  /\ handed = <<>> /\ refused = {}
  /\ waiter = NoWait
  /\ service = "open"

Settled == Range(handed) \cup refused

\* A message joins a group unless what it asks for conflicts.
Fits(g, m) ==
  \A k \in Range(g) :
    /\ admitted[k].turn = admitted[m].turn
    /\ NoMode \in {admitted[k].mode, admitted[m].mode} \/ admitted[k].mode = admitted[m].mode

\* A flush cuts its messages, in their order, into groups; one begins a group exactly when it does
\* not fit the group before it.
Splits(ms) ==
  LET Cuts(n) == {c \in [1..(n + 1) -> 1..(Len(ms) + 1)] :
                    /\ c[1] = 1 /\ c[n + 1] = Len(ms) + 1
                    /\ \A i, j \in 1..(n + 1) : i < j => c[i] < c[j]}
      Parts(n, c) == [j \in 1..n |-> SubSeq(ms, c[j], c[j + 1] - 1)]
      Greedy(gs) == \A j \in DOMAIN gs :
                      /\ \A i \in 2..Len(gs[j]) : Fits(SubSeq(gs[j], 1, i - 1), gs[j][i])
                      /\ j > 1 => ~Fits(gs[j - 1], gs[j][1])
  IN {gs \in UNION {{Parts(n, c) : c \in Cuts(n)} : n \in 1..Len(ms)} : Greedy(gs)}

\* A closed service takes no message.
Enqueue(m) ==
  /\ service = "open"
  /\ admitted' = Append(admitted, m)
  /\ window' = Append(window, Len(admitted'))
  /\ UNCHANGED <<groups, under, handed, refused, waiter, service>>

OtherSends == \E turn \in {"steer", "interrupt"}, mode \in Modes \cup {NoMode} :
  /\ Cardinality({i \in DOMAIN admitted : admitted[i].from = Other}) < MaxOthers
  /\ Enqueue([from |-> Other, what |-> "message", turn |-> turn, mode |-> mode])

\* Slip: a flush puts its messages before those that wait to be dispatched.
FlushFirst ==
  /\ window # <<>>
  /\ \E gs \in Splits(window) :
       groups' = IF under THEN <<Head(groups)>> \o gs \o Tail(groups) ELSE gs \o groups
  /\ window' = <<>>

Flush ==
  /\ window # <<>>
  /\ \E gs \in Splits(window) : groups' = groups \o gs
  /\ window' = <<>>

QuietPeriodEnds ==
  /\ service = "open"
  /\ Flush
  /\ UNCHANGED <<admitted, under, handed, refused, waiter, service>>

Dispatch ==
  /\ groups # <<>> /\ ~under
  /\ under' = TRUE
  /\ UNCHANGED <<admitted, window, groups, handed, refused, waiter, service>>

DispatchAcknowledged ==
  /\ under
  /\ handed' = handed \o Head(groups)
  /\ groups' = Tail(groups)
  /\ under' = FALSE
  /\ UNCHANGED <<admitted, window, refused, waiter, service>>

\* Authority may be gone before the dispatch, or the dispatch fails; the next group goes on.
DispatchFails ==
  /\ groups # <<>>
  /\ refused' = refused \cup Range(Head(groups))
  /\ groups' = Tail(groups)
  /\ under' = FALSE
  /\ UNCHANGED <<admitted, window, handed, waiter, service>>

\* Slip: a wait looks only at what is in the window.
WaitForWindow ==
  /\ ~waiter.on
  /\ waiter' = [on |-> TRUE, upto |-> Len(admitted), for |-> Range(window)]
  /\ UNCHANGED <<admitted, window, groups, under, handed, refused, service>>

\* A wait covers the window and, through it or the last group under way, all before.
WaitForDispatch ==
  /\ ~waiter.on
  /\ waiter' = [on |-> TRUE, upto |-> Len(admitted),
                for |-> Range(window) \cup IF groups = <<>> THEN {} ELSE Range(groups[Len(groups)])]
  /\ UNCHANGED <<admitted, window, groups, under, handed, refused, service>>

\* It ends when all of these were acknowledged, or when one was refused or it is aborted.
WaitEnds ==
  /\ waiter.on
  /\ waiter.for \subseteq Range(handed)
  /\ waiter' = [waiter EXCEPT !.on = FALSE, !.for = {}]
  /\ UNCHANGED <<admitted, window, groups, under, handed, refused, service>>

WaitRejected ==
  /\ waiter.on
  /\ waiter' = NoWait
  /\ UNCHANGED <<admitted, window, groups, under, handed, refused, service>>

\* A shutdown flushes what waits and takes nothing more.
CloseMessages ==
  /\ service = "open"
  /\ service' = "closing"
  /\ \/ Flush
     \/ window = <<>> /\ UNCHANGED <<window, groups>>
  /\ UNCHANGED <<admitted, under, handed, refused, waiter>>

MessagesClosed ==
  /\ service = "closing"
  /\ groups = <<>>
  /\ service' = "closed"
  /\ UNCHANGED <<admitted, window, groups, under, handed, refused, waiter>>

MessagesNext ==
  \/ OtherSends \/ QuietPeriodEnds \/ Dispatch \/ DispatchAcknowledged \/ DispatchFails
  \/ WaitForDispatch \/ WaitEnds \/ WaitRejected
  \/ CloseMessages \/ MessagesClosed

MessagesSpec == MessagesInit /\ [][MessagesNext]_messageVars

-----------------------------------------------------------------------------
(* Properties *)

MessagesTypeOK ==
  /\ admitted \in Seq([from : Nat, what : {"message", "permission", "finish", "lost"},
                       turn : {"steer", "interrupt"}, mode : Modes \cup {NoMode}])
  /\ {window, handed} \subseteq Seq(DOMAIN admitted)
  /\ groups \in Seq(Seq(DOMAIN admitted) \ {<<>>})
  /\ refused \subseteq DOMAIN admitted
  /\ under => groups # <<>>
  /\ waiter \in [on : BOOLEAN, upto : Nat, for : SUBSET DOMAIN admitted]
  /\ service \in {"open", "closing", "closed"}

\* The agent gets messages in the order they were admitted, each at most once, whatever groups they
\* went out in.
HandedInOrder == \A i, j \in DOMAIN handed : i < j => handed[i] < handed[j]

\* When a wait for the agent's messages ends well, nothing admitted before it is still on its way:
\* whoever then waits for the agent to be done does not miss a turn that is yet to start.
WaitCovers == ~waiter.on => 1..waiter.upto \subseteq Settled
=============================================================================
