----------------------------- MODULE DirectorySync -----------------------------
(***************************************************************************)
(* The directory of the daemon and the replicas that apps keep of it.  The *)
(* daemon numbers every change of an entity and remembers the last         *)
(* removals.  An app keeps the number up to which it knows the directory   *)
(* and asks for what changed after it; answers may come late or never, the *)
(* app may come back with an older replica, and the daemon forgets its     *)
(* numbers when it restarts.                                               *)
(*                                                                         *)
(* Agents, workspaces and projects are numbered in the same way, each by   *)
(* themselves: this is one of them.  Live updates number their change here *)
(* like any other; what an app does with them is left out.                 *)
(***************************************************************************)
EXTENDS Naturals, FiniteSets

CONSTANTS
  Entities,
  Projections,    \* what is shown of an entity
  Gone,           \* nothing is
  Apps,
  MaxTombstones,  \* removals that are remembered
  MaxHead,        \* bound: changes numbered
  MaxRestarts     \* bound: restarts of the daemon

ASSUME DirectoryAssumption ==
  /\ IsFiniteSet(Entities)
  /\ Gone \notin Projections
  /\ {MaxTombstones, MaxHead, MaxRestarts} \subseteq Nat

VARIABLES
  generation,  \* run of the daemon
  head,        \* the last number given
  expired,     \* the last removal that was forgotten
  directory,   \* what it shows of each entity
  number,      \* of the last change of each entity, 0 when it has none or was forgotten
  replica,     \* the directory as each app has it
  cursor,      \* up to where
  fetch,       \* its fetch
  saved        \* what it will come back with

collection == <<generation, head, expired, directory, number>>
directoryVars == <<collection, replica, cursor, fetch, saved>>

Directories == [Entities -> Projections \cup {Gone}]
EmptyDirectory == [e \in Entities |-> Gone]
Cursors == [generation : Nat, seq : Nat]
\* No daemon has it.
NoCursor == [generation |-> 0, seq |-> 0]
NoFetch == [pc |-> "none"]

DirectoryInit ==
  /\ generation = 1 /\ head = 0 /\ expired = 0
  /\ directory = EmptyDirectory /\ number = [e \in Entities |-> 0]
  /\ replica = [a \in Apps |-> EmptyDirectory]
  /\ cursor = [a \in Apps |-> NoCursor]
  /\ fetch = [a \in Apps |-> NoFetch]
  /\ saved = [a \in Apps |-> [replica |-> EmptyDirectory, cursor |-> NoCursor]]

(* The daemon. *)

\* One entity is replaced or removed, or all are replaced by a list: each change takes the next
\* number, those of what is no longer listed last, and an unchanged projection takes none.
Numberings(next) ==
  LET moved == {e \in Entities : next[e] # directory[e]}
      top == head + Cardinality(moved)
  IN {n \in [Entities -> 0 .. top] :
        /\ \A e \in Entities \ moved : n[e] = number[e]
        /\ \A e \in moved : n[e] > head
        /\ \A e, f \in moved : e # f => n[e] # n[f]
        /\ \A e, f \in moved : next[e] # Gone /\ next[f] = Gone => n[e] < n[f]}

\* The oldest removals beyond the limit.
Surplus(next, n) ==
  LET removals == {e \in Entities : next[e] = Gone /\ n[e] # 0}
  IN {e \in removals : Cardinality({f \in removals : n[f] > n[e]}) >= MaxTombstones}

\* Slip: nothing tells that they were.
ForgetUnnoted(surplus, n) ==
  /\ number' = [e \in Entities |-> IF e \in surplus THEN 0 ELSE n[e]]
  /\ UNCHANGED expired

\* They are forgotten, and the number of the last of them is kept.
Forget(surplus, n) ==
  /\ number' = [e \in Entities |-> IF e \in surplus THEN 0 ELSE n[e]]
  /\ \E last \in {expired} \cup {n[e] : e \in surplus} :
       /\ expired <= last /\ \A e \in surplus : n[e] <= last
       /\ expired' = last

Renumber(next) ==
  /\ directory' = next
  /\ head' = head + Cardinality({e \in Entities : next[e] # directory[e]}) /\ head' <= MaxHead
  /\ \E n \in Numberings(next) : Forget(Surplus(next, n), n)
  /\ UNCHANGED generation

\* An update of one entity, published to whichever sessions.
SequenceUpdate(e, p) ==
  /\ Renumber([directory EXCEPT ![e] = p])
  /\ UNCHANGED <<replica, cursor, fetch, saved>>

\* What changed after a cursor, or everything when that is not known any more.
Read(cur) ==
  LET known == cur.generation = generation /\ expired <= cur.seq /\ cur.seq <= head
      After(e) == ~known \/ number[e] > cur.seq
  IN [pc |-> "answered", mode |-> IF known THEN "changes" ELSE "snapshot",
      cursor |-> [generation |-> generation, seq |-> head],
      values |-> [e \in Entities |-> IF After(e) THEN directory[e] ELSE Gone],
      removals |-> {e \in Entities : known /\ directory[e] = Gone /\ After(e)}]

\* The list is read from the agents before, and may be behind them: any list will do.
Synchronize(a) ==
  /\ fetch[a].pc = "asked"
  /\ \E entries \in Directories : Renumber(entries)
  /\ \E since \in {fetch[a].since} : fetch' = [fetch EXCEPT ![a] = Read(since)']
  /\ UNCHANGED <<replica, cursor, saved>>

\* A list for somebody who is not there any more.
SynchronizeFor ==
  /\ \E entries \in Directories : Renumber(entries)
  /\ UNCHANGED <<replica, cursor, fetch, saved>>

RestartDaemon ==
  /\ generation <= MaxRestarts
  /\ generation' = generation + 1
  /\ head' = 0 /\ expired' = 0 /\ directory' = EmptyDirectory /\ number' = [e \in Entities |-> 0]
  /\ fetch' = [a \in Apps |-> IF fetch[a].pc = "asked" THEN NoFetch ELSE fetch[a]]
  /\ UNCHANGED <<replica, cursor, saved>>

(* An app. *)

\* A new fetch takes the place of one that is under way.
Ask(a) ==
  /\ fetch' = [fetch EXCEPT ![a] = [pc |-> "asked", since |-> cursor[a]]]
  /\ UNCHANGED <<collection, replica, cursor, saved>>

\* It fails, or its connection is lost.
FetchFails(a) ==
  /\ fetch[a].pc # "none"
  /\ fetch' = [fetch EXCEPT ![a] = NoFetch]
  /\ UNCHANGED <<collection, replica, cursor, saved>>

Merge(rep, read) ==
  IF read.mode = "snapshot" THEN read.values
  ELSE [e \in Entities |-> IF e \in read.removals THEN Gone
                           ELSE IF read.values[e] # Gone THEN read.values[e] ELSE rep[e]]

\* Within a generation a cursor does not go back.
Advance(cur, new) == IF cur.generation = new.generation /\ cur.seq >= new.seq THEN cur ELSE new

Commit(a) ==
  /\ fetch[a].pc = "answered"
  /\ replica' = [replica EXCEPT ![a] = Merge(@, fetch[a])]
  /\ cursor' = [cursor EXCEPT ![a] = Advance(@, fetch[a].cursor)]
  /\ fetch' = [fetch EXCEPT ![a] = NoFetch]
  /\ UNCHANGED <<collection, saved>>

\* Rows and cursor are written together, after a while.
Save(a) ==
  /\ saved' = [saved EXCEPT ![a] = [replica |-> replica[a], cursor |-> cursor[a]]]
  /\ UNCHANGED <<collection, replica, cursor, fetch>>

RestartApp(a) ==
  /\ replica' = [replica EXCEPT ![a] = saved[a].replica]
  /\ cursor' = [cursor EXCEPT ![a] = saved[a].cursor]
  /\ fetch' = [fetch EXCEPT ![a] = NoFetch]
  /\ UNCHANGED <<collection, saved>>

DirectoryNext ==
  \/ \E e \in Entities, p \in Projections \cup {Gone} : SequenceUpdate(e, p)
  \/ SynchronizeFor
  \/ RestartDaemon
  \/ \E a \in Apps :
       Ask(a) \/ Synchronize(a) \/ FetchFails(a) \/ Commit(a) \/ Save(a) \/ RestartApp(a)

DirectorySpec == DirectoryInit /\ [][DirectoryNext]_directoryVars

-------------------------------------------------------------------------------
\* Everything keeps its shape.
Reads == [pc : {"answered"}, mode : {"changes", "snapshot"}, cursor : Cursors,
          values : Directories, removals : SUBSET Entities]

DirectoryTypeOK ==
  /\ generation \in Nat \ {0} /\ head \in Nat /\ expired \in 0 .. head
  /\ directory \in Directories /\ number \in [Entities -> 0 .. head]
  /\ replica \in [Apps -> Directories] /\ cursor \in [Apps -> Cursors]
  /\ fetch \in [Apps -> {NoFetch} \cup [pc : {"asked"}, since : Cursors] \cup Reads]
  /\ saved \in [Apps -> [replica : Directories, cursor : Cursors]]

\* Whatever an app missed, while it was away or since it was last started, and however many
\* removals were forgotten meanwhile, one read brings its replica up to the directory.
CatchesUp == \A a \in Apps : Merge(replica[a], Read(cursor[a])) = directory
=============================================================================
