-------------------------- MODULE DirectorySyncProofs --------------------------
(***************************************************************************)
(* What DirectorySync promises for every set of entities, projections and  *)
(* apps, and every number of removals that are remembered: whatever an app *)
(* missed, one read brings its replica up to the directory.                *)
(***************************************************************************)
EXTENDS DirectorySync, FiniteSetTheorems, TLAPS

\* A cursor is not ahead of the daemon, and a replica is right about each entity whose last change
\* is not after its cursor, unless a removal after the cursor was forgotten.
Tracks(rep, cur) ==
  /\ cur.generation <= generation
  /\ cur.generation = generation => cur.seq <= head
  /\ cur.generation = generation /\ expired <= cur.seq =>
       \A e \in Entities : number[e] <= cur.seq => rep[e] = directory[e]

\* So is the replica that the answer of a fetch will make.
FetchTracks(a) ==
  /\ fetch[a].pc = "asked" => fetch[a].since = cursor[a]
  /\ fetch[a].pc = "answered" =>
       /\ Tracks(Merge(replica[a], fetch[a]), fetch[a].cursor)
       /\ cursor[a].generation = fetch[a].cursor.generation => cursor[a].seq <= fetch[a].cursor.seq

DirectoryInv ==
  /\ DirectoryTypeOK
  /\ \A a \in Apps : Tracks(replica[a], cursor[a])
  /\ \A a \in Apps : Tracks(saved[a].replica, saved[a].cursor)
  /\ \A a \in Apps : FetchTracks(a)

Listed == generation \in Nat \ {0} /\ head \in Nat /\ expired \in 0 .. head
          /\ directory \in Directories /\ number \in [Entities -> 0 .. head]

-----------------------------------------------------------------------------

\* What a read answers, and that it makes a replica that tracks the directory the directory itself.
LEMMA ReadBrings ==
  Listed => \A rep \in Directories, cur \in Cursors :
    /\ Read(cur) \in Reads
    /\ Merge(rep, Read(cur)) \in Directories
    /\ Tracks(rep, cur) => Merge(rep, Read(cur)) = directory
<1> SUFFICES ASSUME Listed, NEW rep \in Directories, NEW cur \in Cursors
             PROVE  /\ Read(cur) \in Reads
                    /\ Merge(rep, Read(cur)) \in Directories
                    /\ Tracks(rep, cur) => Merge(rep, Read(cur)) = directory
  OBVIOUS
<1>1. Read(cur) \in Reads
  BY DEF Listed, Read, Reads, Cursors, Directories
<1>2. Merge(rep, Read(cur)) \in Directories
  BY <1>1 DEF Merge, Reads, Directories
<1>3. ASSUME Tracks(rep, cur), NEW e \in Entities
      PROVE  Merge(rep, Read(cur))[e] = directory[e]
  BY <1>3 DEF Listed, Tracks, Read, Merge, Cursors, Directories
<1> QED BY <1>1, <1>2, <1>3 DEF Listed, Directories

\* The same, after a step.
LEMMA ReadBringsNext ==
  Listed' => \A rep \in Directories, cur \in Cursors :
    /\ Read(cur)' \in Reads
    /\ Merge(rep, Read(cur)') \in Directories
    /\ Tracks(rep, cur)' => Merge(rep, Read(cur)') = directory'
<1>1. (Listed => \A rep \in Directories, cur \in Cursors :
    /\ Read(cur) \in Reads
    /\ Merge(rep, Read(cur)) \in Directories
    /\ Tracks(rep, cur) => Merge(rep, Read(cur)) = directory)'
  BY ReadBrings, PTL
<1> QED BY <1>1

-----------------------------------------------------------------------------

\* Numbering changes leaves a cursor as good as it was.
LEMMA RenumberTracks ==
  ASSUME Listed, NEW next \in Directories, Renumber(next)
  PROVE  /\ Listed'
         /\ \A rep \in Directories, cur \in Cursors : Tracks(rep, cur) => Tracks(rep, cur)'
<1> DEFINE moved == {e \in Entities : next[e] # directory[e]}
<1>1. Cardinality(moved) \in Nat
  <2>1. IsFiniteSet(moved)
    BY DirectoryAssumption, FS_Subset
  <2> QED BY <2>1, FS_CardinalityType
<1>2. PICK n \in Numberings(next) : Forget(Surplus(next, n), n)
  BY DEF Renumber
<1> DEFINE surplus == Surplus(next, n)
<1>3. /\ head' = head + Cardinality(moved) /\ directory' = next /\ generation' = generation
      /\ number' = [e \in Entities |-> IF e \in surplus THEN 0 ELSE n[e]]
      /\ expired' \in {expired} \cup {n[e] : e \in surplus}
      /\ expired <= expired' /\ \A e \in surplus : n[e] <= expired'
  BY <1>2 DEF Renumber, Forget
<1>4. /\ n \in [Entities -> 0 .. head']
      /\ \A e \in Entities \ moved : n[e] = number[e]
      /\ \A e \in moved : n[e] > head
  BY <1>2, <1>3 DEF Numberings
<1>5. surplus \subseteq Entities /\ \A e \in surplus : next[e] = Gone
  BY DEF Surplus
<1> HIDE DEF moved, surplus
<1>6. Listed'
  BY <1>1, <1>3, <1>4, <1>5 DEF Listed
<1>7. ASSUME NEW rep \in Directories, NEW cur \in Cursors, Tracks(rep, cur)
      PROVE  Tracks(rep, cur)'
  <2>1. cur.generation <= generation' /\ (cur.generation = generation' => cur.seq <= head')
    BY <1>1, <1>3, <1>7 DEF Tracks, Listed, Cursors
  <2>2. ASSUME cur.generation = generation', expired' <= cur.seq,
               NEW e \in Entities, number'[e] <= cur.seq
        PROVE  rep[e] = directory'[e]
    <3>1. n[e] <= cur.seq
      BY <1>3, <1>4, <1>5, <2>2 DEF Listed, Cursors
    <3>2. e \notin moved
      BY <1>3, <1>4, <1>7, <2>2, <3>1 DEF Tracks, Listed, Cursors
    <3>3. number[e] <= cur.seq /\ expired <= cur.seq
      BY <1>3, <1>4, <1>6, <2>2, <3>1, <3>2 DEF Listed, Cursors
    <3> QED BY <1>3, <1>7, <2>2, <3>2, <3>3 DEF Tracks, moved
  <2> QED BY <2>1, <2>2 DEF Tracks
<1> QED BY <1>6, <1>7

-----------------------------------------------------------------------------

\* What the apps keep, in terms of the collection alone.
Apart == /\ replica \in [Apps -> Directories] /\ cursor \in [Apps -> Cursors]
         /\ fetch \in [Apps -> {NoFetch} \cup [pc : {"asked"}, since : Cursors] \cup Reads]
         /\ saved \in [Apps -> [replica : Directories, cursor : Cursors]]

\* The shapes, split in two.
LEMMA Shapes == DirectoryTypeOK <=> Listed /\ Apart
  BY DEF DirectoryTypeOK, Listed, Apart

\* What a fetch holds in each of its states.
LEMMA FetchShapes ==
  ASSUME Apart, NEW a \in Apps
  PROVE  /\ fetch[a].pc = "asked" => fetch[a].since \in Cursors
         /\ fetch[a].pc = "answered" => fetch[a] \in Reads
  BY DEF Apart, NoFetch, Reads

\* An answer merged into a directory makes a directory.
LEMMA MergeShape ==
  ASSUME NEW rep \in Directories, NEW read \in Reads
  PROVE  Merge(rep, read) \in Directories
  BY DEF Merge, Reads, Directories

\* It holds at the start.
LEMMA InitInv == DirectoryInit => DirectoryInv
<1> SUFFICES ASSUME DirectoryInit PROVE DirectoryInv
  OBVIOUS
<1>1. DirectoryTypeOK
  BY DEF DirectoryInit, DirectoryTypeOK, EmptyDirectory, Directories, NoCursor, Cursors
<1>2. \A a \in Apps : Tracks(replica[a], cursor[a]) /\ Tracks(saved[a].replica, saved[a].cursor)
  BY DEF DirectoryInit, Tracks, NoCursor
<1>3. \A a \in Apps : FetchTracks(a)
  BY DEF DirectoryInit, FetchTracks, NoFetch
<1> QED BY <1>1, <1>2, <1>3 DEF DirectoryInv

\* An app that does nothing, or loses its fetch, keeps the invariant while every cursor stays as good
\* as it was.
LEMMA AppKept ==
  ASSUME DirectoryInv, NEW a \in Apps,
         \A rep \in Directories, cur \in Cursors : Tracks(rep, cur) => Tracks(rep, cur)',
         replica'[a] = replica[a], cursor'[a] = cursor[a], saved'[a] = saved[a],
         fetch'[a] = fetch[a] \/ fetch'[a] = NoFetch
  PROVE  /\ Tracks(replica[a], cursor[a])'
         /\ Tracks(saved[a].replica, saved[a].cursor)'
         /\ FetchTracks(a)'
<1>1. Apart
  BY Shapes DEF DirectoryInv
<1>2. Tracks(replica[a], cursor[a])'
  <2>1. replica[a] \in Directories /\ cursor[a] \in Cursors /\ Tracks(replica[a], cursor[a])
    BY <1>1 DEF DirectoryInv, Apart
  <2> QED BY <2>1 DEF Tracks
<1>3. Tracks(saved[a].replica, saved[a].cursor)'
  <2>1. /\ saved[a].replica \in Directories /\ saved[a].cursor \in Cursors
        /\ Tracks(saved[a].replica, saved[a].cursor)
    BY <1>1 DEF DirectoryInv, Apart
  <2> QED BY <2>1 DEF Tracks
<1>4. CASE fetch'[a] = NoFetch
  BY <1>2, <1>3, <1>4 DEF FetchTracks, NoFetch
<1>5. CASE fetch'[a] = fetch[a] /\ fetch[a].pc # "answered"
  BY <1>2, <1>3, <1>5 DEF FetchTracks, DirectoryInv
<1>6. CASE fetch'[a] = fetch[a] /\ fetch[a].pc = "answered"
  <2> DEFINE rep == Merge(replica[a], fetch[a])
             cur == fetch[a].cursor
  <2>1. fetch[a] \in Reads /\ replica[a] \in Directories
    BY <1>1, <1>6, FetchShapes DEF Apart
  <2>2. rep \in Directories /\ cur \in Cursors
    BY <2>1, MergeShape DEF Reads
  <2>3. Tracks(rep, cur) /\ (cursor[a].generation = cur.generation => cursor[a].seq <= cur.seq)
    BY <1>6 DEF FetchTracks, DirectoryInv
  <2>4. Merge(replica[a], fetch[a])' = rep /\ fetch'[a].cursor = cur
    BY <1>6 DEF Merge
  <2> HIDE DEF rep, cur
  <2>5. Tracks(Merge(replica[a], fetch[a]), fetch[a].cursor)'
    BY <2>2, <2>3, <2>4 DEF Tracks
  <2> QED BY <1>2, <1>3, <1>6, <2>3, <2>4, <2>5 DEF FetchTracks, cur
<1> QED BY <1>4, <1>5, <1>6

\* So do all of them together.
LEMMA CollectionMoves ==
  ASSUME DirectoryInv, Listed', Apart',
         \A rep \in Directories, cur \in Cursors : Tracks(rep, cur) => Tracks(rep, cur)',
         UNCHANGED <<replica, cursor, saved>>,
         \A a \in Apps : fetch'[a] = fetch[a] \/ fetch'[a] = NoFetch
  PROVE  DirectoryInv'
<1>1. DirectoryTypeOK'
  BY DEF DirectoryTypeOK, Listed, Apart
<1>2. ASSUME NEW a \in Apps
      PROVE  /\ Tracks(replica[a], cursor[a])'
             /\ Tracks(saved[a].replica, saved[a].cursor)'
             /\ FetchTracks(a)'
  BY <1>2, AppKept
<1> QED BY <1>1, <1>2 DEF DirectoryInv

-----------------------------------------------------------------------------

\* The steps of the daemon.
LEMMA DaemonSteps ==
  ASSUME DirectoryInv,
         \/ \E e \in Entities, p \in Projections \cup {Gone} : SequenceUpdate(e, p)
         \/ SynchronizeFor
         \/ RestartDaemon
  PROVE  DirectoryInv'
<1>1. Listed /\ Apart
  BY Shapes DEF DirectoryInv
<1>2. CASE \/ \E e \in Entities, p \in Projections \cup {Gone} : SequenceUpdate(e, p)
           \/ SynchronizeFor
  <2>1. PICK next \in Directories : Renumber(next)
    BY <1>1, <1>2 DEF SequenceUpdate, SynchronizeFor, Listed, Directories
  <2>2. UNCHANGED <<replica, cursor, fetch, saved>>
    BY <1>2 DEF SequenceUpdate, SynchronizeFor
  <2>3. Listed' /\ \A rep \in Directories, cur \in Cursors : Tracks(rep, cur) => Tracks(rep, cur)'
    BY <1>1, <2>1, RenumberTracks
  <2>4. Apart'
    BY <1>1, <2>2 DEF Apart
  <2> QED BY <2>2, <2>3, <2>4, CollectionMoves
<1>3. CASE RestartDaemon
  <2>1. Listed'
    BY <1>1, <1>3 DEF RestartDaemon, Listed, EmptyDirectory, Directories
  <2>2. \A rep \in Directories, cur \in Cursors : Tracks(rep, cur) => Tracks(rep, cur)'
    BY <1>1, <1>3 DEF RestartDaemon, Tracks, Listed, Cursors
  <2>3. Apart' /\ \A a \in Apps : fetch'[a] = fetch[a] \/ fetch'[a] = NoFetch
    BY <1>1, <1>3 DEF RestartDaemon, Apart
  <2>4. UNCHANGED <<replica, cursor, saved>>
    BY <1>3 DEF RestartDaemon
  <2> QED BY <2>1, <2>2, <2>3, <2>4, CollectionMoves
<1> QED BY <1>2, <1>3

\* An answer makes the replica the directory it was read from.
LEMMA SynchronizeStep ==
  ASSUME DirectoryInv, NEW b \in Apps, Synchronize(b)
  PROVE  DirectoryInv'
<1>1. Listed /\ Apart
  BY Shapes DEF DirectoryInv
<1>2. PICK next \in Directories : Renumber(next)
  BY DEF Synchronize
<1>3. Listed' /\ \A rep \in Directories, cur \in Cursors : Tracks(rep, cur) => Tracks(rep, cur)'
  BY <1>1, <1>2, RenumberTracks
<1>4. PICK since \in {fetch[b].since} : fetch' = [fetch EXCEPT ![b] = Read(since)']
  BY DEF Synchronize
<1>5. since = cursor[b] /\ since \in Cursors /\ replica[b] \in Directories
  BY <1>1, <1>4 DEF Synchronize, DirectoryInv, FetchTracks, Apart
<1>6. UNCHANGED <<replica, cursor, saved>>
  BY DEF Synchronize
<1> DEFINE read == Read(since)'
<1>7. read \in Reads /\ (Tracks(replica[b], since)' => Merge(replica[b], read) = directory')
  BY <1>3, <1>5, <1>6, ReadBringsNext
<1>8. Tracks(replica[b], cursor[b])'
  BY <1>3, <1>5, <1>6 DEF Tracks, DirectoryInv
<1>9. fetch'[b] = read /\ \A a \in Apps \ {b} : fetch'[a] = fetch[a]
  BY <1>1, <1>4 DEF Apart
<1>10. DirectoryTypeOK'
  BY <1>1, <1>3, <1>4, <1>6, <1>7 DEF DirectoryTypeOK, Listed, Apart
<1>11. ASSUME NEW a \in Apps
       PROVE  /\ Tracks(replica[a], cursor[a])'
              /\ Tracks(saved[a].replica, saved[a].cursor)'
              /\ FetchTracks(a)'
  <2>1. CASE a # b
    BY <1>3, <1>6, <1>9, <2>1, AppKept
  <2>2. CASE a = b
    <3>1. Tracks(saved[b].replica, saved[b].cursor)'
      <4>1. /\ saved[b].replica \in Directories /\ saved[b].cursor \in Cursors
            /\ Tracks(saved[b].replica, saved[b].cursor)
        BY <1>1 DEF DirectoryInv, Apart
      <4> QED BY <1>3, <1>6, <4>1 DEF Tracks
    <3>2. read.pc = "answered" /\ read.cursor = [generation |-> generation', seq |-> head']
      BY DEF Read
    <3>3. Merge(replica[b], fetch[b])' = directory'
      <4>1. Tracks(replica[b], since)'
        BY <1>5, <1>6, <1>8 DEF Tracks
      <4>2. Merge(replica[b], fetch[b])' = Merge(replica[b], read)
        BY <1>6, <1>9 DEF Merge
      <4> QED BY <1>7, <4>1, <4>2
    <3>4. Tracks(Merge(replica[b], fetch[b]), fetch[b].cursor)'
      BY <1>3, <1>9, <3>2, <3>3 DEF Tracks, Listed
    <3>5. FetchTracks(b)'
      BY <1>6, <1>8, <1>9, <3>2, <3>4 DEF FetchTracks, Tracks
    <3> QED BY <1>8, <2>2, <3>1, <3>5
  <2> QED BY <2>1, <2>2
<1> QED BY <1>10, <1>11 DEF DirectoryInv

\* The steps of one app: the others keep what they have.
LEMMA AppSteps ==
  ASSUME DirectoryInv, NEW b \in Apps, Ask(b) \/ FetchFails(b) \/ Commit(b) \/ Save(b) \/ RestartApp(b)
  PROVE  DirectoryInv'
<1>1. Listed /\ Apart
  BY Shapes DEF DirectoryInv
<1>2. UNCHANGED collection
  BY DEF Ask, FetchFails, Commit, Save, RestartApp
<1>3. Listed' /\ \A rep \in Directories, cur \in Cursors : Tracks(rep, cur) <=> Tracks(rep, cur)'
  BY <1>1, <1>2 DEF collection, Listed, Tracks
<1>4. \A a \in Apps \ {b} :
        /\ replica'[a] = replica[a] /\ cursor'[a] = cursor[a]
        /\ saved'[a] = saved[a] /\ fetch'[a] = fetch[a]
  BY <1>1 DEF Ask, FetchFails, Commit, Save, RestartApp, Apart
<1>5. ASSUME NEW a \in Apps \ {b}
      PROVE  /\ Tracks(replica[a], cursor[a])'
             /\ Tracks(saved[a].replica, saved[a].cursor)'
             /\ FetchTracks(a)'
  BY <1>3, <1>4, <1>5, AppKept
<1>6. /\ replica[b] \in Directories /\ cursor[b] \in Cursors /\ Tracks(replica[b], cursor[b])
      /\ saved[b].replica \in Directories /\ saved[b].cursor \in Cursors
      /\ Tracks(saved[b].replica, saved[b].cursor)
  BY <1>1 DEF DirectoryInv, Apart
<1>7. ASSUME Apart', Tracks(replica[b], cursor[b])', Tracks(saved[b].replica, saved[b].cursor)',
             FetchTracks(b)'
      PROVE  DirectoryInv'
  <2>1. DirectoryTypeOK'
    BY <1>3, <1>7 DEF DirectoryTypeOK, Listed, Apart
  <2> QED BY <1>5, <1>7, <2>1 DEF DirectoryInv
<1>8. CASE Ask(b)
  <2>1. Apart'
    BY <1>1, <1>6, <1>8 DEF Ask, Apart
  <2>2. replica' = replica /\ cursor' = cursor /\ saved' = saved
    BY <1>8 DEF Ask
  <2>3. Tracks(replica[b], cursor[b])' /\ Tracks(saved[b].replica, saved[b].cursor)'
    BY <1>3, <1>6, <2>2 DEF Tracks
  <2>4. FetchTracks(b)'
    BY <1>1, <1>8 DEF Ask, FetchTracks, Apart
  <2> QED BY <1>7, <2>1, <2>3, <2>4
<1>9. CASE FetchFails(b)
  <2>1. Apart'
    BY <1>1, <1>9 DEF FetchFails, Apart
  <2>2. /\ replica' = replica /\ cursor' = cursor /\ saved' = saved
        /\ fetch'[b] = NoFetch
    BY <1>1, <1>9 DEF FetchFails, Apart
  <2> QED BY <1>3, <1>7, <2>1, <2>2, AppKept
<1>10. CASE Commit(b)
  <2>1. fetch[b] \in Reads /\ fetch[b].cursor \in Cursors
    BY <1>1, <1>10, FetchShapes DEF Commit, Reads
  <2>2. /\ Tracks(Merge(replica[b], fetch[b]), fetch[b].cursor)
        /\ cursor[b].generation = fetch[b].cursor.generation => cursor[b].seq <= fetch[b].cursor.seq
    BY <1>10 DEF Commit, DirectoryInv, FetchTracks
  <2>3. Advance(cursor[b], fetch[b].cursor) = fetch[b].cursor
    BY <1>6, <2>1, <2>2 DEF Advance, Cursors
  <2>4. Merge(replica[b], fetch[b]) \in Directories
    BY <1>6, <2>1, MergeShape
  <2>5. /\ replica'[b] = Merge(replica[b], fetch[b]) /\ cursor'[b] = fetch[b].cursor
        /\ fetch'[b] = NoFetch /\ saved' = saved
    BY <1>1, <1>10, <2>3 DEF Commit, Apart
  <2>6. Apart'
    BY <1>1, <1>10, <2>1, <2>3, <2>4 DEF Commit, Apart
  <2>7. Tracks(replica[b], cursor[b])' /\ Tracks(saved[b].replica, saved[b].cursor)'
    BY <1>2, <1>6, <2>2, <2>5 DEF Tracks, collection
  <2>8. FetchTracks(b)'
    BY <2>5 DEF FetchTracks, NoFetch
  <2> QED BY <1>7, <2>6, <2>7, <2>8
<1>11. CASE Save(b)
  <2>1. Apart'
    BY <1>1, <1>6, <1>11 DEF Save, Apart
  <2>2. /\ replica' = replica /\ cursor' = cursor /\ fetch' = fetch
        /\ saved'[b] = [replica |-> replica[b], cursor |-> cursor[b]]
    BY <1>1, <1>11 DEF Save, Apart
  <2>3. Tracks(replica[b], cursor[b])' /\ Tracks(saved[b].replica, saved[b].cursor)'
    BY <1>2, <1>6, <2>2 DEF Tracks, collection
  <2>4. FetchTracks(b)
    BY DEF DirectoryInv
  <2>5. FetchTracks(b)'
    BY <1>2, <2>2, <2>4 DEF FetchTracks, Tracks, Merge, collection
  <2> QED BY <1>7, <2>1, <2>3, <2>5
<1>12. CASE RestartApp(b)
  <2>1. Apart'
    BY <1>1, <1>6, <1>12 DEF RestartApp, Apart
  <2>2. /\ replica'[b] = saved[b].replica /\ cursor'[b] = saved[b].cursor
        /\ fetch'[b] = NoFetch /\ saved' = saved
    BY <1>1, <1>12 DEF RestartApp, Apart
  <2>3. Tracks(replica[b], cursor[b])' /\ Tracks(saved[b].replica, saved[b].cursor)'
    BY <1>2, <1>6, <2>2 DEF Tracks, collection
  <2>4. FetchTracks(b)'
    BY <2>2 DEF FetchTracks, NoFetch
  <2> QED BY <1>7, <2>1, <2>3, <2>4
<1> QED BY <1>8, <1>9, <1>10, <1>11, <1>12

-----------------------------------------------------------------------------

\* Every step keeps the invariant.
LEMMA Stutter == DirectoryInv /\ UNCHANGED directoryVars => DirectoryInv'
  BY DEF DirectoryInv, directoryVars, collection, DirectoryTypeOK, Tracks, FetchTracks, Merge

\* And so does a step of the specification.
LEMMA StepInv == DirectoryInv /\ [DirectoryNext]_directoryVars => DirectoryInv'
  BY DaemonSteps, SynchronizeStep, AppSteps, Stutter DEF DirectoryNext

\* Cursors, answers and saved replicas always track the directory.
THEOREM Invariance == DirectorySpec => []DirectoryInv
  BY InitInv, StepInv, PTL DEF DirectorySpec

\* The collection, the replicas and what is under way between them keep their shape.
THEOREM DirectoryTypeCorrect == DirectorySpec => []DirectoryTypeOK
<1>1. DirectoryInv => DirectoryTypeOK
  BY DEF DirectoryInv
<1> QED BY <1>1, Invariance, PTL

\* Whatever an app missed, one read brings its replica up to the directory, however few removals
\* the daemon remembers.
THEOREM AlwaysCatchesUp == DirectorySpec => []CatchesUp
<1>1. DirectoryInv => CatchesUp
  <2> SUFFICES ASSUME DirectoryInv, NEW a \in Apps
               PROVE  Merge(replica[a], Read(cursor[a])) = directory
    BY DEF CatchesUp
  <2>1. Listed /\ Apart
    BY Shapes DEF DirectoryInv
  <2>2. replica[a] \in Directories /\ cursor[a] \in Cursors /\ Tracks(replica[a], cursor[a])
    BY <2>1 DEF DirectoryInv, Apart
  <2> QED BY <2>1, <2>2, ReadBrings
<1> QED BY <1>1, Invariance, PTL
=============================================================================
