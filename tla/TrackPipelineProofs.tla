------------------------ MODULE TrackPipelineProofs -------------------------
(***************************************************************************)
(* What holds of the tracks of the running jobs (TrackPipeline) for every  *)
(* value of the constants: the locks of the output paths do what they are  *)
(* for, whatever fails, is cancelled or starts again, and the permits come *)
(* back but for one panic.                                                 *)
(***************************************************************************)
EXTENDS TrackPipeline, FiniteSetTheorems, TLAPS

-----------------------------------------------------------------------------
(* The inductive invariant of the locks and files *)

\* The tracks that hold or wait for an entry; the states of an item that has its file.
Having(e) == {t \in Tracks : entry[t] = e}
Done == {"completed", "skipped"}
\* Nobody counts on the file at out.
Clean(out) == out \in cleared \/ \A u \in setup.tracks : path[u] = out => item[u] \notin Done

LocksTyped ==
    /\ lease \in [Tracks -> Outputs \cup {None}] /\ entry \in [Tracks -> Entries \cup {0}]
    /\ table \in [Outputs -> Entries \cup {0}]
    /\ token \subseteq Entries /\ refs \in [Entries -> Nat]
TracksTyped ==
    /\ setup \in Setups
    /\ pc \in [Tracks -> Steps] /\ codec \in [Tracks -> Codecs]
    /\ path \in [Tracks -> Outputs \cup {None}]
    /\ file \in [Outputs -> Tracks \cup {None}]
    /\ item \in [Tracks -> {"open", "completed", "skipped", "failed", "cancelled"}]

\* A track's part in the locks: its entry is its path's in the table from the
\* moment it joins until it leaves, with its token in the channel or held.
LockOf(t) ==
    /\ lease[t] # None => lease[t] = path[t] /\ entry[t] # 0 /\ entry[t] \notin token
    /\ entry[t] # 0 => /\ lease[t] # None \/ pc[t] = "wait"
                       /\ path[t] # None /\ table[path[t]] = entry[t]
    /\ pc[t] = "wait" => entry[t] # 0 /\ lease[t] = None
    /\ pc[t] \in {"idle", "enter", "over"} => entry[t] = 0 /\ lease[t] = None
    /\ pc[t] = "enter" => path[t] # None
    /\ pc[t] \notin {"idle", "select", "enter", "wait", "over"} => lease[t] # None
OneHolder ==
    \A t, u \in Tracks : lease[t] # None /\ lease[u] # None /\ entry[t] = entry[u] => t = u
TableNeeded == \A out \in Outputs : table[out] # 0 => \E t \in Tracks : entry[t] = table[out]
RefsCount == \A e \in Entries : refs[e] = Cardinality(Having(e))
LocksStand == LocksTyped /\ OneHolder /\ TableNeeded /\ RefsCount

\* What it does under the lock: once it has looked at the path, nobody counts on
\* what is there, or it was cleared for all to see.
WorkOf(t) ==
    /\ pc[t] # "over" => item[t] = "open"
    /\ item[t] \in Done => path[t] # None
    /\ pc[t] = "chmod" => file[path[t]] # None
    /\ lease[t] # None /\ pc[t] # "claim" => Clean(path[t])

TracksInv ==
    /\ TracksTyped /\ LocksStand /\ DoneKeepsFile
    /\ \A t \in Tracks : LockOf(t) /\ WorkOf(t)

-----------------------------------------------------------------------------
(* The locks and the files, apart from who uses them *)

\* What the other tracks hold and wait for is as it was.
LocksKept(t) ==
    \A u \in Tracks \ {t} :
      /\ entry'[u] = entry[u] /\ lease'[u] = lease[u]
      /\ lease[u] # None => entry[u] \notin token'
      /\ entry[u] # 0 => table'[path[u]] = entry[u]
\* They are where they were, too.
Quiet(t) ==
    /\ setup' = setup
    /\ \A u \in Tracks \ {t} : pc'[u] = pc[u] /\ path'[u] = path[u] /\ item'[u] = item[u]

LEMMA HavingFinite == \A e : IsFiniteSet(Having(e)) /\ Cardinality(Having(e)) \in Nat
<1> TAKE e
<1>1. Having(e) \in SUBSET Tracks /\ IsFiniteSet(Tracks)
  BY TracksAssumption DEF Having
<1> QED
  BY <1>1, FS_Subset, FS_CardinalityType

LEMMA EntriesMany ==
    /\ IsFiniteSet(Entries) /\ Cardinality(Entries) = Cardinality(Tracks)
    /\ Cardinality(Tracks) \in Nat /\ 0 \notin Entries
<1>1. Cardinality(Tracks) \in Nat
  BY TracksAssumption, FS_CardinalityType
<1> QED
  BY <1>1, FS_Interval DEF Entries

\* A track that has no entry leaves one free: an entry in use has a track.
LEMMA EntryFree ==
    ASSUME LocksTyped, RefsCount, NEW t \in Tracks, entry[t] = 0
    PROVE  \E e \in Entries : refs[e] = 0
<1> SUFFICES ASSUME \A e \in Entries : refs[e] # 0 PROVE FALSE
  OBVIOUS
<1>1. \A e \in Entries : Having(e) # {}
  BY FS_EmptySet DEF RefsCount
<1>2. \A e \in Entries : \E u \in Tracks \ {t} : entry[u] = e
  BY <1>1, EntriesMany DEF Having
<1> DEFINE f == [e \in Entries |-> CHOOSE u \in Tracks \ {t} : entry[u] = e]
<1>3. \A e \in Entries : f[e] \in Tracks \ {t} /\ entry[f[e]] = e
  BY <1>2
<1>4. f \in [Entries -> Tracks \ {t}]
  BY <1>3
<1>5. IsFiniteSet(Tracks \ {t}) /\ Cardinality(Tracks \ {t}) = Cardinality(Tracks) - 1
  BY TracksAssumption, FS_RemoveElement
<1>6. Cardinality(Tracks \ {t}) < Cardinality(Entries)
  BY <1>5, EntriesMany
<1> HIDE DEF f
<1>7. PICK a, b \in Entries : a # b /\ f[a] = f[b]
  BY <1>4, <1>5, <1>6, EntriesMany, FS_PigeonHole
<1> QED
  BY <1>3, <1>7

\* Leaving a lock, or nothing.
LEMMA Leaves ==
    ASSUME TracksInv, NEW t \in Tracks, ReleaseLock(t)
    PROVE  /\ LocksStand' /\ LocksKept(t)
           /\ entry'[t] = 0 /\ lease'[t] = None
<1>ty. LocksTyped /\ OneHolder /\ TableNeeded /\ RefsCount
  BY DEF TracksInv, LocksStand
<1>lo. \A u \in Tracks : LockOf(u)
  BY DEF TracksInv
<1>le. /\ lease' = [lease EXCEPT ![t] = None]
       /\ token' = IF lease[t] = None THEN token ELSE token \cup {entry[t]}
  BY DEF ReleaseLock
<1>1. CASE entry[t] = 0
  <2>1. lease[t] = None
    BY <1>1, <1>lo DEF LockOf
  <2>2. entry' = entry /\ table' = table /\ refs' = refs /\ token' = token /\ lease' = lease
    BY <1>1, <1>le, <1>ty, <2>1 DEF ReleaseLock, LocksTyped
  <2>3. \A e : Having(e)' = Having(e)
    BY <2>2 DEF Having
  <2>4. LocksStand'
    BY <1>ty, <2>2, <2>3 DEF LocksStand, LocksTyped, OneHolder, TableNeeded, RefsCount
  <2> QED
    BY <1>1, <1>lo, <2>1, <2>2, <2>4 DEF LocksKept, LockOf
<1>2. CASE entry[t] # 0
  <2> PICK e \in Entries : e = entry[t]
    BY <1>2, <1>ty DEF LocksTyped
  <2>1. /\ refs' = [refs EXCEPT ![e] = @ - 1]
        /\ table' = [out \in Outputs |-> IF table[out] = e /\ refs[e] = 1 THEN 0 ELSE table[out]]
        /\ entry' = [entry EXCEPT ![t] = 0]
    BY <1>2 DEF ReleaseLock, DropRef
  <2>2. /\ entry'[t] = 0 /\ \A u \in Tracks : u # t => entry'[u] = entry[u]
        /\ lease'[t] = None /\ \A u \in Tracks : u # t => lease'[u] = lease[u]
    BY <1>ty, <1>le, <2>1 DEF LocksTyped
  <2>3. Having(e)' = Having(e) \ {t} /\ t \in Having(e)
    BY <2>2, EntriesMany DEF Having
  <2>4. \A a \in Entries : a # e => Having(a)' = Having(a)
    BY <2>2, EntriesMany DEF Having
  <2>5. Cardinality(Having(e)') = Cardinality(Having(e)) - 1
    BY <2>3, HavingFinite, FS_RemoveElement
  <2>6. refs[e] = Cardinality(Having(e)) /\ refs[e] # 0
    BY <1>ty, <2>3, HavingFinite, FS_EmptySet DEF RefsCount
  <2>7. LocksTyped'
    <3>1. lease' \in [Tracks -> Outputs \cup {None}] /\ entry' \in [Tracks -> Entries \cup {0}]
      BY <1>ty, <1>le, <2>1 DEF LocksTyped
    <3>2. table' \in [Outputs -> Entries \cup {0}]
      BY <1>ty, <2>1 DEF LocksTyped
    <3>3. token' \subseteq Entries
      BY <1>ty, <1>le DEF LocksTyped
    <3>4. refs[e] \in Nat /\ refs[e] - 1 \in Nat
      BY <1>ty, <2>6 DEF LocksTyped
    <3>5. refs' \in [Entries -> Nat]
      BY <1>ty, <2>1, <3>4 DEF LocksTyped
    <3> QED
      BY <3>1, <3>2, <3>3, <3>5 DEF LocksTyped
  <2>8. OneHolder'
    BY <1>ty, <2>2 DEF OneHolder
  <2>9. RefsCount'
    <3> SUFFICES ASSUME NEW a \in Entries PROVE refs'[a] = Cardinality(Having(a)')
      BY DEF RefsCount
    <3>1. CASE a = e
      BY <1>ty, <2>1, <2>5, <2>6, <3>1 DEF LocksTyped
    <3>2. CASE a # e
      BY <1>ty, <2>1, <2>4, <3>2 DEF LocksTyped, RefsCount
    <3> QED
      BY <3>1, <3>2
  <2>10. refs[e] = 1 => \A u \in Tracks : u # t => entry[u] # e
    <3> SUFFICES ASSUME refs[e] = 1, NEW u \in Tracks, u # t, entry[u] = e PROVE FALSE
      OBVIOUS
    <3>1. PICK x : Having(e) = {x}
      BY <2>6, HavingFinite, FS_Singleton
    <3>2. u \in Having(e)
      BY DEF Having
    <3> QED
      BY <2>3, <3>1, <3>2
  <2>11. TableNeeded'
    <3> SUFFICES ASSUME NEW out \in Outputs, table'[out] # 0
        PROVE \E u \in Tracks : entry'[u] = table'[out]
      BY DEF TableNeeded
    <3>1. table'[out] = table[out] /\ ~(table[out] = e /\ refs[e] = 1)
      BY <2>1
    <3>2. PICK u \in Tracks : entry[u] = table[out]
      BY <1>ty, <3>1 DEF TableNeeded
    <3>3. CASE u # t
      BY <2>2, <3>1, <3>2, <3>3
    <3>4. CASE u = t
      <4>1. Cardinality(Having(e)) # 1 /\ Having(e) # {t}
        BY <2>6, <3>1, <3>2, <3>4, FS_Singleton
      <4>2. PICK w \in Having(e) : w # t
        BY <2>3, <4>1
      <4> QED
        BY <2>2, <3>1, <3>2, <3>4, <4>2 DEF Having
    <3> QED
      BY <3>3, <3>4
  <2>12. LocksKept(t)
    <3> SUFFICES ASSUME NEW u \in Tracks \ {t}
        PROVE /\ entry'[u] = entry[u] /\ lease'[u] = lease[u]
              /\ lease[u] # None => entry[u] \notin token'
              /\ entry[u] # 0 => table'[path[u]] = entry[u]
      BY DEF LocksKept
    <3>1. lease[u] # None => entry[u] \notin token'
      BY <1>ty, <1>lo, <1>le DEF OneHolder, LockOf
    <3>2. entry[u] # 0 => path[u] \in Outputs /\ table[path[u]] = entry[u]
      BY <1>lo DEF LockOf, TracksInv, TracksTyped
    <3>3. entry[u] # 0 => table'[path[u]] = entry[u]
      BY <2>1, <2>10, <3>2
    <3> QED
      BY <2>2, <3>1, <3>3
  <2> QED
    BY <2>2, <2>7, <2>8, <2>9, <2>11, <2>12 DEF LocksStand
<1> QED
  BY <1>1, <1>2

\* A step that leaves the locks alone.
LEMMA LocksSame ==
    ASSUME TracksInv, NEW t \in Tracks, UNCHANGED lock
    PROVE  LocksStand' /\ LocksKept(t) /\ entry'[t] = entry[t] /\ lease'[t] = lease[t]
<1>1. lease' = lease /\ entry' = entry /\ table' = table /\ token' = token /\ refs' = refs
  BY DEF lock
<1>2. \A e : Having(e)' = Having(e)
  BY <1>1 DEF Having
<1>3. LocksStand'
  BY <1>1, <1>2 DEF TracksInv, LocksStand, LocksTyped, OneHolder, TableNeeded, RefsCount
<1>4. LocksKept(t)
  BY <1>1 DEF LocksKept, TracksInv, LockOf
<1> QED
  BY <1>1, <1>3, <1>4

\* The others' part in the locks is theirs.
LEMMA OthersLocks ==
    ASSUME TracksInv, NEW t \in Tracks, Quiet(t), LocksKept(t), NEW u \in Tracks, u # t
    PROVE  LockOf(u)'
<1>1. pc'[u] = pc[u] /\ path'[u] = path[u]
  BY DEF Quiet
<1>2. /\ entry'[u] = entry[u] /\ lease'[u] = lease[u]
      /\ lease[u] # None => entry[u] \notin token'
      /\ entry[u] # 0 => table'[path[u]] = entry[u]
  BY DEF LocksKept
<1>3. LockOf(u)
  BY DEF TracksInv
<1> QED
  BY <1>1, <1>2, <1>3 DEF LockOf

\* Two tracks never hold one path.
LEMMA HoldersApart ==
    ASSUME TracksInv, NEW t \in Tracks, NEW u \in Tracks, u # t,
           lease[t] # None, lease[u] # None
    PROVE  path[t] # path[u]
<1>1. lease[t] = path[t] /\ table[path[t]] = entry[t] /\ lease[u] = path[u] /\ table[path[u]] = entry[u]
  BY DEF TracksInv, LockOf
<1>2. entry[t] # entry[u]
  BY DEF TracksInv, LocksStand, OneHolder
<1> QED
  BY <1>1, <1>2

\* A step that ends nothing well and touches no file.
LEMMA FilesSame ==
    ASSUME TracksInv, NEW t \in Tracks, Quiet(t), LocksKept(t),
           file' = file, cleared' = cleared,
           item'[t] \in Done => item'[t] = item[t] /\ path'[t] = path[t]
    PROVE  DoneKeepsFile' /\ \A u \in Tracks : u # t => WorkOf(u)'
<1>1. \A u \in setup.tracks : item'[u] \in Done => item[u] \in Done /\ path'[u] = path[u]
  BY SetupsAssumption DEF Quiet, TracksInv, TracksTyped, SetupOK
<1>2. DoneKeepsFile'
  BY <1>1 DEF TracksInv, DoneKeepsFile, Quiet, Done
<1>3. ASSUME NEW u \in Tracks, u # t PROVE WorkOf(u)'
  <2>1. pc'[u] = pc[u] /\ path'[u] = path[u] /\ item'[u] = item[u] /\ lease'[u] = lease[u]
    BY <1>3 DEF Quiet, LocksKept
  <2>2. Clean(path[u]) => Clean(path[u])'
    BY <1>1, <2>1 DEF Clean, Quiet
  <2> QED
    BY <2>1, <2>2 DEF WorkOf, TracksInv
<1> QED
  BY <1>2, <1>3

\* A step that changes what is at the path whose lock the track holds.
LEMMA FilesAtPath ==
    ASSUME TracksInv, NEW t \in Tracks, Quiet(t), LocksKept(t), lease[t] # None,
           \A out \in Outputs : out # path[t] =>
             file'[out] = file[out] /\ (out \in cleared <=> out \in cleared'),
           item'[t] \in Done => path'[t] = path[t] /\ file'[path[t]] # None,
           \/ Clean(path[t]) /\ (path[t] \in cleared => path[t] \in cleared')
           \/ file'[path[t]] # None
           \/ path[t] \in cleared'
    PROVE  DoneKeepsFile' /\ \A u \in Tracks : u # t => WorkOf(u)'
<1>t. setup.tracks \subseteq Tracks /\ setup' = setup /\ path \in [Tracks -> Outputs \cup {None}]
  BY SetupsAssumption DEF Quiet, TracksInv, TracksTyped, SetupOK
<1>1. ASSUME NEW u \in setup.tracks, item'[u] \in Done
      PROVE file'[path'[u]] # None \/ path'[u] \in cleared'
  <2>1. CASE u = t
    BY <1>1, <2>1
  <2>2. CASE u # t
    <3>1. path'[u] = path[u] /\ item[u] \in Done /\ item'[u] = item[u]
      BY <1>t, <1>1, <2>2 DEF Quiet
    <3>2. path[u] \in Outputs /\ (file[path[u]] # None \/ path[u] \in cleared)
      BY <1>t, <3>1 DEF TracksInv, WorkOf, DoneKeepsFile, Done
    <3>3. CASE path[u] # path[t]
      BY <3>1, <3>2, <3>3
    <3>4. CASE path[u] = path[t]
      BY <3>1, <3>4 DEF Clean
    <3> QED
      BY <3>3, <3>4
  <2> QED
    BY <2>1, <2>2
<1>2. DoneKeepsFile'
  BY <1>t, <1>1 DEF DoneKeepsFile, Done
<1>3. ASSUME NEW u \in Tracks, u # t PROVE WorkOf(u)'
  <2>1. pc'[u] = pc[u] /\ path'[u] = path[u] /\ item'[u] = item[u] /\ lease'[u] = lease[u]
    BY <1>3 DEF Quiet, LocksKept
  <2>2. WorkOf(u) /\ LockOf(u)
    BY DEF TracksInv
  <2>3. CASE lease[u] = None
    BY <2>1, <2>2, <2>3 DEF WorkOf, LockOf
  <2>4. CASE lease[u] # None
    <3>1. path[u] # path[t]
      BY <1>3, <2>4, HoldersApart
    <3>2. path[u] \in Outputs
      BY <1>t, <2>2, <2>4 DEF LockOf
    <3>3. file'[path[u]] = file[path[u]] /\ (path[u] \in cleared <=> path[u] \in cleared')
      BY <3>1, <3>2
    <3>4. Clean(path[u]) => Clean(path[u])'
      <4> SUFFICES ASSUME Clean(path[u]), path[u] \notin cleared', NEW w \in setup.tracks,
                          path'[w] = path[u]
          PROVE item'[w] \notin Done
        BY <1>t, <2>1 DEF Clean
      <4>1. CASE w = t
        BY <3>1, <4>1
      <4>2. CASE w # t
        BY <1>t, <3>3, <4>2 DEF Clean, Quiet
      <4> QED
        BY <4>1, <4>2
    <3> QED
      BY <2>1, <2>2, <3>3, <3>4 DEF WorkOf
  <2> QED
    BY <2>3, <2>4
<1> QED
  BY <1>2, <1>3

-----------------------------------------------------------------------------
(* Each step keeps the invariant *)

\* One track moves: what is left to show is its own part.
LEMMA OneMoves ==
    ASSUME TracksInv, NEW t \in Tracks, Quiet(t), LocksKept(t), LocksStand', TracksTyped',
           DoneKeepsFile', \A u \in Tracks : u # t => WorkOf(u)', LockOf(t)', WorkOf(t)'
    PROVE  TracksInv'
<1>1. \A u \in Tracks : u # t => LockOf(u)'
  BY OthersLocks
<1> QED
  BY <1>1 DEF TracksInv

LEMMA TracksInvInit == Init => TracksInv
<1> SUFFICES ASSUME Init PROVE TracksInv
  OBVIOUS
<1>1. setup.tracks \subseteq Tracks
  BY SetupsAssumption DEF Init, SetupOK
<1>2. TracksTyped
  BY DEF Init, TracksTyped, Steps, Codecs
<1>3. \A e : e # 0 => Having(e) = {}
  BY DEF Init, Having
<1>4. LocksStand
  BY <1>3, EntriesMany, FS_EmptySet
     DEF Init, LocksStand, LocksTyped, OneHolder, TableNeeded, RefsCount
<1>5. \A t \in Tracks : LockOf(t) /\ WorkOf(t)
  BY DEF Init, LockOf, WorkOf, Done
<1>6. DoneKeepsFile
  BY <1>1 DEF Init, DoneKeepsFile
<1> QED
  BY <1>2, <1>4, <1>5, <1>6 DEF TracksInv

\* A step on the way that neither takes nor leaves a lock nor touches the output.
LEMMA OnwardKeeps ==
    ASSUME TracksInv, NEW t \in Tracks, NEW to \in Steps, pc' = [pc EXCEPT ![t] = to],
           \/ pc[t] = "idle" /\ to = "select"
           \/ /\ pc[t] \in {"flight", "slot", "transfer", "ready", "decrypt", "finalize", "commit"}
              /\ to \in {"slot", "transfer", "ready", "decrypt", "finalize", "commit", "copy"},
           setup' = setup, codec' = codec, path' = path, UNCHANGED lock, file' = file,
           cleared' = cleared, item' = item
    PROVE  TracksInv'
<1>ty. TracksTyped /\ LockOf(t) /\ WorkOf(t)
  BY DEF TracksInv
<1>1. pc'[t] = to /\ \A u \in Tracks : u # t => pc'[u] = pc[u]
  BY <1>ty DEF TracksTyped
<1>2. Quiet(t)
  BY <1>1 DEF Quiet
<1>3. LocksStand' /\ LocksKept(t) /\ entry'[t] = entry[t] /\ lease'[t] = lease[t] /\ table' = table /\ token' = token
  BY LocksSame DEF lock
<1>4. item[t] = "open" /\ item'[t] \notin Done
  BY <1>ty DEF WorkOf, Done
<1>5. DoneKeepsFile' /\ \A u \in Tracks : u # t => WorkOf(u)'
  BY <1>2, <1>3, <1>4, FilesSame
<1>6. TracksTyped'
  BY <1>ty DEF TracksTyped
<1>7. LockOf(t)'
  BY <1>ty, <1>1, <1>3 DEF LockOf
<1>8. WorkOf(t)'
  <2>1. Clean(path[t]) => Clean(path[t])'
    BY DEF Clean
  <2> QED
    BY <1>ty, <1>1, <1>3, <1>4, <2>1 DEF WorkOf, LockOf, Done
<1> QED
  BY <1>2, <1>3, <1>5, <1>6, <1>7, <1>8, OneMoves

\* A run that leaves its lock for another attempt, another path or its end, and
\* has nothing to show for it.
LEMMA LeavingKeeps ==
    ASSUME TracksInv, NEW t \in Tracks, NEW to \in {"enter", "select", "over"}, ReleaseLock(t),
           pc' = [pc EXCEPT ![t] = to], setup' = setup,
           codec' \in [Tracks -> Codecs], path' \in [Tracks -> Outputs \cup {None}],
           \A u \in Tracks : u # t => path'[u] = path[u] /\ item'[u] = item[u],
           item'[t] \in Done => item'[t] = item[t] /\ path'[t] = path[t],
           to # "over" => item'[t] = "open",
           to = "enter" => path'[t] # None,
           file' \in [Outputs -> Tracks \cup {None}],
           item' \in [Tracks -> {"open", "completed", "skipped", "failed", "cancelled"}],
           DoneKeepsFile', \A u \in Tracks : u # t => WorkOf(u)'
    PROVE  TracksInv'
<1>ty. TracksTyped /\ LockOf(t) /\ WorkOf(t)
  BY DEF TracksInv
<1>1. pc'[t] = to /\ \A u \in Tracks : u # t => pc'[u] = pc[u]
  BY <1>ty DEF TracksTyped
<1>2. Quiet(t)
  BY <1>1 DEF Quiet
<1>3. LocksStand' /\ LocksKept(t) /\ entry'[t] = 0 /\ lease'[t] = None
  BY Leaves
<1>4. to \in Steps
  BY DEF Steps
<1>5. TracksTyped'
  BY <1>ty, <1>4 DEF TracksTyped
<1>6. LockOf(t)'
  BY <1>1, <1>3 DEF LockOf
<1>7. WorkOf(t)'
  BY <1>ty, <1>1, <1>3 DEF WorkOf
<1> QED
  BY <1>2, <1>3, <1>5, <1>6, <1>7, OneMoves

LEMMA StartKeeps == ASSUME TracksInv, NEW t \in Tracks, Start(t) PROVE TracksInv'
  BY OnwardKeeps DEF Start, Goto, world, disk, Steps

LEMMA FetchSteps ==
    ASSUME TracksInv, NEW t \in Tracks, TakeFlight(t) \/ TakeSlot(t) \/ Fetched(t)
    PROVE  TracksInv'
<1>1. CASE TakeFlight(t)
  BY <1>1, OnwardKeeps DEF TakeFlight, Goto, world, disk, Steps
<1>2. CASE TakeSlot(t)
  BY <1>2, OnwardKeeps DEF TakeSlot, Goto, world, disk, Steps
<1>3. CASE Fetched(t)
  BY <1>3, OnwardKeeps DEF Fetched, Goto, world, disk, Steps
<1> QED
  BY <1>1, <1>2, <1>3

LEMMA DecryptSteps ==
    ASSUME TracksInv, NEW t \in Tracks,
           TakeDecrypt(t) \/ Decrypted(t) \/ Finalized(t) \/ CopyStarts(t)
    PROVE  TracksInv'
<1>1. CASE TakeDecrypt(t)
  BY <1>1, OnwardKeeps DEF TakeDecrypt, Goto, world, disk, Steps
<1>2. CASE Decrypted(t)
  BY <1>2, OnwardKeeps DEF Decrypted, Goto, world, disk, Steps
<1>3. CASE Finalized(t)
  BY <1>3, OnwardKeeps DEF Finalized, Goto, world, disk, Steps
<1>4. CASE CopyStarts(t)
  BY <1>4, OnwardKeeps DEF CopyStarts, Goto, world, Steps
<1> QED
  BY <1>1, <1>2, <1>3, <1>4

\* The stream's path: the lock at hand, or another to join.
LEMMA SelectKeeps == ASSUME TracksInv, NEW t \in Tracks, Select(t) PROVE TracksInv'
<1>ty. TracksTyped /\ LockOf(t) /\ WorkOf(t)
  BY DEF TracksInv
<1>0. SetupOK(setup)
  BY <1>ty, SetupsAssumption DEF TracksTyped
<1> PICK out \in setup.paths[t][codec[t]] :
      /\ path' = [path EXCEPT ![t] = out]
      /\ \/ lease[t] = out /\ Goto(t, "select", "claim") /\ UNCHANGED lock
         \/ lease[t] # out /\ Goto(t, "select", "enter") /\ ReleaseLock(t)
      /\ UNCHANGED <<world, codec, attempt, permits, disk, item>>
  BY DEF Select
<1>1. codec[t] \in Codecs /\ out \in Outputs /\ out # None
  BY <1>ty, <1>0, NoneAssumption DEF SetupOK, TracksTyped
<1>2. /\ setup' = setup /\ codec' = codec /\ file' = file /\ cleared' = cleared /\ item' = item
      /\ path'[t] = out /\ \A u \in Tracks : u # t => path'[u] = path[u]
      /\ path' \in [Tracks -> Outputs \cup {None}]
  BY <1>ty, <1>1 DEF world, disk, TracksTyped
<1>3. CASE lease[t] = out /\ Goto(t, "select", "claim") /\ UNCHANGED lock
  <2>1. pc[t] = "select" /\ pc' = [pc EXCEPT ![t] = "claim"] /\ pc'[t] = "claim"
        /\ \A u \in Tracks : u # t => pc'[u] = pc[u]
    BY <1>ty, <1>3 DEF Goto, TracksTyped
  <2>2. Quiet(t)
    BY <1>2, <2>1 DEF Quiet
  <2>3. LocksStand' /\ LocksKept(t) /\ entry'[t] = entry[t] /\ lease'[t] = lease[t] /\ table' = table /\ token' = token
    BY <1>3, LocksSame DEF lock
  <2>4. item[t] = "open" /\ item'[t] \notin Done
    BY <1>ty, <1>2, <2>1 DEF WorkOf, Done
  <2>5. DoneKeepsFile' /\ \A u \in Tracks : u # t => WorkOf(u)'
    BY <1>2, <2>2, <2>3, <2>4, FilesSame
  <2>6. TracksTyped'
    BY <1>ty, <1>2, <2>1 DEF TracksTyped, Steps
  <2>7. LockOf(t)'
    BY <1>ty, <1>1, <1>2, <1>3, <2>1, <2>3 DEF LockOf
  <2>8. WorkOf(t)'
    BY <1>1, <1>2, <2>1, <2>4 DEF WorkOf
  <2> QED
    BY <2>2, <2>3, <2>5, <2>6, <2>7, <2>8, OneMoves
<1>4. CASE lease[t] # out /\ Goto(t, "select", "enter") /\ ReleaseLock(t)
  <2>1. pc[t] = "select" /\ pc' = [pc EXCEPT ![t] = "enter"] /\ pc'[t] = "enter"
        /\ \A u \in Tracks : u # t => pc'[u] = pc[u]
    BY <1>ty, <1>4 DEF Goto, TracksTyped
  <2>2. Quiet(t) /\ LocksKept(t)
    BY <1>2, <1>4, <2>1, Leaves DEF Quiet
  <2>3. item[t] = "open" /\ item'[t] = "open" /\ item'[t] \notin Done
    BY <1>ty, <1>2, <2>1 DEF WorkOf, Done
  <2>4. DoneKeepsFile' /\ \A u \in Tracks : u # t => WorkOf(u)'
    BY <1>2, <2>2, <2>3, FilesSame
  <2>5. codec' \in [Tracks -> Codecs] /\ file' \in [Outputs -> Tracks \cup {None}]
        /\ item' \in [Tracks -> {"open", "completed", "skipped", "failed", "cancelled"}]
    BY <1>ty, <1>2 DEF TracksTyped
  <2> QED
    BY <1>1, <1>2, <1>4, <2>1, <2>3, <2>4, <2>5, LeavingKeeps
<1> QED
  BY <1>3, <1>4

\* Joining the queue of a path.
LEMMA EnterKeeps == ASSUME TracksInv, NEW t \in Tracks, Enter(t) PROVE TracksInv'
<1>ty. TracksTyped /\ LocksTyped /\ OneHolder /\ TableNeeded /\ RefsCount /\ LockOf(t) /\ WorkOf(t)
  BY DEF TracksInv, LocksStand
<1>0. pc[t] = "enter" /\ entry[t] = 0 /\ lease[t] = None /\ path[t] # None /\ path[t] \in Outputs
  BY <1>ty DEF Enter, Goto, LockOf, TracksTyped
<1> PICK out \in Outputs : out = path[t]
  BY <1>0
<1>1. (CHOOSE new \in Entries : refs[new] = 0) \in Entries /\ refs[CHOOSE new \in Entries : refs[new] = 0] = 0
  BY <1>ty, <1>0, EntryFree
<1>2. PICK e \in Entries :
        /\ table[out] # 0 => e = table[out]
        /\ table[out] = 0 => refs[e] = 0
        /\ entry' = [entry EXCEPT ![t] = e]
        /\ table' = [table EXCEPT ![out] = e]
        /\ refs' = [refs EXCEPT ![e] = @ + 1]
        /\ token' = IF table[out] # 0 THEN token ELSE token \cup {e}
  <2>1. CASE table[out] # 0
    <3>1. table[out] \in Entries
      BY <1>ty, <2>1 DEF LocksTyped
    <3> QED
      BY <2>1, <3>1 DEF Enter
  <2>2. CASE table[out] = 0
    BY <1>1, <2>2 DEF Enter
  <2> QED
    BY <2>1, <2>2
<1>3. /\ pc' = [pc EXCEPT ![t] = "wait"] /\ setup' = setup /\ codec' = codec /\ path' = path
      /\ lease' = lease /\ file' = file /\ cleared' = cleared /\ item' = item
  BY DEF Enter, Goto, world, disk
<1>4. pc'[t] = "wait" /\ \A u \in Tracks : u # t => pc'[u] = pc[u]
  BY <1>ty, <1>3 DEF TracksTyped
<1>5. /\ entry'[t] = e /\ \A u \in Tracks : u # t => entry'[u] = entry[u]
      /\ table'[out] = e /\ \A o \in Outputs : o # out => table'[o] = table[o]
      /\ refs'[e] = refs[e] + 1 /\ \A a \in Entries : a # e => refs'[a] = refs[a]
  BY <1>ty, <1>2 DEF LocksTyped
<1>6. Quiet(t)
  BY <1>3, <1>4 DEF Quiet
<1>7. e # 0
  BY EntriesMany
<1>8. table[out] = 0 => \A u \in Tracks : entry[u] # e
  <2> SUFFICES ASSUME table[out] = 0, NEW u \in Tracks, entry[u] = e PROVE FALSE
    OBVIOUS
  <2>1. Cardinality(Having(e)) = 0 /\ u \in Having(e)
    BY <1>ty, <1>2 DEF RefsCount, Having
  <2> QED
    BY <2>1, HavingFinite, FS_EmptySet
<1>9. LocksKept(t)
  <2> SUFFICES ASSUME NEW u \in Tracks \ {t}
      PROVE /\ entry'[u] = entry[u] /\ lease'[u] = lease[u]
            /\ lease[u] # None => entry[u] \notin token'
            /\ entry[u] # 0 => table'[path[u]] = entry[u]
    BY DEF LocksKept
  <2>1. LockOf(u)
    BY DEF TracksInv
  <2>2. lease[u] # None => entry[u] \notin token'
    BY <1>2, <1>8, <2>1 DEF LockOf
  <2>3. entry[u] # 0 => path[u] \in Outputs /\ table[path[u]] = entry[u]
    BY <1>ty, <2>1 DEF LockOf, TracksTyped
  <2>4. entry[u] # 0 => table'[path[u]] = entry[u]
    BY <1>2, <1>5, <2>3
  <2> QED
    BY <1>3, <1>5, <2>2, <2>4
<1>10. LocksStand'
  <2>1. LocksTyped'
    <3>1. entry' \in [Tracks -> Entries \cup {0}] /\ table' \in [Outputs -> Entries \cup {0}]
      BY <1>ty, <1>2 DEF LocksTyped
    <3>2. token' \subseteq Entries /\ lease' \in [Tracks -> Outputs \cup {None}]
      BY <1>ty, <1>2, <1>3 DEF LocksTyped
    <3>3. refs[e] \in Nat /\ refs[e] + 1 \in Nat
      BY <1>ty DEF LocksTyped
    <3>4. refs' \in [Entries -> Nat]
      BY <1>ty, <1>2, <3>3 DEF LocksTyped
    <3> QED
      BY <3>1, <3>2, <3>4 DEF LocksTyped
  <2>2. OneHolder'
    BY <1>ty, <1>0, <1>3, <1>5 DEF OneHolder
  <2>3. TableNeeded'
    <3> SUFFICES ASSUME NEW o \in Outputs, table'[o] # 0
        PROVE \E u \in Tracks : entry'[u] = table'[o]
      BY DEF TableNeeded
    <3>1. CASE o = out
      BY <1>5, <3>1
    <3>2. CASE o # out
      <4>1. PICK u \in Tracks : entry[u] = table[o]
        BY <1>ty, <1>5, <3>2 DEF TableNeeded
      <4> QED
        BY <1>0, <1>5, <3>2, <4>1
    <3> QED
      BY <3>1, <3>2
  <2>4. RefsCount'
    <3> SUFFICES ASSUME NEW a \in Entries PROVE refs'[a] = Cardinality(Having(a)')
      BY DEF RefsCount
    <3>1. CASE a = e
      <4>1. Having(e)' = Having(e) \cup {t} /\ t \notin Having(e)
        BY <1>0, <1>5, <1>7 DEF Having
      <4>2. Cardinality(Having(e) \cup {t}) = Cardinality(Having(e)) + 1
        BY <4>1, HavingFinite, FS_AddElement
      <4>3. refs[e] = Cardinality(Having(e))
        BY <1>ty DEF RefsCount
      <4> QED
        BY <1>5, <3>1, <4>1, <4>2, <4>3
    <3>2. CASE a # e
      <4>1. Having(a)' = Having(a)
        BY <1>0, <1>5, <3>2, EntriesMany DEF Having
      <4> QED
        BY <1>ty, <1>5, <3>2, <4>1 DEF RefsCount
    <3> QED
      BY <3>1, <3>2
  <2> QED
    BY <2>1, <2>2, <2>3, <2>4 DEF LocksStand
<1>11. item[t] = "open" /\ item'[t] \notin Done
  BY <1>ty, <1>0, <1>3 DEF WorkOf, Done
<1>12. DoneKeepsFile' /\ \A u \in Tracks : u # t => WorkOf(u)'
  BY <1>3, <1>6, <1>9, <1>11, FilesSame
<1>13. TracksTyped'
  BY <1>ty, <1>3 DEF TracksTyped, Steps
<1>14. LockOf(t)'
  BY <1>0, <1>3, <1>4, <1>5, <1>7 DEF LockOf
<1>15. WorkOf(t)'
  BY <1>0, <1>3, <1>4, <1>11 DEF WorkOf
<1> QED
  BY <1>6, <1>9, <1>10, <1>12, <1>13, <1>14, <1>15, OneMoves

\* The token, and with it the path.
LEMMA TakeTokenKeeps == ASSUME TracksInv, NEW t \in Tracks, TakeToken(t) PROVE TracksInv'
<1>ty. TracksTyped /\ LocksTyped /\ OneHolder /\ TableNeeded /\ RefsCount /\ LockOf(t) /\ WorkOf(t)
  BY DEF TracksInv, LocksStand
<1>1. /\ pc[t] = "wait" /\ entry[t] \in token /\ token' = token \ {entry[t]}
      /\ pc' = [pc EXCEPT ![t] = "claim"] /\ lease' = [lease EXCEPT ![t] = path[t]]
      /\ setup' = setup /\ codec' = codec /\ path' = path /\ entry' = entry /\ table' = table
      /\ refs' = refs /\ file' = file /\ cleared' = cleared /\ item' = item
  BY DEF TakeToken, Goto, world, disk
<1>2. /\ pc'[t] = "claim" /\ \A u \in Tracks : u # t => pc'[u] = pc[u]
      /\ lease'[t] = path[t] /\ \A u \in Tracks : u # t => lease'[u] = lease[u]
  BY <1>ty, <1>1 DEF TracksTyped, LocksTyped
<1>3. entry[t] # 0 /\ lease[t] = None /\ path[t] # None /\ table[path[t]] = entry[t]
  BY <1>ty, <1>1 DEF LockOf
<1>4. \A u \in Tracks : lease[u] # None => entry[u] # entry[t] /\ entry[u] \notin token
  BY <1>1 DEF TracksInv, LockOf
<1>5. Quiet(t)
  BY <1>1, <1>2 DEF Quiet
<1>6. LocksKept(t)
  BY <1>1, <1>2, <1>4 DEF LocksKept, TracksInv, LockOf
<1>7. LocksStand'
  <2>1. LocksTyped'
    BY <1>ty, <1>1 DEF LocksTyped, TracksTyped
  <2>2. OneHolder'
    BY <1>ty, <1>1, <1>2, <1>4 DEF OneHolder
  <2>3. \A e : Having(e)' = Having(e)
    BY <1>1 DEF Having
  <2> QED
    BY <1>ty, <1>1, <2>1, <2>2, <2>3 DEF LocksStand, TableNeeded, RefsCount
<1>8. item[t] = "open" /\ item'[t] \notin Done
  BY <1>ty, <1>1 DEF WorkOf, Done
<1>9. DoneKeepsFile' /\ \A u \in Tracks : u # t => WorkOf(u)'
  BY <1>1, <1>5, <1>6, <1>8, FilesSame
<1>10. TracksTyped'
  BY <1>ty, <1>1 DEF TracksTyped, Steps
<1>11. LockOf(t)'
  BY <1>1, <1>2, <1>3 DEF LockOf
<1>12. WorkOf(t)'
  BY <1>1, <1>2, <1>8 DEF WorkOf
<1> QED
  BY <1>5, <1>6, <1>7, <1>9, <1>10, <1>11, <1>12, OneMoves

\* An item that ends with its file at its path.
LEMMA EndsWellKeeps ==
    ASSUME TracksInv, NEW t \in Tracks, NEW how \in Done, ReleaseLock(t),
           pc[t] \in {"claim", "chmod"}, pc' = [pc EXCEPT ![t] = "over"],
           item' = [item EXCEPT ![t] = how], file[path[t]] # None,
           setup' = setup, codec' = codec, path' = path, file' = file,
           cleared' = cleared \/ cleared' = cleared \ {path[t]}
    PROVE  TracksInv'
<1>ty. TracksTyped /\ LockOf(t) /\ WorkOf(t)
  BY DEF TracksInv
<1>1. /\ pc'[t] = "over" /\ \A u \in Tracks : u # t => pc'[u] = pc[u]
      /\ item'[t] = how /\ \A u \in Tracks : u # t => item'[u] = item[u]
  BY <1>ty DEF TracksTyped
<1>2. lease[t] # None /\ path[t] # None
  BY <1>ty DEF LockOf
<1>3. Quiet(t)
  BY <1>1 DEF Quiet
<1>4. LocksStand' /\ LocksKept(t) /\ entry'[t] = 0 /\ lease'[t] = None
  BY Leaves
<1>5. \A out \in Outputs : out # path[t] =>
        file'[out] = file[out] /\ (out \in cleared <=> out \in cleared')
  OBVIOUS
<1>6. DoneKeepsFile' /\ \A u \in Tracks : u # t => WorkOf(u)'
  BY <1>2, <1>3, <1>4, <1>5, FilesAtPath
<1>7. TracksTyped'
  BY <1>ty DEF TracksTyped, Steps, Done
<1>8. LockOf(t)'
  BY <1>1, <1>4 DEF LockOf
<1>9. WorkOf(t)'
  BY <1>1, <1>2, <1>4 DEF WorkOf
<1> QED
  BY <1>3, <1>4, <1>6, <1>7, <1>8, <1>9, OneMoves

LEMMA SkipKeeps == ASSUME TracksInv, NEW t \in Tracks, Skip(t) PROVE TracksInv'
  BY EndsWellKeeps DEF Skip, Goto, world, disk, Done

LEMMA CompleteKeeps == ASSUME TracksInv, NEW t \in Tracks, Complete(t) PROVE TracksInv'
<1>1. file[path[t]] # None
  BY DEF Complete, Goto, TracksInv, WorkOf
<1> QED
  BY <1>1, EndsWellKeeps DEF Complete, Goto, world, Done

\* A step under the lock, which stays, that may change what is at the path.
LEMMA HoldingKeeps ==
    ASSUME TracksInv, NEW t \in Tracks, NEW to \in Steps \ {"idle", "enter", "wait", "claim", "over"},
           lease[t] # None, pc[t] # "over", pc' = [pc EXCEPT ![t] = to],
           setup' = setup, codec' = codec, path' = path, item' = item, UNCHANGED lock,
           \/ file' = file
           \/ \E new \in {t, None} : file' = [file EXCEPT ![path[t]] = new],
           cleared' = cleared \/ cleared' = cleared \cup {path[t]},
           Clean(path[t]) \/ path[t] \in cleared', to = "chmod" => file'[path[t]] # None
    PROVE  TracksInv'
<1>ty. TracksTyped /\ LockOf(t) /\ WorkOf(t)
  BY DEF TracksInv
<1>1. /\ pc'[t] = to /\ \A u \in Tracks : u # t => pc'[u] = pc[u]
  BY <1>ty DEF TracksTyped
<1>2. path[t] \in Outputs /\ item[t] = "open" /\ item'[t] \notin Done
  BY <1>ty DEF LockOf, WorkOf, TracksTyped, Done
<1>3. Quiet(t)
  BY <1>1 DEF Quiet
<1>4. LocksStand' /\ LocksKept(t) /\ entry'[t] = entry[t] /\ lease'[t] = lease[t] /\ table' = table /\ token' = token
  BY LocksSame DEF lock
<1>5. file' \in [Outputs -> Tracks \cup {None}]
  BY <1>ty DEF TracksTyped
<1>6. \A out \in Outputs : out # path[t] =>
        file'[out] = file[out] /\ (out \in cleared <=> out \in cleared')
  BY <1>ty DEF TracksTyped
<1>7. DoneKeepsFile' /\ \A u \in Tracks : u # t => WorkOf(u)'
  BY <1>2, <1>3, <1>4, <1>6, FilesAtPath
<1>8. TracksTyped'
  BY <1>ty, <1>5 DEF TracksTyped
<1>9. LockOf(t)'
  BY <1>ty, <1>1, <1>4 DEF LockOf
<1>10. WorkOf(t)'
  <2>1. Clean(path[t])'
    BY DEF Clean
  <2> QED
    BY <1>1, <1>2, <2>1 DEF WorkOf
<1> QED
  BY <1>3, <1>4, <1>7, <1>8, <1>9, <1>10, OneMoves

LEMMA ClaimKeeps == ASSUME TracksInv, NEW t \in Tracks, Claim(t) PROVE TracksInv'
<1>ty. TracksTyped /\ LockOf(t) /\ WorkOf(t)
  BY DEF TracksInv
<1>1. /\ pc[t] = "claim" /\ pc' = [pc EXCEPT ![t] = "flight"] /\ setup' = setup /\ codec' = codec
      /\ path' = path /\ item' = item /\ UNCHANGED lock
  BY DEF Claim, Goto, world
<1>2. lease[t] # None /\ path[t] \in Outputs
  BY <1>ty, <1>1 DEF LockOf, TracksTyped
<1>3. CASE /\ Forced(t) /\ Discard(path[t])
           /\ cleared' = cleared \cup {path[t]}
  BY <1>1, <1>2, <1>3, HoldingKeeps DEF Discard, Steps
<1>4. CASE ~Forced(t) /\ file[path[t]] = None /\ UNCHANGED disk
  <2>1. file' = file /\ cleared' = cleared
    BY <1>4 DEF disk
  <2>2. Clean(path[t])
    BY <1>4 DEF TracksInv, DoneKeepsFile, Clean, Done
  <2> QED
    BY <1>1, <1>2, <2>1, <2>2, HoldingKeeps DEF Steps
<1> QED
  BY <1>3, <1>4 DEF Claim

LEMMA PlacedKeeps ==
    ASSUME TracksInv, NEW t \in Tracks, Rename(t) \/ CopyEnds(t)
    PROVE  TracksInv'
<1>ty. TracksTyped /\ LockOf(t) /\ WorkOf(t)
  BY DEF TracksInv
<1>1. /\ pc[t] \in {"commit", "copy"} /\ pc' = [pc EXCEPT ![t] = "chmod"] /\ setup' = setup
      /\ codec' = codec /\ path' = path /\ item' = item /\ UNCHANGED lock
      /\ file' = [file EXCEPT ![path[t]] = t] /\ cleared' = cleared
  BY DEF Rename, CopyEnds, Placed, Goto, world
<1>2. lease[t] # None /\ Clean(path[t]) /\ path[t] \in Outputs
  BY <1>ty, <1>1 DEF LockOf, WorkOf, TracksTyped
<1>3. file'[path[t]] # None
  BY <1>ty, <1>1, <1>2, NoneAssumption DEF TracksTyped
<1> QED
  BY <1>1, <1>2, <1>3, HoldingKeeps DEF Steps

LEMMA RetryKeeps == ASSUME TracksInv, NEW t \in Tracks, Retry(t) PROVE TracksInv'
<1>ty. TracksTyped /\ LockOf(t) /\ WorkOf(t)
  BY DEF TracksInv
<1>1. /\ pc[t] \in (Fetches \ {"claim", "flight"}) \cup Decrypting
      /\ pc' = [pc EXCEPT ![t] = IF @ \in Decrypting THEN "ready" ELSE "select"]
      /\ DiscardFailed(t) /\ setup' = setup /\ codec' = codec /\ path' = path /\ item' = item
      /\ UNCHANGED lock /\ cleared' = cleared
  BY DEF Retry, world, DiscardFailed
<1>2. PICK to \in {"ready", "select"} :
        pc' = [pc EXCEPT ![t] = to] /\ (to = "ready" => pc[t] \in Decrypting)
  BY <1>1
<1>3. CASE lease[t] # None
  <2>1. Clean(path[t]) /\ path[t] # None
    BY <1>ty, <1>1, <1>3 DEF WorkOf, LockOf, Fetches, Decrypting
  <2>2. file' = [file EXCEPT ![path[t]] = None]
    BY <1>1, <1>3, <2>1 DEF DiscardFailed, Discard
  <2>3. pc[t] # "over"
    BY <1>1 DEF Fetches, Decrypting
  <2> QED
    BY <1>1, <1>2, <1>3, <2>1, <2>2, <2>3, HoldingKeeps DEF Steps
<1>4. CASE lease[t] = None
  <2>1. pc[t] = "select" /\ to = "select"
    BY <1>ty, <1>1, <1>2, <1>4 DEF LockOf, Fetches, Decrypting
  <2>2. pc' = pc /\ file' = file
    BY <1>ty, <1>1, <1>2, <1>4, <2>1 DEF DiscardFailed, TracksTyped
  <2>3. lease' = lease /\ entry' = entry /\ table' = table /\ token' = token /\ refs' = refs
    BY <1>1 DEF lock
  <2> QED
    BY <1>1, <2>2, <2>3 DEF TracksInv, TracksTyped, LocksStand, LocksTyped, OneHolder, TableNeeded,
       RefsCount, Having, DoneKeepsFile, LockOf, WorkOf, Clean
<1> QED
  BY <1>3, <1>4

\* What an item says of a run that has no output.
LEMMA EndedSays ==
    ASSUME TracksInv, NEW t \in Tracks
    PROVE  Ended(t) \in {"open", "completed", "skipped", "failed", "cancelled"}
           /\ (Ended(t) \in Done => Ended(t) = item[t])
<1>1. item[t] \in {"open", "completed", "skipped", "failed", "cancelled"}
  BY DEF TracksInv, TracksTyped
<1> QED
  BY <1>1 DEF Ended, Done

\* A run that ends without an output and without touching a file.
LEMMA EndsBadlyKeeps ==
    ASSUME TracksInv, NEW t \in Tracks, ReleaseLock(t), pc' = [pc EXCEPT ![t] = "over"],
           item' = [item EXCEPT ![t] = Ended(t)], setup' = setup, codec' = codec, path' = path,
           file' = file, cleared' = cleared
    PROVE  TracksInv'
<1>ty. TracksTyped
  BY DEF TracksInv
<1>1. /\ \A u \in Tracks : u # t => pc'[u] = pc[u]
      /\ item'[t] = Ended(t) /\ \A u \in Tracks : u # t => item'[u] = item[u]
  BY <1>ty DEF TracksTyped
<1>2. Quiet(t) /\ LocksKept(t)
  BY <1>1, Leaves DEF Quiet
<1>3. item'[t] \in Done => item'[t] = item[t] /\ path'[t] = path[t]
  BY <1>1, EndedSays
<1>4. DoneKeepsFile' /\ \A u \in Tracks : u # t => WorkOf(u)'
  BY <1>2, <1>3, FilesSame
<1>5. /\ item' \in [Tracks -> {"open", "completed", "skipped", "failed", "cancelled"}]
      /\ codec' \in [Tracks -> Codecs] /\ path' \in [Tracks -> Outputs \cup {None}]
      /\ file' \in [Outputs -> Tracks \cup {None}]
  BY <1>ty, EndedSays DEF TracksTyped
<1> QED
  BY <1>1, <1>3, <1>4, <1>5, LeavingKeeps

LEMMA HaltKeeps == ASSUME TracksInv, NEW t \in Tracks, Halt(t) PROVE TracksInv'
  BY EndsBadlyKeeps DEF Halt, world

LEMMA PanicKeeps == ASSUME TracksInv, NEW t \in Tracks, Panic(t) PROVE TracksInv'
  BY EndsBadlyKeeps DEF Panic, world, disk

LEMMA GiveUpKeeps == ASSUME TracksInv, NEW t \in Tracks, GiveUp(t) PROVE TracksInv'
<1>ty. TracksTyped /\ LockOf(t) /\ WorkOf(t)
  BY DEF TracksInv
<1>1. /\ pc[t] \in (Fetches \ {"claim", "flight"}) \cup Decrypting
      /\ DiscardFailed(t) /\ ReleaseLock(t) /\ setup' = setup /\ cleared' = cleared
  BY DEF GiveUp, world, DiscardFailed
<1>2. pc[t] # "claim" /\ item[t] = "open"
  BY <1>ty, <1>1 DEF Fetches, Decrypting, WorkOf
<1>0. SetupOK(setup) /\ codec[t] \in Codecs
  BY <1>ty, SetupsAssumption DEF TracksTyped
<1>3. PICK to \in {"select", "over"} :
        /\ pc' = [pc EXCEPT ![t] = to] /\ codec' \in [Tracks -> Codecs]
        /\ \/ path' = [path EXCEPT ![t] = None] \/ path' = path
        /\ \/ to = "select" /\ item' = item
           \/ to = "over" /\ item' = [item EXCEPT ![t] = Ended(t)]
  <2>1. CASE /\ codec[t] < setup.codecs /\ codec' = [codec EXCEPT ![t] = @ + 1]
             /\ pc' = [pc EXCEPT ![t] = "select"] /\ path' = [path EXCEPT ![t] = None]
             /\ UNCHANGED item
    <3>1. codec[t] + 1 \in Codecs
      BY <1>0, <2>1 DEF SetupOK, Codecs
    <3>2. codec' \in [Tracks -> Codecs]
      BY <1>ty, <2>1, <3>1 DEF TracksTyped
    <3> QED
      BY <2>1, <3>2
  <2>2. CASE /\ codec[t] = setup.codecs /\ pc' = [pc EXCEPT ![t] = "over"]
             /\ item' = [item EXCEPT ![t] = Ended(t)]
             /\ UNCHANGED <<codec, path>>
    BY <1>ty, <2>2 DEF TracksTyped
  <2> QED
    BY <2>1, <2>2 DEF GiveUp
<1>4. /\ \A u \in Tracks : u # t => pc'[u] = pc[u]
      /\ \A u \in Tracks : u # t => path'[u] = path[u]
      /\ \A u \in Tracks : u # t => item'[u] = item[u]
  BY <1>ty, <1>3 DEF TracksTyped
<1>5. item'[t] \notin Done /\ (to # "over" => item'[t] = "open")
  BY <1>ty, <1>2, <1>3, EndedSays DEF TracksTyped, Done
<1>6. Quiet(t) /\ LocksKept(t)
  BY <1>1, <1>4, Leaves DEF Quiet
<1>7. /\ item' \in [Tracks -> {"open", "completed", "skipped", "failed", "cancelled"}]
      /\ path' \in [Tracks -> Outputs \cup {None}]
  BY <1>ty, <1>3, EndedSays DEF TracksTyped
<1>8. /\ DoneKeepsFile' /\ \A u \in Tracks : u # t => WorkOf(u)'
      /\ file' \in [Outputs -> Tracks \cup {None}]
  <2>1. CASE lease[t] # None
    <3>1. Clean(path[t]) /\ path[t] # None
      BY <1>ty, <1>2, <2>1 DEF WorkOf, LockOf
    <3>2. file' = [file EXCEPT ![path[t]] = None]
      BY <1>1, <2>1, <3>1 DEF DiscardFailed, Discard
    <3>3. \A out \in Outputs : out # path[t] =>
            file'[out] = file[out] /\ (out \in cleared <=> out \in cleared')
      BY <1>ty, <1>1, <3>2 DEF TracksTyped
    <3>4. DoneKeepsFile' /\ \A u \in Tracks : u # t => WorkOf(u)'
      BY <1>1, <1>5, <1>6, <2>1, <3>1, <3>3, FilesAtPath
    <3>5. file' \in [Outputs -> Tracks \cup {None}]
      BY <1>ty, <3>2 DEF TracksTyped
    <3> QED
      BY <3>4, <3>5
  <2>2. CASE lease[t] = None
    <3>1. file' = file
      BY <1>1, <2>2 DEF DiscardFailed
    <3>2. DoneKeepsFile' /\ \A u \in Tracks : u # t => WorkOf(u)'
      BY <1>1, <1>5, <1>6, <3>1, FilesSame
    <3>3. file' \in [Outputs -> Tracks \cup {None}]
      BY <1>ty, <3>1 DEF TracksTyped
    <3> QED
      BY <3>2, <3>3
  <2> QED
    BY <2>1, <2>2
<1> QED
  BY <1>1, <1>3, <1>4, <1>5, <1>7, <1>8, LeavingKeeps

\* A context ends; the tracks see it at a step of theirs.
LEMMA StopsKeep ==
    ASSUME TracksInv, (\E j \in Jobs : Cancel(j)) \/ Shutdown
    PROVE  TracksInv'
<1>1. /\ setup' = setup /\ pc' = pc /\ codec' = codec /\ path' = path /\ lease' = lease
      /\ entry' = entry /\ table' = table /\ token' = token /\ refs' = refs /\ file' = file
      /\ cleared' = cleared /\ item' = item
  BY DEF Cancel, Shutdown, lock, disk
<1> QED
  BY <1>1 DEF TracksInv, TracksTyped, LocksStand, LocksTyped, OneHolder, TableNeeded, RefsCount,
     Having, DoneKeepsFile, LockOf, WorkOf, Clean

LEMMA CloseJobKeeps == ASSUME TracksInv, NEW j \in Jobs, CloseJob(j) PROVE TracksInv'
<1>ty. TracksTyped /\ LocksStand /\ DoneKeepsFile /\ \A t \in Tracks : LockOf(t) /\ WorkOf(t)
  BY DEF TracksInv
<1>1. /\ \A t \in Tracks : JobOf[t] = j => pc[t] \in {"idle", "over"}
      /\ item' = [t \in Tracks |-> IF JobOf[t] = j /\ item[t] = "open" THEN "cancelled" ELSE item[t]]
      /\ pc' = [t \in Tracks |-> IF JobOf[t] = j THEN "over" ELSE pc[t]]
      /\ setup' = setup /\ codec' = codec /\ path' = path /\ lease' = lease /\ entry' = entry
      /\ table' = table /\ token' = token /\ refs' = refs /\ file' = file /\ cleared' = cleared
  BY DEF CloseJob, world, lock, disk
<1>2. setup.tracks \subseteq Tracks
  BY <1>ty, SetupsAssumption DEF TracksTyped, SetupOK
<1>3. \A t \in Tracks : item'[t] \in Done <=> item[t] \in Done
  BY <1>1 DEF Done
<1>4. TracksTyped'
  BY <1>ty, <1>1 DEF TracksTyped, Steps
<1>5. LocksStand'
  BY <1>ty, <1>1 DEF LocksStand, LocksTyped, OneHolder, TableNeeded, RefsCount, Having
<1>6. DoneKeepsFile'
  BY <1>ty, <1>1, <1>2, <1>3 DEF DoneKeepsFile, Done
<1>7. \A t \in Tracks : LockOf(t)'
  BY <1>ty, <1>1 DEF LockOf
<1>8. \A out : Clean(out) => Clean(out)'
  BY <1>1, <1>2, <1>3 DEF Clean
<1>9. ASSUME NEW t \in Tracks PROVE WorkOf(t)'
  <2>1. WorkOf(t) /\ LockOf(t)
    BY <1>ty
  <2>2. CASE JobOf[t] = j
    BY <1>1, <1>3, <2>1, <2>2 DEF WorkOf, LockOf
  <2>3. CASE JobOf[t] # j
    <3>1. pc'[t] = pc[t] /\ item'[t] = item[t]
      BY <1>1, <2>3
    <3> QED
      BY <1>1, <1>8, <2>1, <3>1 DEF WorkOf
  <2> QED
    BY <2>2, <2>3
<1> QED
  BY <1>4, <1>5, <1>6, <1>7, <1>9 DEF TracksInv

\* The locks and permits were the process's; what is on disk stays.
LEMMA RestartKeeps == ASSUME TracksInv, Restart PROVE TracksInv'
<1>ty. TracksTyped /\ DoneKeepsFile /\ \A t \in Tracks : LockOf(t) /\ WorkOf(t)
  BY DEF TracksInv
<1>1. /\ pc' = [t \in Tracks |-> IF item[t] = "open" THEN "idle" ELSE "over"]
      /\ codec' = [t \in Tracks |-> IF item[t] = "open" THEN 1 ELSE codec[t]]
      /\ path' = [t \in Tracks |-> IF item[t] = "open" THEN None ELSE path[t]]
      /\ lease' = [t \in Tracks |-> None] /\ entry' = [t \in Tracks |-> 0]
      /\ table' = [p \in Outputs |-> 0] /\ token' = {} /\ refs' = [e \in Entries |-> 0]
      /\ setup' = setup /\ file' = file /\ cleared' = cleared /\ item' = item
  BY DEF Restart, disk
<1>2. setup.tracks \subseteq Tracks
  BY <1>ty, SetupsAssumption DEF TracksTyped, SetupOK
<1>3. TracksTyped'
  BY <1>ty, <1>1 DEF TracksTyped, Steps, Codecs
<1>4. \A e : e # 0 => Having(e)' = {}
  BY <1>1 DEF Having
<1>5. LocksStand'
  BY <1>1, <1>4, EntriesMany, FS_EmptySet
     DEF LocksStand, LocksTyped, OneHolder, TableNeeded, RefsCount
<1>6. DoneKeepsFile'
  BY <1>ty, <1>1, <1>2 DEF DoneKeepsFile
<1>7. \A t \in Tracks : LockOf(t)' /\ WorkOf(t)'
  BY <1>ty, <1>1 DEF LockOf, WorkOf, Done
<1> QED
  BY <1>3, <1>5, <1>6, <1>7 DEF TracksInv

LEMMA TracksInvStep == TracksInv /\ [Next]_vars => TracksInv'
<1> SUFFICES ASSUME TracksInv, [Next]_vars PROVE TracksInv'
  OBVIOUS
<1>1. ASSUME NEW t \in Tracks, Moves(t) PROVE TracksInv'
  BY <1>1, StartKeeps, SelectKeeps, EnterKeeps, TakeTokenKeeps, SkipKeeps, ClaimKeeps, FetchSteps,
     DecryptSteps, PlacedKeeps, CompleteKeeps, HaltKeeps DEF Moves
<1>2. ASSUME NEW t \in Tracks, Fetched(t) \/ Fails(t) PROVE TracksInv'
  BY <1>2, FetchSteps, RetryKeeps, GiveUpKeeps, PanicKeeps DEF Fails
<1>3. CASE Shutdown \/ \E j \in Jobs : Cancel(j)
  BY <1>3, StopsKeep
<1>4. ASSUME NEW j \in Jobs, CloseJob(j) PROVE TracksInv'
  BY <1>4, CloseJobKeeps
<1>5. CASE Restart
  BY <1>5, RestartKeeps
<1>6. CASE UNCHANGED vars
  BY <1>6 DEF vars, TracksInv, TracksTyped, LocksStand, LocksTyped, OneHolder, TableNeeded, RefsCount,
     Having, DoneKeepsFile, LockOf, WorkOf, Clean
<1> QED
  BY <1>1, <1>2, <1>3, <1>4, <1>5, <1>6 DEF Next

LEMMA TracksInvHolds == TracksInv => OutputsHold
<1> SUFFICES ASSUME TracksInv PROVE OutputsHold
  OBVIOUS
<1>1. \A t \in Tracks : LockOf(t)
  BY DEF TracksInv
<1>2. \A t, u \in Tracks : lease[t] # None /\ lease[t] = lease[u] => t = u
  BY <1>1, HoldersApart DEF LockOf
<1>3. TableNeeded /\ DoneKeepsFile
  BY DEF TracksInv, LocksStand
<1> QED
  BY <1>1, <1>2, <1>3 DEF OutputsHold, OutputsSerialized, LockOf, TableNeeded

\* The output locks do what they are for (OutputsHold), whatever the tracks, the
\* paths their codecs lead to, the failures, panics, cancellations and restarts:
\* one track at a time looks at a path, clears it and writes it, no entry of the
\* table is lost or left behind, and an item that says it has its file has it,
\* unless a job that overwrites has cleared the path.
THEOREM OutputsStand == Spec => []OutputsHold
<1>1. Spec => []TracksInv
  BY TracksInvInit, TracksInvStep, PTL DEF Spec
<1> QED
  BY <1>1, TracksInvHolds, PTL

-----------------------------------------------------------------------------
(* The permits *)

\* A track has permits only between the start of its transfer and its output.
Empty == {"idle", "select", "enter", "wait", "claim", "flight", "over"}
PermitsInv ==
    /\ permits \in [Pools -> SUBSET Tracks] /\ pc \in [Tracks -> Steps]
    /\ \A t \in Tracks, l \in Pools : pc[t] \in Empty => t \notin permits[l]

\* Taking a permit, on the way to a step where a track may have one.
LEMMA AcquireKeeps ==
    ASSUME PermitsInv, NEW t \in Tracks, NEW l \in Pools, NEW to \in Steps \ Empty,
           Acquire(t, l), pc' = [pc EXCEPT ![t] = to]
    PROVE  PermitsInv'
<1>1. /\ permits' = [permits EXCEPT ![l] = @ \cup {t}]
      /\ permits \in [Pools -> SUBSET Tracks] /\ pc \in [Tracks -> Steps]
  BY DEF Acquire, PermitsInv
<1>2. permits'[l] = permits[l] \cup {t} /\ \A k \in Pools : k # l => permits'[k] = permits[k]
  BY <1>1
<1>3. permits' \in [Pools -> SUBSET Tracks] /\ pc' \in [Tracks -> Steps]
  BY <1>1
<1>4. pc'[t] = to /\ \A u \in Tracks : u # t => pc'[u] = pc[u]
  BY <1>1
<1>5. \A u \in Tracks, k \in Pools : pc'[u] \in Empty => u \notin permits'[k]
  BY <1>2, <1>4 DEF PermitsInv
<1> QED
  BY <1>3, <1>5 DEF PermitsInv

\* Giving permits back, or none; all of them on the way to a step without.
LEMMA ReleaseKeeps ==
    ASSUME PermitsInv, NEW t \in Tracks, NEW ls \in SUBSET Pools, NEW to \in Steps,
           Release(t, ls), pc' = [pc EXCEPT ![t] = to],
           to \in Empty => ls = Pools \/ pc[t] \in Empty
    PROVE  PermitsInv'
<1>1. /\ permits' = [l \in Pools |-> IF l \in ls THEN permits[l] \ {t} ELSE permits[l]]
      /\ permits \in [Pools -> SUBSET Tracks] /\ pc \in [Tracks -> Steps]
  BY DEF Release, PermitsInv
<1>2. \A l \in Pools : permits'[l] \in SUBSET permits[l] /\ (l \in ls => t \notin permits'[l])
  BY <1>1
<1>3. permits' \in [Pools -> SUBSET Tracks] /\ pc' \in [Tracks -> Steps]
  BY <1>1
<1>4. pc'[t] = to /\ \A u \in Tracks : u # t => pc'[u] = pc[u]
  BY <1>1
<1>5. \A u \in Tracks, k \in Pools : pc'[u] \in Empty => u \notin permits'[k]
  BY <1>2, <1>4 DEF PermitsInv
<1> QED
  BY <1>3, <1>5 DEF PermitsInv

\* A step that leaves the permits alone.
LEMMA NoPermitKeeps ==
    ASSUME PermitsInv, NEW t \in Tracks, NEW to \in Steps,
           permits' = permits, pc' = [pc EXCEPT ![t] = to], to \in Empty => pc[t] \in Empty
    PROVE  PermitsInv'
<1>1. Release(t, {})
  BY DEF Release, PermitsInv
<1> QED
  BY <1>1, ReleaseKeeps

LEMMA MovesKeepPermits ==
    ASSUME PermitsInv, NEW t \in Tracks, Moves(t) \/ Fetched(t)
    PROVE  PermitsInv'
<1>1. CASE Start(t) \/ Enter(t) \/ TakeToken(t) \/ Skip(t) \/ Claim(t)
  BY <1>1, NoPermitKeeps DEF Start, Enter, TakeToken, Skip, Claim, Goto, Steps, Empty
<1>2. CASE Select(t)
  <2>1. PICK to \in {"claim", "enter"} :
          pc[t] = "select" /\ permits' = permits /\ pc' = [pc EXCEPT ![t] = to]
    BY <1>2 DEF Select, Goto
  <2> QED
    BY <2>1, NoPermitKeeps DEF Steps, Empty
<1>3. CASE Finalized(t) \/ Rename(t) \/ CopyStarts(t) \/ CopyEnds(t)
  BY <1>3, NoPermitKeeps DEF Finalized, Rename, CopyStarts, CopyEnds, Goto, Steps, Empty
<1>4. CASE TakeFlight(t)
  BY <1>4, AcquireKeeps DEF TakeFlight, Goto, Steps, Empty, Pools
<1>5. CASE TakeSlot(t)
  BY <1>5, AcquireKeeps DEF TakeSlot, Goto, Steps, Empty, Pools
<1>6. CASE TakeDecrypt(t)
  BY <1>6, AcquireKeeps DEF TakeDecrypt, Goto, Steps, Empty, Pools
<1>7. CASE Fetched(t)
  BY <1>7, ReleaseKeeps DEF Fetched, Goto, Steps, Empty, Pools
<1>8. CASE Decrypted(t)
  BY <1>8, ReleaseKeeps DEF Decrypted, Goto, Steps, Empty, Pools
<1>9. CASE Complete(t) \/ Halt(t)
  BY <1>9, ReleaseKeeps DEF Complete, Halt, Goto, Steps
<1> QED
  BY <1>1, <1>2, <1>3, <1>4, <1>5, <1>6, <1>7, <1>8, <1>9 DEF Moves

LEMMA FailsKeepPermits ==
    ASSUME PermitsInv, NEW t \in Tracks, Fails(t), "transfer" \notin setup.panics
    PROVE  PermitsInv'
<1>1. CASE Retry(t)
  <2>1. PICK to \in {"ready", "select"}, ls \in {{"decrypt"}, Pools} :
          /\ pc' = [pc EXCEPT ![t] = to] /\ Release(t, ls)
          /\ to = "select" => ls = Pools
    BY <1>1 DEF Retry
  <2> QED
    BY <2>1, ReleaseKeeps DEF Steps, Empty, Pools
<1>2. CASE GiveUp(t)
  <2>1. PICK to \in {"select", "over"} : pc' = [pc EXCEPT ![t] = to] /\ Release(t, Pools)
    BY <1>2 DEF GiveUp
  <2> QED
    BY <2>1, ReleaseKeeps DEF Steps
<1>3. CASE Panic(t)
  <2>1. pc' = [pc EXCEPT ![t] = "over"] /\ Release(t, Pools)
    BY <1>3 DEF Panic
  <2> QED
    BY <2>1, ReleaseKeeps DEF Steps
<1> QED
  BY <1>1, <1>2, <1>3 DEF Fails

\* Every way a run can end gives its permits back (PermitsReturned), but
\* for the one the run track_panic shows: a panic while the media is transferred,
\* which the hypothesis leaves out.
THEOREM PermitsComeBack ==
    ASSUME \A s \in Setups : "transfer" \notin s.panics
    PROVE  Spec => []PermitsReturned
<1>1. Init => PermitsInv /\ setup \in Setups
  BY DEF Init, PermitsInv, Steps
<1>2. PermitsInv /\ setup \in Setups /\ [Next]_vars => (PermitsInv /\ setup \in Setups)'
  <2> SUFFICES ASSUME PermitsInv, setup \in Setups, [Next]_vars
      PROVE PermitsInv' /\ setup' = setup
    OBVIOUS
  <2>1. ASSUME NEW t \in Tracks, Moves(t) \/ Fetched(t) PROVE PermitsInv' /\ setup' = setup
    <3>1. setup' = setup
      BY <2>1 DEF Moves, Start, Select, Enter, TakeToken, Skip, Claim, TakeFlight, TakeSlot,
         TakeDecrypt, Decrypted, Finalized, Rename, CopyStarts, CopyEnds, Complete, Halt, Fetched, world
    <3> QED
      BY <2>1, <3>1, MovesKeepPermits
  <2>2. ASSUME NEW t \in Tracks, Fails(t) PROVE PermitsInv' /\ setup' = setup
    BY <2>2, FailsKeepPermits DEF Fails, Retry, GiveUp, Panic, world
  <2>3. CASE (\E j \in Jobs : Cancel(j)) \/ Shutdown
    BY <2>3 DEF Cancel, Shutdown, PermitsInv
  <2>4. ASSUME NEW j \in Jobs, CloseJob(j) PROVE PermitsInv' /\ setup' = setup
    <3>1. /\ \A t \in Tracks : JobOf[t] = j => pc[t] \in {"idle", "over"}
          /\ pc' = [t \in Tracks |-> IF JobOf[t] = j THEN "over" ELSE pc[t]]
          /\ permits' = permits /\ setup' = setup
      BY <2>4 DEF CloseJob, world
    <3> QED
      BY <3>1 DEF PermitsInv, Steps, Empty
  <2>5. CASE Restart
    <3>1. /\ permits' = [l \in Pools |-> {}] /\ setup' = setup
          /\ pc' = [t \in Tracks |-> IF item[t] = "open" THEN "idle" ELSE "over"]
      BY <2>5 DEF Restart
    <3> QED
      BY <3>1 DEF PermitsInv, Steps
  <2>6. CASE UNCHANGED vars
    BY <2>6 DEF vars, PermitsInv
  <2> QED
    BY <2>1, <2>2, <2>3, <2>4, <2>5, <2>6 DEF Next
<1>3. PermitsInv => PermitsReturned
  BY DEF PermitsInv, PermitsReturned, Empty
<1> QED
  BY <1>1, <1>2, <1>3, PTL DEF Spec

\* A track takes a free permit, or none.
LEMMA PoolTaken ==
    ASSUME permits \in [Pools -> SUBSET Tracks], NEW l \in Pools, NEW k \in Pools, NEW t \in Tracks, Acquire(t, k)
    PROVE  [Pool(l)!Next]_(permits[l]) /\ permits' \in [Pools -> SUBSET Tracks]
<1>1. permits' \in [Pools -> SUBSET Tracks]
  BY DEF Acquire
<1>2. CASE l # k \/ t \in permits[l]
  <2>1. permits'[l] = permits[l]
    BY <1>2 DEF Acquire
  <2> QED BY <1>1, <2>1
<1>3. CASE l = k /\ t \notin permits[l]
  <2>1. Cardinality(permits[l]) < Limit(l) /\ permits'[l] = permits[l] \cup {t}
    BY <1>3 DEF Acquire
  <2>2. Pool(l)!Cardinality(permits[l]) < Limit(l)
    BY <2>1 DEF Cardinality, Pool!Cardinality
  <2>3. Pool(l)!Take(t)
    BY <1>3, <2>1, <2>2 DEF Pool!Take
  <2> QED BY <1>1, <2>3 DEF Pool!Next
<1> QED BY <1>2, <1>3

\* A track gives back its own permits only.
LEMMA PoolReleased ==
    ASSUME permits \in [Pools -> SUBSET Tracks], NEW l \in Pools, NEW ls \in SUBSET Pools, NEW t \in Tracks,
           Release(t, ls)
    PROVE  [Pool(l)!Next]_(permits[l]) /\ permits' \in [Pools -> SUBSET Tracks]
<1>1. permits' \in [Pools -> SUBSET Tracks]
  BY DEF Release
<1>2. CASE l \notin ls \/ t \notin permits[l]
  <2>1. permits'[l] = permits[l]
    BY <1>2 DEF Release
  <2> QED BY <1>1, <2>1
<1>3. CASE l \in ls /\ t \in permits[l]
  <2>1. permits'[l] = permits[l] \ {t}
    BY <1>3 DEF Release
  <2>2. Pool(l)!GiveBack(t)
    BY <1>3, <2>1 DEF Pool!GiveBack
  <2> QED BY <1>1, <2>2 DEF Pool!Next
<1> QED BY <1>2, <1>3

\* Every step uses every pool as one.
LEMMA PoolSteps ==
    ASSUME permits \in [Pools -> SUBSET Tracks], NEW l \in Pools, [Next]_vars
    PROVE  [Pool(l)!Next]_(permits[l]) /\ permits' \in [Pools -> SUBSET Tracks]
<1>1. CASE permits' = permits
  BY <1>1
<1>2. ASSUME NEW t \in Tracks, Moves(t) \/ Fetched(t), permits' # permits
      PROVE  [Pool(l)!Next]_(permits[l]) /\ permits' \in [Pools -> SUBSET Tracks]
  <2>1. CASE TakeFlight(t)
    <3>1. Acquire(t, "flight") BY <2>1 DEF TakeFlight
    <3> QED BY <3>1, PoolTaken DEF Pools
  <2>2. CASE TakeSlot(t)
    <3>1. Acquire(t, "download") BY <2>2 DEF TakeSlot
    <3> QED BY <3>1, PoolTaken DEF Pools
  <2>3. CASE TakeDecrypt(t)
    <3>1. Acquire(t, "decrypt") BY <2>3 DEF TakeDecrypt
    <3> QED BY <3>1, PoolTaken DEF Pools
  <2>4. CASE Fetched(t) \/ Decrypted(t) \/ Complete(t) \/ Halt(t)
    <3>1. PICK ls \in SUBSET Pools : Release(t, ls)
      BY <2>4 DEF Fetched, Decrypted, Complete, Halt, Pools
    <3> QED BY <3>1, PoolReleased
  <2>5. ASSUME Start(t) \/ Select(t) \/ Enter(t) \/ TakeToken(t) \/ Skip(t) \/ Claim(t)
               \/ Finalized(t) \/ Rename(t) \/ CopyStarts(t) \/ CopyEnds(t)
        PROVE  FALSE
    BY <1>2, <2>5 DEF Start, Select, Enter, TakeToken, Skip, Claim, Finalized, Rename, CopyStarts, CopyEnds
  <2> QED BY <1>2, <2>1, <2>2, <2>3, <2>4, <2>5 DEF Moves
<1>3. ASSUME NEW t \in Tracks, Fails(t)
      PROVE  [Pool(l)!Next]_(permits[l]) /\ permits' \in [Pools -> SUBSET Tracks]
  <2>1. PICK ls \in SUBSET Pools : Release(t, ls)
    BY <1>3 DEF Fails, Retry, GiveUp, Panic, Pools
  <2> QED BY <2>1, PoolReleased
<1>4. CASE Restart
  <2>1. permits' = [k \in Pools |-> {}]
    BY <1>4 DEF Restart
  <2> QED BY <2>1 DEF Pool!Next, Pool!ProcessEnds
<1>5. ASSUME permits' # permits
      PROVE  (\E t \in Tracks : Moves(t) \/ Fetched(t) \/ Fails(t)) \/ Restart
  BY <1>5 DEF Next, Cancel, CloseJob, Shutdown, vars
<1> QED BY <1>1, <1>2, <1>3, <1>4, <1>5

\* The tracks take and give back the permits of each pool as the semaphore
\* allows (ImplementsPool of PrioritySemaphore): one each, its own, and never
\* more than the limit, through retries, panics and restarts.
THEOREM TracksUsePools == ASSUME NEW l \in Pools PROVE Spec => Pool(l)!Spec
<1>1. Init => Pool(l)!Init /\ permits \in [Pools -> SUBSET Tracks]
  BY DEF Init, Pool!Init
<1>2. permits \in [Pools -> SUBSET Tracks] /\ [Next]_vars
        => [Pool(l)!Next]_(permits[l]) /\ (permits \in [Pools -> SUBSET Tracks])'
  BY PoolSteps
<1> QED BY <1>1, <1>2, PTL DEF Spec, Pool!Spec
=============================================================================
