---------------------------- MODULE LibrarySync ----------------------------
(***************************************************************************)
(* The library watcher (src/internal/librarysync): each pass reads the     *)
(* user's Apple Music library newest first, down to the oldest song it     *)
(* remembers, and submits the albums of the songs it finds above that one  *)
(* and does not remember.  The memory, called the anchor, is a stored list *)
(* of song ids; there are no timestamps.                                   *)
(*                                                                         *)
(* The library itself (Apple's side) changes while a pass reads it.        *)
(***************************************************************************)
EXTENDS Integers, Sequences, FiniteSets, SequencesExt

CONSTANTS
    Songs,
    AlbumOf,        \* the library album of a song; NoAlbum when it has none
    NoAlbum,
    FirstLibraries, \* what the library may hold at the start
    RefusedSets,    \* which albums' lookups may always answer a client error
    Changes,        \* how it changes: "remove", "removeInScan", "readd", "outrun"
    AnchorSize,     \* anchorSize, 50 in the code
    Margin,         \* margin, 25
    PageLimit,      \* songs of a further page, 100
    ScanCap,        \* scanCap, 2000
    MaxClientErrorPasses, \* 3
    MaxUpsets       \* bound: failed reads, saves, lookups and submissions, resets and restarts

Albums == {AlbumOf[s] : s \in Songs} \ {NoAlbum}

ASSUME WatcherSizesAssumption ==
    /\ AnchorSize \in Nat \ {0} /\ Margin \in Nat \ {0} /\ PageLimit \in Nat \ {0}
    /\ ScanCap \in Nat \ {0} /\ MaxClientErrorPasses \in Nat \ {0}
ASSUME WatcherBoundsAssumption ==
    /\ MaxUpsets \in Nat /\ RefusedSets \subseteq SUBSET Albums
    /\ Changes \subseteq {"remove", "removeInScan", "readd", "outrun"}
    /\ \A first \in FirstLibraries : first \in Seq(Songs) /\ IsInjective(first)

VARIABLES
    library,    \* the user's songs, newest first
    refused,    \* albums whose lookup always answers a client error
    stored,     \* the anchor on disk, newest first
    generation, \* resets since the process started
    strikes,    \* clientErrorPasses
    pc,         \* where the pass is
    myGen,      \* the generation its anchor belongs to
    anchor,     \* the anchor it loaded
    scanned,    \* the songs it has read
    toLookUp,   \* where the albums without a catalog link yet were first read
    urls,       \* those with one
    pending,    \* those it could not settle
    upsets,
    \* History, for the properties only
    removed,    \* songs that have left the library
    newcomers,  \* songs added and neither settled nor forgotten
    standing,   \* the library when the pass began to read
    had,        \* the library when the stored anchor was read
    forgotten   \* a reset came after the last load

passVars == <<pc, myGen, anchor, scanned, toLookUp, urls, pending>>
history == <<removed, newcomers, standing, had, forgotten>>
vars == <<library, refused, stored, generation, strikes, passVars, upsets, history>>

FirstOf(s, n) == SubSeq(s, 1, IF Len(s) < n THEN Len(s) ELSE n)

Init ==
    /\ library \in FirstLibraries /\ refused \in RefusedSets
    /\ stored = <<>> /\ generation = 0 /\ strikes = [a \in Albums |-> 0]
    /\ pc = "idle" /\ myGen = 0 /\ anchor = <<>> /\ scanned = <<>>
    /\ toLookUp = {} /\ urls = {} /\ pending = {}
    /\ upsets = 0
    /\ removed = {} /\ newcomers = {} /\ standing = {} /\ had = {}
    /\ forgotten = FALSE

-----------------------------------------------------------------------------
\* The library.

\* Songs of a scan come in more than it has read: the next page would begin
\* among them.
Outruns == /\ pc = "read" /\ Len(scanned) \in DOMAIN library
           /\ library[Len(scanned)] \notin standing

AddSong(s) ==
    /\ s \notin Range(library)
    /\ s \in removed => "readd" \in Changes
    /\ "outrun" \in Changes \/ ~Outruns
    /\ library' = <<s>> \o library
    /\ newcomers' = newcomers \cup {s} /\ had' = had \ {s}
    /\ UNCHANGED <<refused, stored, generation, strikes, passVars, upsets, removed,
                   standing, forgotten>>

RemoveSong(s) ==
    /\ "remove" \in Changes /\ s \in Range(library) \ removed
    /\ (pc = "read" /\ scanned # <<>>) => "removeInScan" \in Changes
    /\ \E i \in DOMAIN library : library[i] = s /\ library' = RemoveAt(library, i)
    /\ removed' = removed \cup {s} /\ newcomers' = newcomers \ {s}
    /\ UNCHANGED <<refused, stored, generation, strikes, passVars, upsets, standing,
                   had, forgotten>>

-----------------------------------------------------------------------------
\* A pass.

\* Whatever fails ends the pass; nothing it read is kept.
EndPass ==
    /\ pc' = "idle" /\ myGen' = 0 /\ anchor' = <<>> /\ scanned' = <<>>
    /\ toLookUp' = {} /\ urls' = {} /\ pending' = {}

Upset == upsets < MaxUpsets /\ upsets' = upsets + 1

LoadAnchor ==
    /\ pc = "idle"
    /\ pc' = "read" /\ myGen' = generation /\ anchor' = stored
    /\ forgotten' = FALSE
    /\ UNCHANGED <<library, refused, stored, generation, strikes, scanned, toLookUp,
                   urls, pending, upsets, removed, newcomers, standing, had>>

Oldest == anchor[Len(anchor)]

\* Mutant: every song read and not remembered is new, the margin included.
AddedToTheEnd(songs) == {i \in DOMAIN songs : songs[i] \notin Range(anchor)}

\* The positions of the new songs: ahead of the oldest remembered one, and not
\* remembered.
Added(songs) ==
    {i \in DOMAIN songs : /\ \A k \in 1 .. i : songs[k] # Oldest
                          /\ songs[i] \notin Range(anchor)}

\* The first new song of each album.
FirstsOf(songs) ==
    {i \in Added(songs) :
       /\ AlbumOf[songs[i]] # NoAlbum
       /\ \A j \in Added(songs) : j < i => AlbumOf[songs[j]] # AlbumOf[songs[i]]}

\* The request of one page: enough for the anchor and the margin first.
NextLimit ==
    LET want == Len(anchor) + Margin - Len(scanned)
    IN  IF anchor = <<>> THEN AnchorSize ELSE IF want > 0 THEN want ELSE PageLimit
NextPage ==
    LET rest == SubSeq(library, Len(scanned) + 1, Len(library))
    IN  FirstOf(rest, NextLimit)

ReadPage ==
    LET all == scanned \o NextPage
        hasMore == Len(library) > Len(all)
        \* Without an anchor the first page is all there is to read.
        over == anchor = <<>> \/ NextPage = <<>> \/ ~hasMore \/ Len(all) >= ScanCap
        found == anchor # <<>> /\ Oldest \in Range(NextPage)
        new == {all[i] : i \in Added(all)}
    IN  /\ pc = "read"
        /\ scanned' = all
        /\ standing' = IF scanned = <<>> THEN Range(library) ELSE standing
        /\ \/ /\ found
              /\ pc' = "submit" /\ toLookUp' = FirstsOf(all)
              /\ newcomers' = newcomers \ {s \in new : AlbumOf[s] = NoAlbum}
           \/ /\ ~found /\ over
              /\ pc' = "reanchor" /\ UNCHANGED <<toLookUp, newcomers>>
           \/ /\ ~found /\ ~over
              /\ UNCHANGED <<pc, toLookUp, newcomers>>
        /\ UNCHANGED <<library, refused, stored, generation, strikes, myGen, anchor, urls,
                       pending, upsets, removed, had, forgotten>>

NewOf(as) == {scanned[i] : i \in {j \in Added(scanned) : AlbumOf[scanned[j]] \in as}}

\* Mutant: giving an album up starts its count over.
StrikeAnew(n) == IF n + 1 < MaxClientErrorPasses THEN n + 1 ELSE 0

\* giveUpOnAlbum: one more client error.  Once at its limit the count stays, so
\* that the album is skipped again while another one holds the anchor.
Strike(n) == IF n < MaxClientErrorPasses THEN n + 1 ELSE n

\* One catalog lookup, of the album that was read first: a link, no catalog
\* counterpart, a client error (skipped from the third pass in a row), or a
\* failure that may pass.
Lookup ==
    \E i \in toLookUp :
    LET a == AlbumOf[scanned[i]]
        Settled == newcomers' = newcomers \ NewOf({a}) /\ UNCHANGED <<urls, pending>>
        Pending == pending' = pending \cup {a} /\ UNCHANGED <<urls, newcomers>>
    IN  /\ pc = "submit" /\ \A j \in toLookUp : i <= j
        /\ toLookUp' = toLookUp \ {i}
        /\ \/ /\ a \notin refused /\ strikes' = [strikes EXCEPT ![a] = 0]
              /\ \/ Settled
                 \/ urls' = urls \cup {a} /\ UNCHANGED <<pending, newcomers>>
              /\ UNCHANGED upsets
           \/ /\ strikes' = [strikes EXCEPT ![a] = Strike(@)]
              /\ IF strikes[a] + 1 >= MaxClientErrorPasses THEN Settled ELSE Pending
              /\ IF a \in refused THEN UNCHANGED upsets ELSE Upset
           \/ Upset /\ strikes' = [strikes EXCEPT ![a] = 0] /\ Pending
        /\ UNCHANGED <<library, refused, stored, generation, pc, myGen, anchor, scanned,
                       removed, standing, had, forgotten>>

\* Mutant: a rejected album does not hold the anchor.
SubmitForgetsRejected ==
    /\ pc = "submit" /\ toLookUp = {} /\ urls # {}
    /\ \E settled \in SUBSET urls :
         /\ IF settled # urls THEN Upset ELSE UNCHANGED upsets
         /\ newcomers' = newcomers \ NewOf(settled)
    /\ urls' = {}
    /\ UNCHANGED <<library, refused, stored, generation, strikes, pc, myGen, anchor,
                   scanned, toLookUp, pending, removed,
                   standing, had, forgotten>>

\* SubmitBatch: an album accepted, active already or rejected for good is
\* settled; any other rejection, a full queue among them, leaves it pending.
SubmitAlbums ==
    /\ pc = "submit" /\ toLookUp = {} /\ urls # {}
    /\ \E settled \in SUBSET urls :
         /\ IF settled # urls THEN Upset ELSE UNCHANGED upsets
         /\ newcomers' = newcomers \ NewOf(settled)
         /\ pending' = pending \cup (urls \ settled)
    /\ urls' = {}
    /\ UNCHANGED <<library, refused, stored, generation, strikes, pc, myGen, anchor,
                   scanned, toLookUp, removed, standing, had, forgotten>>

KeepAnchor ==
    /\ pc = "submit" /\ toLookUp = {} /\ urls = {} /\ pending # {}
    /\ EndPass
    /\ UNCHANGED <<library, refused, stored, generation, strikes, upsets, history>>

\* Mutant: the pass saves whatever happened meanwhile.
NoReset == TRUE

\* The anchor the pass loaded has not been reset since.
NotReset == generation = myGen

\* The anchor moves to the top of what was read, whether its additions are
\* settled or it had no boundary to measure from.
SaveAnchor ==
    /\ pc = "submit" => toLookUp = {} /\ urls = {} /\ pending = {}
    /\ pc \in {"submit", "reanchor"}
    /\ IF NotReset
       THEN /\ stored' = FirstOf(scanned, AnchorSize)
            /\ strikes' = [a \in Albums |-> 0]
            /\ had' = standing
            /\ newcomers' = IF pc = "reanchor" THEN newcomers \ standing ELSE newcomers
       ELSE UNCHANGED <<stored, strikes, had, newcomers>>
    /\ EndPass
    /\ UNCHANGED <<library, refused, generation, upsets, removed, standing, forgotten>>

\* A page or a save that fails, or the context's end.
PassFails ==
    /\ pc # "idle" /\ Upset
    /\ EndPass
    /\ UNCHANGED <<library, refused, stored, generation, strikes, history>>

-----------------------------------------------------------------------------
\* The API's reset, and the process.

ResetAnchor ==
    /\ Upset
    /\ stored' = <<>> /\ generation' = generation + 1
    /\ newcomers' = {} /\ forgotten' = TRUE
    /\ UNCHANGED <<library, refused, strikes, passVars, removed,
                   standing, had>>

Restart ==
    /\ Upset
    /\ generation' = 0 /\ strikes' = [a \in Albums |-> 0]
    /\ EndPass
    /\ UNCHANGED <<library, refused, stored, history>>

-----------------------------------------------------------------------------
Pass == LoadAnchor \/ ReadPage \/ Lookup \/ SubmitAlbums \/ KeepAnchor \/ SaveAnchor

Next ==
    \/ \E s \in Songs : AddSong(s) \/ RemoveSong(s)
    \/ Pass \/ PassFails
    \/ ResetAnchor \/ Restart

Spec == Init /\ [][Next]_vars

\* While the watcher is enabled and has a token, passes go on.
FairSpec == Spec /\ WF_vars(Pass)

-----------------------------------------------------------------------------
\* Every variable has its type.
TypeOK ==
    /\ library \in Seq(Songs) /\ IsInjective(library)
    /\ stored \in Seq(Songs) /\ Len(stored) <= AnchorSize
    /\ generation \in 0 .. MaxUpsets /\ myGen \in 0 .. MaxUpsets
    /\ strikes \in [Albums -> 0 .. MaxClientErrorPasses]
    /\ pc \in {"idle", "read", "reanchor", "submit"}
    /\ anchor \in Seq(Songs) /\ scanned \in Seq(Songs)
    /\ toLookUp \subseteq DOMAIN scanned
    /\ urls \subseteq Albums /\ pending \subseteq Albums
    /\ newcomers \cup standing \cup had \cup removed \subseteq Songs
    /\ forgotten \in BOOLEAN

\* A song added since the anchor was laid, whose album no pass has settled, is
\* still ahead of the stored anchor: moving the anchor never skips an addition,
\* whatever failed, restarted or was added in the meantime.
NothingSkipped ==
    stored # <<>> =>
      \A s \in newcomers \cap Range(library) :
        /\ s \notin Range(stored)
        /\ \A i, j \in DOMAIN library :
             library[i] = s /\ library[j] = stored[Len(stored)] => i < j

\* A song that was in the library when the anchor was laid is never taken for
\* an addition: the watcher never back-fills.
NeverBackfills ==
    pc = "submit" => {scanned[i] : i \in Added(scanned)} \cap had = {}

\* A reset holds until a pass that began after it has ended: a pass in flight
\* submits what it found and does not write its anchor back.
ResetHolds == forgotten => stored = <<>>

\* The anchor stands for the library: nothing added is passed over, nothing that
\* was there taken for new, nothing left of it after a reset.
AnchorStands == NothingSkipped /\ NeverBackfills /\ ResetHolds

\* The watcher catches up: once the library stands still the anchor comes to its
\* top and stays there, although the lookups of several albums never succeed and
\* do not reach their limit in the same pass.
AnchorCatchesUp ==
    <>[](library # <<>> => stored # <<>> /\ Head(stored) = Head(library))
=============================================================================
