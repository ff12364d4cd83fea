---------------------------- MODULE GuestInstall ----------------------------
(***************************************************************************)
(* amdl wrapper install (src/internal/wrapperhost: install.go, fetch.go,   *)
(* parts.go, ranges.go): a pinned artifact is downloaded over several      *)
(* connections into part files, or as one stream, each going on from what  *)
(* the other left; it is checked against its pin and unpacked.             *)
(*                                                                         *)
(* A byte is a unit of content: i where byte i of the artifact belongs, 0  *)
(* where a power loss left something else. An action is one write or one   *)
(* step on the files; the process may die before any of them.              *)
(***************************************************************************)
EXTENDS Integers, Sequences, FiniteSets, Functions

CONSTANTS
    Size,      \* the pin's size
    Chunk,     \* chunkSize
    Conns,     \* connections of a ranged download
    Servers,   \* how a server may take Range: "honors", "ignores", "misplaces"
    MaxFaults, \* bound: attempts that fail or processes that die
    MaxTears,  \* bound: power losses that spoil a file
    MaxServerChanges \* bound: changes of the server's ways

ASSUME InstallAssumption == Size \in Nat \ {0} /\ Chunk \in Nat \ {0}

VARIABLES
    step,      \* where Install is, "idle" between two runs of it
    server,    \* one of Servers
    target,    \* download-<sha>.zip, <<>> for none
    parts,     \* the part files by span
    tmps,      \* their .tmp files
    plan,      \* spans the ranged download still misses
    whole,     \* the parts that were whole when it began
    assets,    \* whether assets/<id> is there
    image,     \* data.img: "none", "cut" while it is copied or "whole"
    installed, \* whether installed.json names the guest
    spoiled,   \* whether a power loss or the server put wrong bytes in a file
    faults, tears, serverChanges

fetchVars == <<target, parts, tmps, plan, whole>>
guestVars == <<assets, image, installed>>
worldVars == <<server, spoiled, faults, tears, serverChanges>>
installVars == <<step, fetchVars, guestVars, worldVars>>

\* <<start, end>> for the bytes [start, end).
Spans == {s \in (0 .. Size) \X (0 .. Size) : s[1] < s[2]}
Length(s) == s[2] - s[1]
Bytes(a, b) == [i \in 1 .. b - a |-> a + i]
NoParts == <<>>
Put(files, s, f) == [t \in {s} \union DOMAIN files |-> IF t = s THEN f ELSE files[t]]
Tmp(c) == IF c \in DOMAIN tmps THEN tmps[c] ELSE <<>>

InstallInit ==
    /\ step = "idle" /\ server \in Servers
    /\ target = <<>> /\ parts = NoParts /\ tmps = NoParts
    /\ plan = {} /\ whole = {}
    /\ assets = FALSE /\ image = "none" /\ installed = FALSE
    /\ spoiled = FALSE /\ faults = 0 /\ tears = 0 /\ serverChanges = 0

-----------------------------------------------------------------------------
(* A ranged download *)

WholeParts(p) == {s \in DOMAIN p : Len(p[s]) = Length(s)}
Within(w, i) == \E s \in w : s[1] <= i /\ i < s[2]

\* missing: each gap the whole parts leave, cut into chunks from its start.
GapStart(w, a) == CHOOSE g \in 0 .. a : /\ \A i \in g .. a : ~Within(w, i)
                                        /\ g = 0 \/ Within(w, g - 1)
Missing(w) ==
    {s \in Spans : /\ \A i \in s[1] .. s[2] - 1 : ~Within(w, i)
                   /\ (s[1] - GapStart(w, s[1])) % Chunk = 0 /\ Length(s) <= Chunk
                   /\ Length(s) = Chunk \/ s[2] = Size \/ Within(w, s[2])}

\* downloadRanges up to its fetch: a stream's partial file becomes a part,
\* parts cut short go, and so do .tmp files of chunks no longer planned.
Begin ==
    /\ step = "idle" /\ ~installed /\ Len(target) # Size /\ Size >= 2 * Chunk
    /\ LET adopted == IF target # <<>> /\ Len(target) < Size
                      THEN Put(parts, <<0, Len(target)>>, target) ELSE parts
       IN /\ parts' = Restrict(adopted, WholeParts(adopted))
          /\ target' = IF Len(target) < Size THEN <<>> ELSE target
    /\ whole' = WholeParts(parts') /\ plan' = Missing(whole')
    /\ tmps' = Restrict(tmps, {s \in DOMAIN tmps \cap plan' : Len(tmps[s]) <= Length(s)})
    /\ step' = IF plan' = {} THEN "assemble" ELSE "ranges"
    /\ UNCHANGED <<guestVars, worldVars>>
\* The file is whole already, or too small for ranges.
BeginWhole ==
    /\ step = "idle" /\ ~installed /\ Len(target) = Size
    /\ step' = "verify" /\ UNCHANGED <<fetchVars, guestVars, worldVars>>

\* The workers take the plan in order, Conns chunks at a time.
Fetching(c) ==
    /\ step = "ranges" /\ Cardinality({d \in plan : d[1] < c[1]}) < Conns
    /\ UNCHANGED <<target, whole, guestVars, worldVars>>
\* chunk: the next byte of the range goes to the end of the .tmp file.
Write(c) ==
    /\ Fetching(c) /\ server = "honors" /\ Len(Tmp(c)) < Length(c)
    /\ tmps' = Put(tmps, c, Append(Tmp(c), c[1] + Len(Tmp(c)) + 1))
    /\ UNCHANGED <<step, parts, plan>>
Finish(c) ==
    /\ Fetching(c) /\ Len(Tmp(c)) = Length(c)
    /\ parts' = Put(parts, c, tmps[c]) /\ tmps' = Restrict(tmps, DOMAIN tmps \ {c})
    /\ plan' = plan \ {c} /\ step' = (IF plan' = {} THEN "assemble" ELSE step)

\* The part assemble copies next once it has written pos bytes: the sorted
\* parts, those that end before pos passed over.
NextParts(w, pos) ==
    LET usable == {s \in w : s[1] <= pos /\ pos < s[2]}
    IN {s \in usable : \A t \in usable : s[1] < t[1] \/ (s[1] = t[1] /\ s[2] >= t[2])}
\* The parts follow each other from byte 0 up to here.
Reach(w) == CHOOSE n \in 0 .. Size : NextParts(w, n) = {} /\ \A i \in 0 .. n - 1 : NextParts(w, i) # {}
\* Mutant: every part is copied from its own start.
JoinedWhole(w) ==
    [i \in 1 .. Reach(w) |->
        LET s == CHOOSE p \in NextParts(w, i - 1) : TRUE
            copied == {n \in 0 .. i - 1 : NextParts(w, n) = NextParts(w, i - 1)}
        IN parts[s][Cardinality(copied)]]
\* assemble: the parts as far as they follow each other, each from where the ones
\* before it end. The part being copied is the next one for each of its bytes.
Joined(w) ==
    [i \in 1 .. Reach(w) |->
        LET s == CHOOSE p \in NextParts(w, i - 1) : TRUE IN parts[s][i - s[1]]]

Assemble ==
    /\ step = "assemble" /\ target' = Joined(WholeParts(parts))
    /\ step' = (IF Len(target') = Size THEN "verify" ELSE "idle")
    /\ UNCHANGED <<parts, tmps, plan, whole, guestVars, worldVars>>

\* A server that answers a range with the whole file, or with one that starts
\* elsewhere: what the parts held from byte 0 is left to the stream.
NoRange ==
    /\ step = "ranges" /\ server # "honors"
    /\ target' = Joined(whole) /\ step' = "stream"
    /\ UNCHANGED <<parts, tmps, plan, whole, guestVars, worldVars>>

-----------------------------------------------------------------------------
(* A stream, the checksum and the unpacking *)

Unfetched == UNCHANGED <<parts, tmps, plan, whole, guestVars>>

\* The parts already held it all.
StreamWhole ==
    /\ step = "stream" /\ Len(target) = Size
    /\ step' = "verify" /\ UNCHANGED <<target, worldVars>> /\ Unfetched
\* NightlyLink.Fetch: from byte 0 on any server will do, from another one the
\* answer has to be a 206.
StreamAsked ==
    /\ step = "stream" /\ Len(target) < Size /\ (target = <<>> \/ server = "honors")
    /\ step' = "streaming" /\ UNCHANGED <<target, worldVars>> /\ Unfetched
StreamRefused ==
    /\ step = "stream" /\ Len(target) \in 1 .. Size - 1 /\ server = "ignores"
    /\ step' = "idle" /\ UNCHANGED <<target, worldVars>> /\ Unfetched
\* A 206 is taken for the range asked for, wherever it starts.
StreamMisplaced ==
    /\ step = "stream" /\ Len(target) \in 1 .. Size - 1 /\ server = "misplaces"
    /\ target' = target \o Bytes(0, Size) /\ spoiled' = TRUE
    /\ step' = "verify" /\ UNCHANGED <<server, faults, tears, serverChanges>> /\ Unfetched
StreamWrites ==
    /\ step = "streaming" /\ target' = Append(target, Len(target) + 1)
    /\ step' = (IF Len(target') = Size THEN "verify" ELSE step)
    /\ UNCHANGED worldVars /\ Unfetched

\* Mutant: the parts of a file that does not match its pin are kept.
VerifyKeepsParts ==
    /\ step = "verify" /\ UNCHANGED <<plan, whole, guestVars, worldVars>>
    /\ \/ target = Bytes(0, Size) /\ step' = "unpack" /\ UNCHANGED <<target, parts, tmps>>
       \/ target # Bytes(0, Size) /\ step' = "idle" /\ target' = <<>> /\ UNCHANGED <<parts, tmps>>
\* verify: whole or bad, the parts go; a bad file is emptied.
Verify ==
    /\ step = "verify" /\ parts' = NoParts /\ tmps' = NoParts
    /\ \/ target = Bytes(0, Size) /\ step' = "unpack" /\ UNCHANGED target
       \/ target # Bytes(0, Size) /\ step' = "idle" /\ target' = <<>>
    /\ UNCHANGED <<plan, whole, guestVars, worldVars>>

\* unpack: the files go to assets/<id>.tmp, which then replaces assets/<id>.
Unpack ==
    /\ step = "unpack" /\ assets' = TRUE /\ step' = "seed"
    /\ UNCHANGED <<fetchVars, image, installed, worldVars>>
\* An account's disk is kept; a first install copies the artifact's.
Seed ==
    /\ step = "seed" /\ image' = (IF image = "none" THEN "cut" ELSE image)
    /\ step' = (IF image = "none" THEN "seeding" ELSE "record")
    /\ UNCHANGED <<fetchVars, assets, installed, worldVars>>
Seeded ==
    /\ step = "seeding" /\ image' = "whole" /\ step' = "record"
    /\ UNCHANGED <<fetchVars, assets, installed, worldVars>>
\* installed.json; then the zip goes.
Record ==
    /\ step = "record" /\ installed' = TRUE /\ target' = <<>> /\ step' = "idle"
    /\ UNCHANGED <<parts, tmps, plan, whole, assets, image, worldVars>>

-----------------------------------------------------------------------------
(* What stops an install, and the server *)

\* An error, a cancel or the end of the process: the files stay as they are.
InstallDies ==
    /\ step # "idle" /\ faults < MaxFaults /\ faults' = faults + 1 /\ step' = "idle"
    /\ LET w == WholeParts(parts)
       IN target' \in IF step = "assemble" THEN {SubSeq(Joined(w), 1, n) : n \in 0 .. Reach(w)}
                      ELSE {target}
    /\ UNCHANGED <<parts, tmps, plan, whole, guestVars, server, spoiled, tears, serverChanges>>
\* What a power loss makes of a file: short of its last byte, or with a hole.
Torn(f) == {SubSeq(f, 1, Len(f) - 1), [f EXCEPT ![Len(f)] = 0]}
PowerLoss ==
    /\ tears < MaxTears /\ tears' = tears + 1 /\ spoiled' = TRUE /\ step' = "idle"
    /\ \/ target # <<>> /\ target' \in Torn(target) /\ UNCHANGED <<parts, tmps>>
       \/ \E s \in DOMAIN parts : /\ UNCHANGED <<target, tmps>>
                                   /\ \E f \in Torn(parts[s]) : parts' = [parts EXCEPT ![s] = f]
       \/ \E s \in DOMAIN tmps : /\ UNCHANGED <<target, parts>>
                                  /\ \E f \in Torn(tmps[s]) : tmps' = [tmps EXCEPT ![s] = f]
    /\ UNCHANGED <<plan, whole, guestVars, server, faults, serverChanges>>
ServerChanges ==
    /\ serverChanges < MaxServerChanges /\ serverChanges' = serverChanges + 1 /\ server' \in Servers \ {server}
    /\ UNCHANGED <<step, fetchVars, guestVars, spoiled, faults, tears>>

Installing ==
    \/ Begin \/ BeginWhole \/ Assemble \/ NoRange \/ (\E c \in plan : Write(c) \/ Finish(c))
    \/ StreamWhole \/ StreamAsked \/ StreamRefused \/ StreamMisplaced \/ StreamWrites
    \/ Verify \/ Unpack \/ Seed \/ Seeded \/ Record
InstallNext == Installing \/ InstallDies \/ PowerLoss \/ ServerChanges
\* An install that failed is started again.
InstallFairness == WF_installVars(Installing)
InstallSpec == InstallInit /\ [][InstallNext]_installVars /\ InstallFairness

-----------------------------------------------------------------------------
(* Properties *)

\* However a download was cut off, adopted by the other way of fetching or
\* fetched again in overlapping parts, what is put together is the artifact; the
\* checksum only ever refuses what a power loss or the server spoiled.
ResumesRight == step = "verify" /\ ~spoiled => target = Bytes(0, Size)

\* Started again often enough, an install ends, whatever is left on the disk
\* and whatever it held wrong, once the server honors ranges.
InstallEnds == <>[](server = "honors") => <>installed
=============================================================================
