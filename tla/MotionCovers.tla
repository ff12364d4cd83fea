----------------------------- MODULE MotionCovers -----------------------------
(* The players of motion covers (desktop/internal/motion/cache.go, decoder.go): *)
(* views ask for one every frame they show a cover, goroutines fetch its        *)
(* rendition and start an ffmpeg, and the UI thread takes or stops what they    *)
(* deliver. Two covers may be of one rendition. Time is counted in idleCloses.  *)
EXTENDS Integers, FiniteSets, Sequences

CONSTANTS
    Covers,         \* key: a master playlist at one bucketed size
    Rendition,      \* what Pick chooses for a cover
    Decoders,       \* the paths SetFFmpeg may be given; NoDecoder turns covers off
    NoDecoder,
    MaxPlayers,     \* maxPlayers
    OpenSlots,      \* the capacity of slots
    RetryAfter,     \* retryAfter
    DirLimit,       \* dirLimit, in renditions
    Showings        \* bounds: opens, changes of the ffmpeg, the clock, and whether
                    \* anything is left to trim

ASSUME CoversAssumption ==
    /\ IsFiniteSet(Covers) /\ {MaxPlayers, OpenSlots, RetryAfter, DirLimit} \subseteq Nat
    /\ \A s \in Showings : {s.opens, s.switches, s.clock} \subseteq Nat
    /\ NoDecoder \notin Decoders

VARIABLES
    showing,        \* which of Showings this is
    decoder,        \* Cache.ffmpeg
    entries,        \* Cache.entries
    sweepAt,        \* when the sweep comes back by itself; 0 while sweepAt is false
    clock,
    opens,          \* the goroutines of Get, by number, from the first to the last
    running,        \* the ffmpeg processes: the opens that started one
    switches,       \* how often SetFFmpeg changed it
    files, parts,   \* the directory: renditions, those of Before played by an earlier
                    \* process only, and .part files, by their open (0: of that process)
    trimming        \* trimDir: what it read, "before" it does and once "done"

coverVars == <<showing, decoder, entries, sweepAt, clock, opens, running, switches,
               files, parts, trimming>>

NoEntry == [id |-> 0, player |-> 0, loading |-> FALSE, failedAt |-> 0, used |-> 0]
Renditions == {Rendition[k] : k \in Covers}
Absent == 0
Before == 1
Now == 2

CoversInit ==
    /\ decoder = NoDecoder /\ entries = [k \in Covers |-> NoEntry] /\ sweepAt = 0
    /\ clock = 1 /\ opens = <<>> /\ running = {} /\ switches = 0
    /\ showing \in Showings
    /\ files \in [Renditions -> IF showing.trims THEN {Absent, Before} ELSE {Now}]
    /\ parts = IF showing.trims THEN {0} ELSE {}
    /\ trimming = [at |-> IF showing.trims THEN "before" ELSE "done", parts |-> {}, over |-> {}]

CoversTypeOK ==
    /\ decoder \in Decoders \union {NoDecoder}
    /\ \A k \in Covers :
        /\ entries[k].player \in 0..Len(opens) /\ entries[k].id \in 0..Len(opens)
        /\ entries[k].used \in 0..clock /\ entries[k].failedAt \in 0..clock
    /\ running \subseteq DOMAIN opens /\ parts \subseteq 0..Len(opens)

-----------------------------------------------------------------------------
Holds(es) == {k \in Covers : es[k].id # 0}
LongUnasked(es) == {k \in Holds(es) : ~es[k].loading /\ clock - es[k].used > 1}
Live(es) == {k \in Holds(es) : ~es[k].loading /\ es[k].player # 0} \ LongUnasked(es)

\* The least recently asked for beyond maxPlayers, one of several as old.
Over(es) ==
    {S \in SUBSET Live(es) :
        /\ Cardinality(Live(es) \ S) <= MaxPlayers
        /\ S # {} => Cardinality(Live(es) \ S) = MaxPlayers
        /\ \A s \in S, l \in Live(es) \ S : es[s].used <= es[l].used}

Without(es, gone) == [k \in Covers |-> IF k \in gone THEN NoEntry ELSE es[k]]
PlayersOf(es, ks) == {es[k].player : k \in ks} \ {0}

\* sweep over es: what it can leave and stop, and the timer it may set.
Sweeps(es) ==
    {[left |-> Without(es, LongUnasked(es) \union over),
      stopped |-> PlayersOf(es, LongUnasked(es) \union over)] : over \in Over(es)}
Timer(es, timer) == IF Live(es) # {} /\ timer = 0 THEN clock + 1 ELSE timer

\* Get: the sweep, the entry, and its goroutine when there is neither a player,
\* nor one being opened, nor a failure of late.
Get(k) ==
    /\ decoder # NoDecoder
    /\ sweepAt' = Timer(entries, sweepAt)
    /\ \E sweep \in Sweeps(entries) :
        /\ running' = running \ sweep.stopped
        /\ LET left == sweep.left
               e == IF left[k].id = 0 THEN [NoEntry EXCEPT !.id = Len(opens) + 1] ELSE left[k]
               waits == e.failedAt # 0 /\ clock - e.failedAt < RetryAfter
               starts == e.player = 0 /\ ~e.loading /\ ~waits
           IN /\ starts => Len(opens) < showing.opens
              /\ entries' = [left EXCEPT ![k] = [e EXCEPT !.used = clock, !.loading = @ \/ starts]]
              /\ opens' = IF starts
                          THEN Append(opens, [key |-> k, entry |-> e.id, ffmpeg |-> decoder, at |-> "queued"])
                          ELSE opens
    /\ UNCHANGED <<showing, decoder, clock, switches, files, parts, trimming>>

\* SetFFmpeg: every entry goes, and its player with it.
SetFFmpeg(path) ==
    /\ path # decoder /\ switches < showing.switches
    /\ decoder' = path /\ switches' = switches + 1
    /\ running' = running \ PlayersOf(entries, Covers)
    /\ entries' = [k \in Covers |-> NoEntry]
    /\ UNCHANGED <<showing, sweepAt, clock, opens, files, parts, trimming>>

-----------------------------------------------------------------------------
\* The goroutine of an open: a slot, then open.
Step(o, at) == opens' = [opens EXCEPT ![o].at = at]
TakesSlot(o) ==
    /\ opens[o].at = "queued"
    /\ Cardinality({p \in DOMAIN opens : opens[p].at \in {"slot", "fetching", "file"}}) < OpenSlots
    /\ Step(o, "slot")
    /\ UNCHANGED <<showing, decoder, entries, sweepAt, clock, running, switches, files, parts, trimming>>

Played(o) == Rendition[opens[o].key]

\* file: what is cached, or a part to fetch it into.
FindsFile(o) ==
    /\ opens[o].at = "slot"
    /\ IF files[Played(o)] # Absent
       THEN /\ Step(o, "file") /\ files' = [files EXCEPT ![Played(o)] = Now]
            /\ UNCHANGED parts
       ELSE /\ Step(o, "fetching") /\ parts' = parts \union {o}
            /\ UNCHANGED files
    /\ UNCHANGED <<showing, decoder, entries, sweepAt, clock, running, switches, trimming>>

\* The part renamed, which it can be while it is there.
\* Mutant: what was fetched is left where it is when the rename fails.
LeavesPart(o) ==
    /\ opens[o].at = "fetching"
    /\ \/ /\ o \in parts /\ Step(o, "file") /\ parts' = parts \ {o}
          /\ files' = [files EXCEPT ![Played(o)] = Now]
       \/ Step(o, "failed") /\ UNCHANGED <<showing, parts, files>>
    /\ UNCHANGED <<showing, decoder, entries, sweepAt, clock, running, switches, trimming>>
Fetched(o) ==
    /\ opens[o].at = "fetching"
    /\ \/ /\ o \in parts /\ Step(o, "file")
          /\ files' = [files EXCEPT ![Played(o)] = Now]
       \/ Step(o, "failed") /\ UNCHANGED files
    /\ parts' = parts \ {o}
    /\ UNCHANGED <<showing, decoder, entries, sweepAt, clock, running, switches, trimming>>

\* newDecoder: ffmpeg, or an error; a file trimmed meanwhile is one.
Starts(o) ==
    /\ opens[o].at = "file"
    /\ \/ files[Played(o)] # Absent /\ Step(o, "opened") /\ running' = running \union {o}
       \/ Step(o, "failed") /\ UNCHANGED running
    /\ UNCHANGED <<showing, decoder, entries, sweepAt, clock, switches, files, parts, trimming>>

\* Mutant: whatever entry the cover has takes it.
TakenByAny(o) == entries[opens[o].key].id # 0
\* What an open posts, on the UI thread: the entry e it was started for may have
\* been dropped, and another made for its cover.
Wanted(o) == entries[opens[o].key].id = opens[o].entry
Failed(o) ==
    /\ opens[o].at = "failed" /\ Step(o, "gone")
    /\ entries' = IF Wanted(o)
                  THEN [entries EXCEPT ![opens[o].key] = [@ EXCEPT !.loading = FALSE, !.failedAt = clock]]
                  ELSE entries
    /\ UNCHANGED <<showing, decoder, sweepAt, clock, running, switches, files, parts, trimming>>
\* Mutant: a player dropped while it opened is not closed.
ForgetsDropped(o) ==
    /\ opens[o].at = "opened" /\ ~Wanted(o) /\ Step(o, "gone")
    /\ UNCHANGED <<showing, decoder, entries, sweepAt, clock, running, switches, files, parts, trimming>>
Dropped(o) ==
    /\ opens[o].at = "opened" /\ ~Wanted(o) /\ Step(o, "gone")
    /\ running' = running \ {o}
    /\ UNCHANGED <<showing, decoder, entries, sweepAt, clock, switches, files, parts, trimming>>
\* Mutant: no sweep once a player is taken.
KeepsAll(o) ==
    /\ opens[o].at = "opened" /\ Wanted(o) /\ Step(o, "gone")
    /\ entries' = [entries EXCEPT ![opens[o].key] = [@ EXCEPT !.loading = FALSE, !.player = o]]
    /\ UNCHANGED <<showing, decoder, sweepAt, clock, running, switches, files, parts, trimming>>
Delivered(o) ==
    /\ opens[o].at = "opened" /\ Wanted(o) /\ Step(o, "gone")
    /\ LET taken == [entries EXCEPT ![opens[o].key] = [@ EXCEPT !.loading = FALSE, !.player = o]]
       IN /\ sweepAt' = Timer(taken, sweepAt)
          /\ \E sweep \in Sweeps(taken) :
              entries' = sweep.left /\ running' = running \ sweep.stopped
    /\ UNCHANGED <<showing, decoder, clock, switches, files, parts, trimming>>

-----------------------------------------------------------------------------
\* The timer's sweep, which sets the next one while players run.
SweepsAgain ==
    /\ sweepAt # 0 /\ clock >= sweepAt
    /\ sweepAt' = Timer(entries, 0)
    /\ \E sweep \in Sweeps(entries) :
        entries' = sweep.left /\ running' = running \ sweep.stopped
    /\ UNCHANGED <<showing, decoder, clock, opens, switches, files, parts, trimming>>

TimePasses ==
    /\ clock < showing.clock /\ clock' = clock + 1
    /\ UNCHANGED <<showing, decoder, entries, sweepAt, opens, running, switches, files, parts, trimming>>

\* trimDir, beside the first fetches: what it read goes when it gets there.
Cached == {r \in Renditions : files[r] # Absent}
TrimReads ==
    /\ trimming.at = "before"
    /\ \E over \in SUBSET Cached :
        /\ Cardinality(over) = IF Cardinality(Cached) > DirLimit THEN Cardinality(Cached) - DirLimit ELSE 0
        /\ \A r \in over, s \in Cached \ over : files[r] <= files[s]
        /\ trimming' = [at |-> "read", parts |-> parts, over |-> over]
    /\ UNCHANGED <<showing, decoder, entries, sweepAt, clock, opens, running, switches, files, parts>>
TrimDeletes ==
    /\ trimming.at = "read" /\ trimming' = [trimming EXCEPT !.at = "done"]
    /\ parts' = parts \ trimming.parts
    /\ files' = [r \in Renditions |-> IF r \in trimming.over THEN Absent ELSE files[r]]
    /\ UNCHANGED <<showing, decoder, entries, sweepAt, clock, opens, running, switches>>

OpenStep(o) ==
    \/ TakesSlot(o) \/ FindsFile(o) \/ Fetched(o) \/ Starts(o)
    \/ Failed(o) \/ Dropped(o) \/ Delivered(o)
CoversNext ==
    \/ \E k \in Covers : Get(k)
    \/ \E path \in Decoders \union {NoDecoder} : SetFFmpeg(path)
    \/ \E o \in DOMAIN opens : OpenStep(o)
    \/ SweepsAgain \/ TimePasses \/ TrimReads \/ TrimDeletes
CoversSpec == CoversInit /\ [][CoversNext]_coverVars

-----------------------------------------------------------------------------
\* Every ffmpeg that runs is the player of an entry, or on its way to the UI
\* thread: dropping an entry, another ffmpeg and a late open leave none behind.
NoneOrphaned ==
    running = PlayersOf(entries, Covers) \union {o \in DOMAIN opens : opens[o].at = "opened"}

\* What plays is the newest open of its cover, with the ffmpeg now set, and no
\* more than maxPlayers do.
PlayersCurrent ==
    /\ Cardinality(PlayersOf(entries, Covers)) <= MaxPlayers
    /\ \A k \in Covers : entries[k].player # 0 =>
        opens[entries[k].player].key = k /\ opens[entries[k].player].ffmpeg = decoder

\* While a player runs a sweep is due: a window that stops drawing stops its
\* ffmpegs. Nothing is kept that nobody asked for since the last two.
SweepIsDue ==
    PlayersOf(entries, Covers) # {} =>
        sweepAt # 0 /\ \A k \in Covers : entries[k].player # 0 => sweepAt <= entries[k].used + 2

\* A part is of a fetch under way, once what an earlier process left is trimmed.
PartsAreFetches ==
    \A p \in parts : IF p = 0 THEN trimming.at # "done" ELSE opens[p].at = "fetching"

PlayersHold == NoneOrphaned /\ PlayersCurrent /\ SweepIsDue /\ PartsAreFetches
=============================================================================
