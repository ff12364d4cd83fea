--------------------------- MODULE RangeTransfer ---------------------------
(***************************************************************************)
(* The transfer of one encrypted track (src/internal/media/transfer.go):   *)
(* requests that resume where the bytes held so far end, answers that must *)
(* belong to the object those bytes came from, and, for the transfer to    *)
(* disk, the checkpoint that outlives the process                          *)
(* (src/internal/media/resume.go).  The media server may change the object *)
(* behind a source between two requests, and a fallback to another codec   *)
(* uses the same checkpoint for another source.                            *)
(*                                                                         *)
(* A byte is modelled by the object it was read from.                      *)
(***************************************************************************)
EXTENDS Integers, Sequences, FiniteSets

CONSTANTS
    Objects,    \* the objects the server ever has
    SourceOf,   \* the URL path an object is at
    SizeOf,     \* its length
    ETagOf,     \* its entity tag; NoTag when it sends none
    ModifiedOf, \* its Last-Modified; NoTag when it sends none
    Weak,       \* the entity tags that are weak
    NoTag, NoObject,
    Modes,      \* "file" (downloadToFile), "memory" (the in-memory download)
    Resumes,    \* BOOLEAN: the in-memory download may reconnect
    Lax,        \* BOOLEAN: the server may ignore If-Range, for an object it names
    MaxMemory,  \* maxInMemoryMediaBytes
    MaxCalls,   \* bound: transfers begun
    MaxObjectChanges, \* bound: changes of an object
    MaxCrashes  \* bound: crashes

Sources == {SourceOf[o] : o \in Objects}
Tags == {ETagOf[o] : o \in Objects} \cup {ModifiedOf[o] : o \in Objects} \cup {NoTag}

ASSUME TransferBoundsAssumption ==
    /\ MaxMemory \in Nat /\ MaxCalls \in Nat /\ MaxObjectChanges \in Nat /\ MaxCrashes \in Nat
    /\ Lax \in BOOLEAN /\ Resumes \in BOOLEAN
    /\ Modes \subseteq {"file", "memory"}
\* Two objects of one source differ in every validator they both send, and no
\* entity tag reads as a date.
ASSUME ValidatorsAssumption ==
    /\ NoObject \notin Objects /\ \A o \in Objects : SizeOf[o] \in Nat \ {0}
    /\ \A o, p \in Objects :
         /\ o # p /\ SourceOf[o] = SourceOf[p] =>
              \A f \in {ETagOf, ModifiedOf} : f[o] = NoTag \/ f[o] # f[p]
         /\ ETagOf[o] = ModifiedOf[p] => ETagOf[o] = NoTag
\* A server that ignores If-Range sends, for two objects of one source that have
\* validators, one that both have: there is no other sign that they differ.
ASSUME LaxAssumption ==
    Lax => \A o, p \in Objects :
        /\ SourceOf[o] = SourceOf[p] /\ ETagOf[p] # NoTag
        /\ {ETagOf[o], ModifiedOf[o]} # {NoTag}
        => \E f \in {ETagOf, ModifiedOf} : NoTag \notin {f[o], f[p]}

\* The metadata of held bytes: the sidecar's contents, and the transfer's own.
Meta(src, etag, mod, total, complete) ==
    [src |-> src, etag |-> etag, mod |-> mod, total |-> total, complete |-> complete]
NoMeta == Meta(NoTag, NoTag, NoTag, 0, FALSE)
\* No checkpoint file.
NoFile == <<>>

VARIABLES
    current, \* the object at each source
    bytes,    \* the checkpoint's bytes; NoFile when it is empty or absent
    synced,  \* how many of them are on stable storage
    sidecar, \* its metadata file; NoMeta when absent
    stage, mode, src,
    buf,     \* the in-memory bytes
    held,    \* the sink's length
    meta,    \* rangeTransfer.meta
    answer,  \* the response being read
    begin,   \* the sink's length when its body began
    again,   \* restarted after a rejected answer; reconnected once
    calls, objectChanges, crashes

checkpoint == <<bytes, synced, sidecar>>
bounds == <<calls, objectChanges, crashes>>
transferVars == <<current, checkpoint, stage, mode, src, buf, held, meta, answer, begin, again, bounds>>

NoAnswer == [code |-> 0, obj |-> NoObject, start |-> 0, end |-> -1, total |-> 0]

TransferInit ==
    /\ current \in {c \in [Sources -> Objects] : \A s \in Sources : SourceOf[c[s]] = s}
    /\ bytes = NoFile /\ synced = 0 /\ sidecar = NoMeta
    /\ stage = "idle" /\ mode \in Modes /\ src \in Sources
    /\ buf = <<>> /\ held = 0 /\ meta = NoMeta /\ answer = NoAnswer /\ begin = 0
    /\ again = FALSE /\ calls = 0 /\ objectChanges = 0 /\ crashes = 0

-----------------------------------------------------------------------------
\* The server.

ObjectChanges(o) ==
    /\ objectChanges < MaxObjectChanges /\ objectChanges' = objectChanges + 1
    /\ current[SourceOf[o]] # o
    /\ current' = [current EXCEPT ![SourceOf[o]] = o]
    /\ UNCHANGED <<checkpoint, stage, mode, src, buf, held, meta, answer, begin, again,
                   calls, crashes>>

\* resumeValidator: a strong entity tag, else the modification time.
Validator(m) == IF m.etag # NoTag /\ m.etag \notin Weak THEN m.etag ELSE m.mod

\* If-Range holds for the current object, or the server does not look.
RangeHolds(o) ==
    \/ Validator(meta) \in {NoTag, ETagOf[o], ModifiedOf[o]}
    \/ Lax /\ ETagOf[o] # NoTag

Full(o) == {[code |-> 200, obj |-> o, start |-> 0, end |-> SizeOf[o] - 1, total |-> t]
              : t \in {0, SizeOf[o]}}
Part(o, from) == {[code |-> 206, obj |-> o, start |-> from, end |-> e, total |-> SizeOf[o]]
                    : e \in from .. SizeOf[o] - 1}
Unsatisfied(o) == {[code |-> 416, obj |-> o, start |-> 0, end |-> -1, total |-> SizeOf[o]]}

\* What the server may answer to a request from byte n on.
Answers(o, n) ==
    Full(o) \cup (IF n = 0 THEN Part(o, 0)
                  ELSE IF ~RangeHolds(o) THEN {}
                  ELSE IF n < SizeOf[o] THEN Part(o, n) ELSE Unsatisfied(o))

-----------------------------------------------------------------------------
\* The transfer.

Call(m, s) ==
    /\ stage \in {"idle", "returned"} /\ calls < MaxCalls /\ calls' = calls + 1
    /\ mode' = m /\ src' = s
    /\ stage' = IF m = "file" THEN "load" ELSE "request"
    /\ buf' = <<>> /\ held' = 0 /\ meta' = NoMeta /\ answer' = NoAnswer
    /\ begin' = 0 /\ again' = FALSE
    /\ UNCHANGED <<current, checkpoint, objectChanges, crashes>>

\* loadResumeCheckpoint: the checkpoint is of this source, its object can be
\* recognised, and its length says nothing about an end that was not marked.
Usable ==
    /\ bytes # NoFile /\ sidecar # NoMeta /\ sidecar.src = src
    /\ Validator(sidecar) # NoTag
    /\ sidecar.total > 0 =>
         /\ Len(bytes) <= sidecar.total
         /\ Len(bytes) = sidecar.total => sidecar.complete

Load ==
    /\ stage = "load"
    /\ IF Usable
       THEN stage' = "request" /\ held' = Len(bytes) /\ meta' = sidecar
       ELSE stage' = "clean" /\ UNCHANGED <<held, meta>>
    /\ UNCHANGED <<current, checkpoint, mode, src, buf, answer, begin, again, bounds>>

\* cleanupResumableDownload: the media file first, then its metadata.
RemoveFile ==
    /\ stage = "clean" /\ stage' = "cleanMeta"
    /\ bytes' = NoFile /\ synced' = 0
    /\ UNCHANGED <<current, sidecar, mode, src, buf, held, meta, answer, begin,
                   again, bounds>>

RemoveSidecar ==
    /\ stage = "cleanMeta" /\ stage' = "request"
    /\ sidecar' = NoMeta /\ held' = 0 /\ meta' = NoMeta
    /\ UNCHANGED <<current, bytes, synced, mode, src, buf, answer, begin, again, bounds>>

\* resumeObjectChanged.
Changed(o) ==
    \/ NoTag \notin {meta.etag, ETagOf[o]} /\ meta.etag # ETagOf[o]
    \/ NoTag \notin {meta.mod, ModifiedOf[o]} /\ meta.mod # ModifiedOf[o]

\* Mutant: an answer from the right offset extends whatever is held.
ExtendsFromOffset(r) == r.start = held /\ (meta.total > 0 => meta.total = r.total)

\* A partial answer extends the bytes held.
Extends(r) ==
    /\ r.start = held /\ (meta.total > 0 => meta.total = r.total)
    /\ ~Changed(r.obj)

\* The bytes held are all there is.
Completes(r) ==
    /\ r.total = held /\ (meta.total > 0 => meta.total = r.total)
    /\ mode = "file" => meta.complete
    /\ ~Changed(r.obj)

FirstTag(a, b) == IF a # NoTag THEN a ELSE b

\* A full answer to a range request replaces what is held.
PrefixOf(r) == IF r.code = 200 THEN 0 ELSE held

\* An accepted answer, its metadata and its body.
Accept(r) ==
    LET old == IF r.code = 200 THEN NoMeta ELSE meta
    IN  /\ held' = PrefixOf(r) /\ begin' = PrefixOf(r)
        /\ buf' = IF mode = "memory" THEN SubSeq(buf, 1, PrefixOf(r)) ELSE buf
        /\ meta' = Meta(src, FirstTag(ETagOf[r.obj], old.etag),
                        FirstTag(ModifiedOf[r.obj], old.mod), r.total, FALSE)
        /\ answer' = r
        /\ IF mode = "memory" /\ r.total > MaxMemory THEN stage' = "idle"
           ELSE stage' = IF mode = "file" THEN "open" ELSE "body"
        /\ UNCHANGED again

\* A rejected one: the checkpoint is discarded and the transfer starts over,
\* once; in memory it fails.
Reject ==
    /\ stage' = IF mode = "file" /\ ~again THEN "clean" ELSE "idle"
    /\ again' = TRUE
    /\ UNCHANGED <<held, begin, buf, meta, answer>>

\* attempt, up to the response's headers.
Request ==
    /\ stage = "request"
    /\ \E r \in Answers(current[src], held) :
         \/ r.code = 200 /\ Accept(r)
         \/ r.code = 206 /\ Extends(r) /\ Accept(r)
         \/ /\ r.code = 416 /\ Completes(r)
            /\ meta' = [meta EXCEPT !.total = r.total]
            /\ stage' = IF mode = "file" THEN "close" ELSE "returned"
            /\ UNCHANGED <<held, begin, buf, answer, again>>
         \/ r.code = 206 /\ ~Extends(r) /\ Reject
         \/ r.code = 416 /\ ~Completes(r) /\ Reject
    /\ UNCHANGED <<current, checkpoint, mode, src, bounds>>

\* The connection or the server fails before there is a body.
RequestFails ==
    /\ stage = "request" /\ stage' = "idle"
    /\ UNCHANGED <<current, checkpoint, mode, src, buf, held, meta, answer, begin, again, bounds>>

\* fileSink.open: appending to the bytes held, or emptying the file.
OpenObject ==
    /\ stage = "open" /\ stage' = "sidecar"
    /\ IF held = 0 THEN bytes' = NoFile /\ synced' = 0 ELSE UNCHANGED <<bytes, synced>>
    /\ UNCHANGED <<current, sidecar, mode, src, buf, held, meta, answer, begin, again, bounds>>

\* beforeBody: the metadata of the bytes to come replaces the old one.
WriteSidecar ==
    /\ stage = "sidecar" /\ stage' = "body"
    /\ sidecar' = meta
    /\ UNCHANGED <<current, bytes, synced, mode, src, buf, held, meta, answer, begin, again, bounds>>

Position == answer.start + held - begin

\* memorySink refuses to grow past its limit.
MemoryFull == mode = "memory" /\ Len(buf) >= MaxMemory

Byte ==
    /\ stage = "body" /\ Position <= answer.end
    /\ IF MemoryFull
       THEN stage' = "idle" /\ UNCHANGED <<bytes, buf, held>>
       ELSE /\ held' = held + 1 /\ UNCHANGED stage
            /\ IF mode = "file"
               THEN bytes' = Append(bytes, answer.obj) /\ UNCHANGED buf
               ELSE buf' = Append(buf, answer.obj) /\ UNCHANGED bytes
    /\ UNCHANGED <<current, synced, sidecar, mode, src, meta, answer, begin, again, bounds>>

\* The body broke off or was a part only: the file is synced and left for the
\* next call; in memory one reconnect may go on from the bytes held.
Broken ==
    IF mode = "memory" /\ Resumes /\ ~again /\ held > 0 /\ Validator(meta) # NoTag
    THEN stage' = "request" /\ again' = TRUE /\ UNCHANGED synced
    ELSE /\ stage' = "idle" /\ UNCHANGED again
         /\ synced' = IF mode = "file" THEN Len(bytes) ELSE synced

\* A read error, or no byte for longer than the stall timeout.
BodyBreaks ==
    /\ stage = "body" /\ Broken
    /\ UNCHANGED <<current, bytes, sidecar, mode, src, buf, held, meta, answer, begin, bounds>>

\* The body's end, and whether all of the object is there.
BodyEnds ==
    /\ stage = "body" /\ Position > answer.end
    /\ IF meta.total > 0 /\ held # meta.total
       THEN Broken
       ELSE stage' = (IF mode = "file" THEN "close" ELSE "returned") /\ UNCHANGED <<synced, again>>
    /\ UNCHANGED <<current, bytes, sidecar, mode, src, buf, held, meta, answer, begin, bounds>>

Close ==
    /\ stage = "close" /\ stage' = "mark"
    /\ synced' = Len(bytes)
    /\ UNCHANGED <<current, bytes, sidecar, mode, src, buf, held, meta, answer, begin, again, bounds>>

\* The complete marker, once the file is synced.
MarkComplete ==
    /\ stage = "mark" /\ stage' = "returned"
    /\ sidecar' = [meta EXCEPT !.complete = TRUE,
                               !.total = IF @ > 0 THEN @ ELSE held]
    /\ UNCHANGED <<current, bytes, synced, mode, src, buf, held, meta, answer, begin, again, bounds>>

\* The caller is done with the encrypted file and cleans the checkpoint up.
Consume ==
    /\ stage = "returned" /\ mode = "file" /\ stage' = "drop"
    /\ bytes' = NoFile /\ synced' = 0
    /\ UNCHANGED <<current, sidecar, mode, src, buf, held, meta, answer, begin, again, bounds>>

ConsumeSidecar ==
    /\ stage = "drop" /\ stage' = "idle"
    /\ sidecar' = NoMeta
    /\ UNCHANGED <<current, bytes, synced, mode, src, buf, held, meta, answer, begin, again, bounds>>

\* What is left of the file: everything written or, if the power failed, what
\* was synced and any part of the rest, without holes. A rename before a sync
\* survives with it, as in a journal.
Survivors == {SubSeq(bytes, 1, n) : n \in synced .. Len(bytes)}

\* The process ends at any step, and what it held in memory with it.
Crash ==
    /\ crashes < MaxCrashes /\ crashes' = crashes + 1
    /\ stage # "idle" /\ stage' = "idle"
    /\ bytes' \in Survivors
    /\ buf' = <<>> /\ held' = 0 /\ meta' = NoMeta /\ answer' = NoAnswer
    /\ begin' = 0 /\ again' = FALSE
    /\ UNCHANGED <<current, synced, sidecar, mode, src, calls, objectChanges>>

-----------------------------------------------------------------------------
TransferNext ==
    \/ \E o \in Objects : ObjectChanges(o)
    \/ \E m \in Modes, s \in Sources : Call(m, s)
    \/ Load \/ RemoveFile \/ RemoveSidecar
    \/ Request \/ RequestFails \/ OpenObject \/ WriteSidecar
    \/ Byte \/ BodyBreaks \/ BodyEnds \/ Close \/ MarkComplete
    \/ Consume \/ ConsumeSidecar \/ Crash

TransferSpec == TransferInit /\ [][TransferNext]_transferVars

-----------------------------------------------------------------------------
Metas == [src : Sources \cup {NoTag}, etag : Tags, mod : Tags, total : Nat, complete : BOOLEAN]

\* Every variable has its type.
TransferTypeOK ==
    /\ current \in [Sources -> Objects] /\ \A s \in Sources : SourceOf[current[s]] = s
    /\ bytes \in Seq(Objects) /\ synced \in 0 .. Len(bytes)
    /\ sidecar \in Metas /\ meta \in Metas
    /\ stage \in {"idle", "load", "clean", "cleanMeta", "request", "open", "sidecar",
               "body", "close", "mark", "returned", "drop"}
    /\ mode \in Modes /\ src \in Sources
    /\ buf \in Seq(Objects) /\ held \in Nat /\ begin \in Nat /\ again \in BOOLEAN
    /\ mode = "file" /\ stage \in {"body", "close", "mark", "returned"} => held = Len(bytes)

Whole(o) == [i \in 1 .. SizeOf[o] |-> o]

\* What a transfer returns is one object of its source from its first byte to
\* its last: whatever the object, the source, the answers and the process did
\* between the requests, bytes of two objects are never mixed.
WholeObject ==
    stage = "returned" =>
      (IF mode = "file" THEN bytes ELSE buf) \in {Whole(o) : o \in {p \in Objects : SourceOf[p] = src}}

=============================================================================
