------------------------------- MODULE ItemMeter -------------------------------
(* What one track tells of its progress (media/track.go, item_events.go,         *)
(* item_progress.go, progress_gate.go): the statuses and stages it passes, its   *)
(* two meters, the gate that spaces meter events, the events that carry a full   *)
(* snapshot, and the writes that end it. The reader keeps the last snapshot it   *)
(* was sent. Meters are counted in half percents.                                *)
EXTENDS Integers, FiniteSets

CONSTANTS
    FullMeter,           \* a full meter, in half percents
    EventInterval,  \* download.progress_event_interval_ms
    Codecs,         \* codecs tried at most
    MaxMeterTime, MaxFetches    \* bounds: the clock, retries of a codec's phases

ASSUME MeterAssumption == {FullMeter, EventInterval, Codecs, MaxMeterTime, MaxFetches} \subseteq Nat

VARIABLES
    item,       \* the item as the run has it
    lastTold,   \* lastStatus and lastProgress: what the last publish told
    heldBack,       \* progressGate.held
    lastEmit,   \* progressGate.lastEmit; -1 is never
    time,
    row,        \* the item in the store
    reader,     \* the client's item, from the events alone
    moves,      \* history: when the last two meter-only events went out
    codec, fetches,
    step,       \* "goes", or what it does next: "selects", "waits", "falls back"
    run         \* "on", how it ended, or "lost" when its last write failed twice

meterVars == <<item, lastTold, heldBack, lastEmit, time, row, reader, moves, codec, fetches, run, step>>

Stages == {"resolved", "remuxed", "verified", "tagged", "saved"}
NewItem == [status |-> "queued", download |-> 0, decrypt |-> 0, stages |-> {}]
Endings == {"completed", "skipped", "failed", "cancelled"}
Percent(meter) == (meter + 1) \div 2

MeterInit ==
    /\ item = NewItem /\ row = NewItem /\ reader = NewItem
    /\ lastTold = [NewItem EXCEPT !.status = "", !.download = -2, !.decrypt = -2]
    /\ heldBack = FALSE /\ lastEmit = -1 /\ time = 0 /\ moves = <<-2 * EventInterval, -EventInterval>>
    /\ codec = 1 /\ fetches = 0 /\ run = "on" /\ step = "goes"

MeterTypeOK ==
    /\ item.download \in 0..FullMeter /\ item.decrypt \in 0..FullMeter /\ item.stages \subseteq Stages
    /\ heldBack \in BOOLEAN /\ lastEmit \in -1..MaxMeterTime /\ run \in {"on", "lost", "shutdown"} \union Endings

-----------------------------------------------------------------------------
StagesChanged(new) == lastTold.stages # new.stages
MetersChanged(new) == \/ Percent(lastTold.download) # Percent(new.download)
                      \/ Percent(lastTold.decrypt) # Percent(new.decrypt)
Allows == lastEmit = -1 \/ time - lastEmit >= EventInterval

\* publish: the row and the event carry the same snapshot.
PublishItem(new) ==
    /\ lastTold' = new /\ lastEmit' = time /\ heldBack' = FALSE
    /\ row' = new /\ reader' = new

\* Mutant: a held value is forgotten unless the meter moves again.
SetAndForget(new) ==
    /\ item' = new
    /\ \/ /\ new.status # lastTold.status \/ StagesChanged(new)
          /\ PublishItem(new) /\ UNCHANGED moves
       \/ /\ new.status = lastTold.status /\ ~StagesChanged(new)
          /\ IF MetersChanged(new) /\ Allows
             THEN PublishItem(new) /\ moves' = <<moves[2], time>>
             ELSE UNCHANGED <<lastTold, lastEmit, row, reader, heldBack, moves>>
\* stageSetter: a status or a stage goes out at once, a meter when the gate
\* allows it, and is held otherwise.
Set(new) ==
    /\ item' = new
    /\ \/ /\ new.status # lastTold.status \/ StagesChanged(new)
          /\ PublishItem(new) /\ UNCHANGED moves
       \/ /\ new.status = lastTold.status /\ ~StagesChanged(new)
          /\ IF MetersChanged(new) /\ Allows
             THEN PublishItem(new) /\ moves' = <<moves[2], time>>
             ELSE /\ heldBack' = (heldBack \/ MetersChanged(new))
                  /\ UNCHANGED <<lastTold, lastEmit, row, reader, moves>>

\* progressGate.Event: what is held goes out ahead of an event that is no
\* meter's. Either carries the item; the reader takes it from both.
EventGoes(new) ==
    IF heldBack THEN PublishItem(new)
    ELSE row' = new /\ reader' = new /\ UNCHANGED <<lastTold, lastEmit, heldBack>>

\* persistTerminal: the row and then its event, each tried again detached when
\* the context is done or the first try failed; both tries may fail.
EndsItem(new, oldRow, oldReader) ==
    /\ item' = new /\ row' \in {oldRow, new} /\ reader' \in {oldReader, new}
    /\ run' = IF row' = new /\ reader' = new THEN new.status ELSE "lost"
    /\ heldBack' = FALSE
    /\ UNCHANGED <<time, moves, codec, fetches, step>>

-----------------------------------------------------------------------------
AtStatus(status) == run = "on" /\ step = "goes" /\ item.status = status
Sets(new) == Set(new) /\ UNCHANGED <<time, codec, fetches, run, step>>
Resolved == "resolved" \in item.stages

\* resolveMetadata: the flag has no event of its own, the next publish has it.
Resolves ==
    \/ AtStatus("queued") /\ Sets([item EXCEPT !.status = "resolving"])
    \/ /\ AtStatus("resolving") /\ ~Resolved
       /\ item' = [item EXCEPT !.stages = @ \union {"resolved"}] /\ row' = item'
       /\ step' = "selects"
       /\ UNCHANGED <<lastTold, heldBack, lastEmit, reader, moves, time, codec, fetches, run>>
\* fetch: the stream is selected, a slot taken, and the transfer's meter starts
\* again, at a retry too.
Selects ==
    /\ run = "on" /\ step = "selects" /\ step' = "goes"
    /\ Set([item EXCEPT !.status = "resolving"]) /\ UNCHANGED <<time, codec, fetches, run>>
WaitsForSlot ==
    AtStatus("resolving") /\ Resolved /\ Sets([item EXCEPT !.status = "waiting_download"])
StartsDownload ==
    AtStatus("waiting_download") /\ Sets([item EXCEPT !.status = "downloading", !.download = 0])
DownloadProgress ==
    /\ AtStatus("downloading")
    /\ \E m \in item.download + 1..FullMeter : Sets([item EXCEPT !.download = m])
WaitsForKey == AtStatus("downloading") /\ Sets([item EXCEPT !.status = "waiting_decrypt"])
StartsDecrypt ==
    /\ AtStatus("waiting_decrypt")
    /\ Sets([item EXCEPT !.status = "decrypting", !.download = FullMeter, !.decrypt = 0])
DecryptProgress ==
    /\ AtStatus("decrypting")
    /\ \E m \in item.decrypt + 1..FullMeter : Sets([item EXCEPT !.decrypt = m])
Remuxes == AtStatus("decrypting") /\ Sets([item EXCEPT !.status = "remuxing", !.decrypt = FullMeter])

\* finalizeTrackOutput: each stage is marked where it is done; verifying is
\* optional.
Marks(stage) == stage \notin item.stages /\ Sets([item EXCEPT !.stages = @ \union {stage}])
Finalizes ==
    \/ AtStatus("remuxing") /\ Marks("remuxed")
    \/ AtStatus("remuxing") /\ "remuxed" \in item.stages /\ Sets([item EXCEPT !.status = "saving"])
    \/ AtStatus("saving") /\ Marks("verified")
    \/ AtStatus("saving") /\ Sets([item EXCEPT !.status = "tagging"])
    \/ AtStatus("tagging") /\ Marks("tagged")

\* A transfer or a decryption fails and is tried again after its retry event;
\* or the codec fails with its event, and the next, whose event says so, starts
\* with what it has yet to earn cleared.
Again(next) ==
    /\ fetches < MaxFetches /\ fetches' = fetches + 1 /\ step' = next
    /\ EventGoes(item) /\ UNCHANGED <<item, moves, time, codec, run>>
RetryEvent ==
    \/ AtStatus("downloading") /\ Again("selects")
    \/ /\ run = "on" /\ step = "goes"
       /\ item.status \in {"waiting_decrypt", "decrypting", "remuxing", "saving", "tagging"}
       /\ Again("waits")
DecryptsAgain ==
    /\ run = "on" /\ step = "waits" /\ step' = "goes"
    /\ Set([item EXCEPT !.status = "waiting_decrypt"]) /\ UNCHANGED <<time, codec, fetches, run>>
CodecFailed ==
    /\ run = "on" /\ step = "goes" /\ Resolved /\ codec < Codecs
    /\ codec' = codec + 1 /\ fetches' = 0 /\ step' = "falls back"
    /\ EventGoes(item) /\ UNCHANGED <<item, moves, time, run>>
CodecFallback ==
    /\ run = "on" /\ step = "falls back" /\ step' = "selects"
    /\ item' = [item EXCEPT !.download = 0, !.decrypt = 0, !.stages = {"resolved"}]
    /\ row' = item' /\ reader' = item'
    /\ UNCHANGED <<lastTold, heldBack, lastEmit, moves, time, codec, fetches, run>>

Ended(status) == [item EXCEPT !.status = status]
ItemCompletes ==
    /\ AtStatus("tagging") /\ "tagged" \in item.stages /\ UNCHANGED <<lastTold, lastEmit>>
    /\ EndsItem([Ended("completed") EXCEPT !.stages = @ \union {"saved"},
                                       !.download = FullMeter, !.decrypt = FullMeter], row, reader)
Skips ==
    /\ AtStatus("resolving") /\ Resolved /\ UNCHANGED <<lastTold, lastEmit>>
    /\ EndsItem(Ended("skipped"), row, reader)
\* finish: what is held goes out as the last live state, then the failure. A
\* cancelled item's event carries the meters, so what is held is dropped; a
\* shutdown leaves the item for recovery.
ItemFails ==
    /\ run = "on" /\ item.status # "queued"
    /\ IF heldBack THEN lastTold' = item /\ lastEmit' = time /\ EndsItem(Ended("failed"), item, item)
       ELSE EndsItem(Ended("failed"), row, reader) /\ UNCHANGED <<lastTold, lastEmit>>
IsCancelled ==
    /\ run = "on" /\ UNCHANGED <<lastTold, lastEmit>> /\ EndsItem(Ended("cancelled"), row, reader)
ShutsDown ==
    /\ run = "on" /\ run' = "shutdown"
    /\ UNCHANGED <<item, lastTold, heldBack, lastEmit, time, row, reader, moves, codec, fetches, step>>

MeterTime ==
    /\ run = "on" /\ time < MaxMeterTime /\ time' = time + 1
    /\ UNCHANGED <<item, lastTold, heldBack, lastEmit, row, reader, moves, codec, fetches, run, step>>

MeterNext ==
    \/ Resolves \/ Selects \/ WaitsForSlot \/ StartsDownload \/ DownloadProgress
    \/ WaitsForKey \/ StartsDecrypt \/ DecryptProgress \/ Remuxes \/ Finalizes \/ RetryEvent \/ DecryptsAgain
    \/ CodecFailed \/ CodecFallback
    \/ ItemCompletes \/ Skips \/ ItemFails \/ IsCancelled \/ ShutsDown \/ MeterTime
MeterSpec == MeterInit /\ [][MeterNext]_meterVars

-----------------------------------------------------------------------------
\* The spacing of meter events loses nothing (stageSetter, progressGate): while
\* the track runs, its reader is a held meter value behind at most; when it has
\* ended and its last writes went through, the reader and the store have the
\* item as it ended; and two meter events are an interval apart unless a
\* status, a stage or another event came between.
MeterSettles ==
    /\ run = "on" /\ ~heldBack /\ step = "goes" /\ item.status # "queued" =>
           /\ reader.status = item.status
           /\ Percent(reader.download) = Percent(item.download)
           /\ Percent(reader.decrypt) = Percent(item.decrypt)
           /\ reader.stages \union {"resolved"} = item.stages \union {"resolved"}
    /\ run \in Endings => reader = item /\ row = item
    /\ moves[2] - moves[1] >= EventInterval
=============================================================================
