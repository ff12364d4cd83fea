-------------------------- MODULE MCTrackPipeline --------------------------
(* Instances of TrackPipeline for TLC. *)
EXTENDS TrackPipeline
CONSTANTS t1, t2, t3, album, playlist, p, q

\* The first two tracks are an album's, the third a playlist's.
TwoJobs == [t \in {t1, t2, t3} |-> IF t = t3 THEN playlist ELSE album]
One(out) == [c \in Codecs |-> {out}]
Everywhere == [t \in Tracks |-> One(p)]
\* The codecs of one track lead to where those of the other come from.
Crossed == [t \in Tracks |-> [c \in Codecs |-> IF (t = t1) = (c = 1) THEN {p} ELSE {q}]]
\* A retry may choose another quality.
Wandering == [t \in Tracks |-> [c \in Codecs |-> {p, q}]]

\* Three tracks with one output and one download at a time.
Contended == [tracks |-> {t1, t2, t3}, forced |-> {}, paths |-> Everywhere, codecs |-> 1,
              attempts |-> 1, hung |-> {}, panics |-> {}, stops |-> {"cancel"}, restarts |-> 0]
\* One of them never ends by itself.
Hung == [Contended EXCEPT !.hung = {t1}]
\* A job overwrites what the other wrote.
Forcing == [Contended EXCEPT !.tracks = {t1, t3}, !.forced = {playlist}, !.attempts = 2]
Fallback == [Contended EXCEPT !.tracks = {t1, t3}, !.paths = Crossed, !.codecs = 2,
                              !.attempts = 2, !.panics = {"select", "decrypt", "finalize"}]
Moving == [Contended EXCEPT !.tracks = {t1, t3}, !.paths = Wandering, !.attempts = 2]
Restarted == [Contended EXCEPT !.tracks = {t1, t3}, !.stops = {"cancel", "shutdown"},
                               !.restarts = 1]
MCSetups == {Contended, Hung, Forcing, Fallback, Moving, Restarted}
PanicSetups == {[Contended EXCEPT !.panics = {"transfer"}]}
=============================================================================
