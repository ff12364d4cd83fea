------------------------------ MODULE ConfigStore ------------------------------
(* The live configuration and config.yaml (internal/config, api/config_api.go,  *)
(* logging.FollowLevel): PUT /config and POST /config/reload requests, an       *)
(* editor that changes or deletes the file at any time, and restarts. Three     *)
(* keys stand for all: level, a runtime key with a component that follows it;   *)
(* quality, a runtime key whose value is a list; listen, a startup key that an  *)
(* AMDL_* variable overrides. An omitted key and a redacted token both keep.    *)
EXTENDS Integers, FiniteSets

CONSTANTS
    ConfigClients,  \* requests that may be under way together
    EnvListen,      \* AMDL_SERVER_LISTEN, or "unset"
    MaxPuts,        \* bounds: requests, edits of the file
    MaxEdits

ASSUME ConfigAssumption ==
    /\ EnvListen # "bad" /\ "free" \notin ConfigClients /\ {MaxPuts, MaxEdits} \subseteq Nat

VARIABLES
    file,       \* config.yaml, or Missing
    snapshot,   \* Store.current
    saving,     \* who holds saveMu, or "free"
    level,      \* the level in force in the log system
    put,        \* each request: its step, body and what it has read
    wanted,     \* history: what each key of the file may hold if nothing is lost
    requests, edits

configVars == <<file, snapshot, saving, level, put, wanted, requests, edits>>

Keys == {"level", "quality", "listen"}
RuntimeKeys == {"level", "quality"}
Values == [level |-> {"info", "debug"}, quality |-> {"alac", "aac", "bad"},
           listen |-> {"local", "any", "bad", EnvListen}]
IsConfig(cfg) == DOMAIN cfg = Keys /\ \A k \in Keys : cfg[k] \in Values[k]
Missing == [level |-> "none", quality |-> "none", listen |-> "none"]
DefaultConfig == [level |-> "info", quality |-> "alac", listen |-> "local"]

Valid(cfg) == cfg.quality # "bad" /\ cfg.listen # "bad"
\* load: the environment goes over the file before it is validated.
Overlaid(cfg, env) == IF env = "unset" THEN cfg ELSE [cfg EXCEPT !.listen = env]
Loads(env) == file # Missing /\ Valid(Overlaid(file, env))

\* Mutant: every key is copied, not only those isRuntimeKey claims.
EveryKey(target, source) == source
CopyRuntimeFields(target, source) ==
    [k \in Keys |-> IF k \in RuntimeKeys THEN source[k] ELSE target[k]]

\* The record a request fills in as it goes: its body, the configuration it
\* works on, and the level FollowLevel applies.
NoRequest == [step |-> "none", body |-> DefaultConfig, cfg |-> DefaultConfig, disk |-> DefaultConfig,
              applied |-> "info"]
Bodies == [level : {"keep", "info", "debug"}, quality : {"keep", "aac", "bad"},
           listen : {"keep", "any"}]
Onto(cfg, body) == [k \in Keys |-> IF body[k] = "keep" THEN cfg[k] ELSE body[k]]
RuntimeLockedChanges(cfg, merged) == {k \in Keys \ RuntimeKeys : cfg[k] # merged[k]}

\* server.Run: the file is created from the example when there is none.
ConfigInit ==
    /\ file = DefaultConfig /\ snapshot = Overlaid(DefaultConfig, EnvListen)
    /\ saving = "free" /\ level = DefaultConfig.level
    /\ put = [c \in ConfigClients |-> NoRequest]
    /\ wanted = [k \in Keys |-> {DefaultConfig[k]}]
    /\ requests = 0 /\ edits = 0

ConfigTypeOK ==
    /\ file = Missing \/ IsConfig(file)
    /\ IsConfig(snapshot) /\ level \in Values.level
    /\ saving \in ConfigClients \union {"free"}
    /\ \A c \in ConfigClients : IsConfig(put[c].cfg) /\ IsConfig(put[c].disk)

IsAt(c, step) == put[c].step = step
MovesTo(c, step) == put' = [put EXCEPT ![c].step = step]
Leaves(c, step) == put' = [put EXCEPT ![c] = [NoRequest EXCEPT !.step = step]]
\* A request that fails answers and lets go of saveMu; a reload has the level
\* applied all the same.
GivesUpPut(c) == saving' = "free" /\ Leaves(c, "none")

-----------------------------------------------------------------------------
\* UpdateAndSave takes saveMu and reads the file (readLocked, missingOK).
PutReads(c) ==
    /\ IsAt(c, "none") /\ saving = "free" /\ requests < MaxPuts
    /\ requests' = requests + 1
    /\ \E body \in Bodies :
         /\ body # [k \in Keys |-> "keep"]
         /\ LET read(cfg, step) ==
                  /\ put' = [put EXCEPT ![c].step = step, ![c].body = body, ![c].cfg = cfg]
                  /\ saving' = c IN
            CASE file = Missing -> read(snapshot, "shared")
              [] Loads(EnvListen) ->
                   read(CopyRuntimeFields(snapshot, Overlaid(file, EnvListen)), "read")
              [] OTHER -> UNCHANGED <<put, saving>>
    /\ UNCHANGED <<file, snapshot, level, wanted, edits>>

\* updateConfig's closure: the body is decoded over the configuration read, and
\* the result validated; it may change no startup key. When no file was read that is the snapshot itself, and
\* a list is decoded into the array the two share.
PutMerges(c) ==
    /\ IsAt(c, "shared") \/ IsAt(c, "read")
    /\ LET merged == Onto(put[c].cfg, put[c].body) IN
       /\ snapshot' = IF IsAt(c, "shared") THEN [snapshot EXCEPT !.quality = merged.quality]
                      ELSE snapshot
       /\ IF Valid(merged) /\ RuntimeLockedChanges(put[c].cfg, merged) = {}
          THEN /\ put' = [put EXCEPT ![c].step = "merged", ![c].cfg = merged]
               /\ UNCHANGED saving
          ELSE GivesUpPut(c)
    /\ UNCHANGED <<file, level, wanted, requests, edits>>

\* saveRuntimeFields reads the file again, without the environment.
OnDisk == IF file = Missing THEN DefaultConfig ELSE file
PutLoadsDisk(c) ==
    /\ IsAt(c, "merged")
    /\ IF file = Missing \/ Loads("unset")
       THEN /\ put' = [put EXCEPT ![c].step = "loaded", ![c].disk =
                            CopyRuntimeFields(OnDisk, put[c].cfg)]
            /\ UNCHANGED saving
       ELSE GivesUpPut(c)
    /\ UNCHANGED <<file, snapshot, level, wanted, requests, edits>>

\* writeFileAtomic: the rename, or an error that leaves the file.
PutRenames(c) ==
    /\ IsAt(c, "loaded")
    /\ \/ /\ file' = put[c].disk /\ MovesTo(c, "saved")
          /\ wanted' = [k \in Keys |->
                IF k \in RuntimeKeys /\ put[c].body[k] # "keep" THEN {put[c].body[k]} ELSE wanted[k]]
          /\ UNCHANGED saving
       \/ GivesUpPut(c) /\ UNCHANGED <<file, wanted>>
    /\ UNCHANGED <<snapshot, level, requests, edits>>

\* Set, and saveMu is free.
PutSwaps(c) ==
    /\ IsAt(c, "saved") /\ snapshot' = put[c].cfg /\ saving' = "free" /\ Leaves(c, "apply")
    /\ UNCHANGED <<file, level, wanted, requests, edits>>

\* Reload in one step; applyLoggingConfig follows, error or not.
ReloadRequest(c) ==
    /\ IsAt(c, "none") /\ saving = "free" /\ requests < MaxPuts
    /\ requests' = requests + 1
    /\ snapshot' = IF Loads(EnvListen)
                   THEN CopyRuntimeFields(snapshot, Overlaid(file, EnvListen)) ELSE snapshot
    /\ MovesTo(c, "apply")
    /\ UNCHANGED <<file, saving, level, wanted, edits>>

\* FollowLevel: read the snapshot's level, set it, and again until it is still
\* the snapshot's.
ReadsLevel(c) ==
    /\ IsAt(c, "apply")
    /\ put' = [put EXCEPT ![c].step = "set", ![c].applied = snapshot.level]
    /\ UNCHANGED <<file, snapshot, saving, level, wanted, requests, edits>>
SetsLevel(c) ==
    /\ IsAt(c, "set") /\ level' = put[c].applied /\ MovesTo(c, "check")
    /\ UNCHANGED <<file, snapshot, saving, wanted, requests, edits>>
\* Mutant: the level is applied once.
OnceIsEnough(c) ==
    /\ IsAt(c, "check") /\ Leaves(c, "none")
    /\ UNCHANGED <<file, snapshot, saving, level, wanted, requests, edits>>
ChecksLevel(c) ==
    /\ IsAt(c, "check") /\ Leaves(c, IF snapshot.level = put[c].applied THEN "none" ELSE "apply")
    /\ UNCHANGED <<file, snapshot, saving, level, wanted, requests, edits>>

-----------------------------------------------------------------------------
\* Someone edits config.yaml, well or badly, or deletes it. An edit made while
\* a PUT is between its first read and its rename may be lost to it.
HandEdits ==
    /\ edits < MaxEdits /\ edits' = edits + 1
    /\ LET racing == saving # "free" IN
       \/ /\ \E k \in Keys, v \in {"debug", "aac", "any", "bad"} :
               /\ v \in Values[k] /\ v # OnDisk[k] /\ file # Missing
               /\ file' = [file EXCEPT ![k] = v]
               /\ wanted' = [wanted EXCEPT ![k] = IF racing THEN @ \union {v} ELSE {v}]
       \/ /\ file # Missing /\ file' = Missing
          /\ wanted' = [k \in Keys |-> Values[k]]
    /\ UNCHANGED <<snapshot, saving, level, put, requests>>

\* The process ends anywhere and starts again, if the file then loads.
ConfigRestarts ==
    /\ file = Missing \/ Loads(EnvListen)
    /\ file' = OnDisk /\ snapshot' = Overlaid(OnDisk, EnvListen) /\ level' = OnDisk.level
    /\ saving' = "free" /\ put' = [c \in ConfigClients |-> NoRequest]
    /\ UNCHANGED <<wanted, requests, edits>>

ConfigNext ==
    \/ \E c \in ConfigClients :
         \/ PutReads(c) \/ PutMerges(c) \/ PutLoadsDisk(c) \/ PutRenames(c) \/ PutSwaps(c)
         \/ ReloadRequest(c) \/ ReadsLevel(c) \/ SetsLevel(c) \/ ChecksLevel(c)
    \/ HandEdits \/ ConfigRestarts
ConfigSpec == ConfigInit /\ [][ConfigNext]_configVars

-----------------------------------------------------------------------------
\* Nothing anyone put into config.yaml is lost (UpdateAndSave,
\* saveRuntimeFields): a PUT keeps the keys it does not name, runtime and
\* startup, as the last PUT or hand edit left them, through failed writes,
\* deletions and restarts, and never saves what the environment overrides. Only
\* an edit made while a PUT is under way may give way to it.
EditsAreKept == file # Missing => \A k \in Keys : file[k] \in wanted[k]

\* Between requests the log system runs at the configuration's level
\* (applyLoggingConfig, FollowLevel), however PUTs and reloads overlapped.
LevelFollows == (\A c \in ConfigClients : IsAt(c, "none")) => level = snapshot.level

\* The file keeps what was put into it and the log system follows the snapshot.
ConfigHolds == EditsAreKept /\ LevelFollows
=============================================================================
