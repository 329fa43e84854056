------------------------------ MODULE Settings ------------------------------
(***************************************************************************)
(* PUT /api/config (internal/httpapi/configapi.go), the configuration file *)
(* it writes (internal/config/toml.go) and the start of the process that   *)
(* reads it back (internal/config/config.go).                              *)
(*                                                                         *)
(* A configuration is a function on Fields.  A field stands for those of   *)
(* the code that are treated alike: http_addr for what is always validated *)
(* (lengths, windows, levels, storage), udp_listen_addr, serial_device and *)
(* netconsole_address for the sections that are validated only when their  *)
(* transport is selected.  updateConfig holds no lock: its requests run as *)
(* processes that read s.cfg, write the file and assign s.cfg in steps.    *)
(***************************************************************************)
EXTENDS Naturals, FiniteSets

CONSTANTS
    Handlers,       \* requests that may be served at the same time
    Updates,        \* request bodies: functions on the fields they change
    Environments,   \* GOMESHCOM_* variables: functions on the fields they set
    Files,          \* files that an operator may have written before the start
    Spelling,       \* values that normalize rewrites, and what they become
    Malformed,      \* values that the check of their own field refuses
    Unescaped,      \* values that tomlStr does not write so that they parse
    MaxUpdates      \* bound on the requests that are let through

Fields == {"http_addr", "transport_mode", "udp_listen_addr", "my_call", "auth_username",
           "auth_password", "serial_device", "netconsole_address", "netconsole_password"}

\* What is trimmed and in one case stays as it is.
ASSUME SettingsAssumption ==
    /\ \A f \in Updates \cup Environments \cup Files : DOMAIN f \subseteq Fields
    /\ Environments # {}
    /\ \A v \in DOMAIN Spelling : Spelling[v] \notin DOMAIN Spelling
    /\ "udp" \notin DOMAIN Spelling
    /\ MaxUpdates \in Nat

VARIABLES
    cfg,            \* s.cfg; NotRunning while the process does not run
    env,            \* the environment of the process
    file,           \* the configuration file: a function on some fields, or Torn
    tmp,            \* the file of that name with the suffix .tmp, or NoFile
    serving_put,    \* where each request is: "idle", "write", "rename" or "apply"
    candidate,      \* what each request is about to store
    identity,       \* station identity, and what its table holds ("" if nothing)
    stored_call,
    overlapped,     \* history: two requests have overlapped since the start
    accepted        \* history: the requests let through so far

settingsVars == <<cfg, env, file, tmp, serving_put, candidate, identity, stored_call,
                  overlapped, accepted>>

NoFile == [absent |-> TRUE]
Torn == [torn |-> TRUE]
NotRunning == [running |-> FALSE]

----------------------------------------------------------------------------
(* config.go *)

\* builtInDefaultConfig, and the defaults of the struct tags, which are equal.
Default ==
    [f \in Fields |->
        CASE f = "transport_mode" -> "udp"
          [] f = "http_addr" -> "127.0.0.1:8080"
          [] f = "udp_listen_addr" -> "0.0.0.0:1799"
          [] f = "my_call" -> "QQ0XX-1"
          [] OTHER -> ""]

\* One field: how it is spelled, and what stands for an empty transport mode.
Spelled(f, v) ==
    IF f \in {"transport_mode", "my_call", "serial_device", "netconsole_address"}
       /\ v \in DOMAIN Spelling
    THEN Spelling[v] ELSE v
Normal(f, v) ==
    IF f = "transport_mode" /\ Spelled(f, v) = "" THEN "udp" ELSE Spelled(f, v)

normalize(c) == [f \in Fields |-> Normal(f, c[f])]

validateUDPTransport(c) == c["udp_listen_addr"] \notin Malformed
validateSerialTransport(c) == c["serial_device"] \notin Malformed \cup {""}
validateNetConsoleTransport(c) ==
    c["netconsole_address"] \notin Malformed \cup {""} /\ c["netconsole_password"] \notin Malformed

Validate(c) ==
    /\ c["http_addr"] \notin Malformed /\ c["my_call"] \notin Malformed
    /\ \/ c["transport_mode"] = "udp" /\ validateUDPTransport(c)
       \/ c["transport_mode"] = "serial" /\ validateSerialTransport(c)
       \/ c["transport_mode"] = "netconsole" /\ validateNetConsoleTransport(c)
    /\ c["auth_username"] = "" <=> c["auth_password"] = ""

----------------------------------------------------------------------------
(* toml.go *)

\* The environment wins over the file, the file over what is there, for some fields.
Under(c, written, e, fields) ==
    [f \in Fields |-> IF f \notin fields THEN c[f]
                      ELSE IF f \in DOMAIN e THEN e[f]
                      ELSE IF f \in DOMAIN written THEN written[f] ELSE c[f]]

SerialFields == {"serial_device"}
NetConsoleFields == {"netconsole_address", "netconsole_password"}

mergeSerialToml(c, written, e) == Under(c, written, e, SerialFields)
mergeNetConsoleToml(c, written, e) == Under(c, written, e, NetConsoleFields)

mergeToml(written, e) ==
    mergeNetConsoleToml(mergeSerialToml(
        Under(Default, written, e, Fields \ (SerialFields \cup NetConsoleFields)),
        written, e), written, e)

\* loadTomlFile refuses a file that does not parse.
Parses(written) == written # Torn /\ \A f \in DOMAIN written : written[f] \notin Unescaped

\* buildTomlContent: everything, the password of the web interface as "".
buildTomlContent(c) == [normalize(c) EXCEPT !["auth_password"] = ""]

\* WriteDefaultToml writes the defaults when there is no file yet.
Present(written) == IF written = NoFile THEN buildTomlContent(Default) ELSE written

\* What Load makes of a file and an environment, and whether it succeeds.
Loaded(written, e) == normalize(mergeToml(Present(written), e))
Loads(written, e) == Parses(Present(written)) /\ Validate(Loaded(written, e))

SettingsTypeOK ==
    /\ cfg = NotRunning \/ DOMAIN cfg = Fields
    /\ env \in Environments
    /\ file \in {NoFile, Torn} \/ DOMAIN file \subseteq Fields
    /\ tmp \in {NoFile, Torn} \/ DOMAIN tmp = Fields
    /\ serving_put \in [Handlers -> {"idle", "write", "rename", "apply"}]
    /\ \A h \in Handlers : serving_put[h] = "idle" <=> candidate[h] = NotRunning
    /\ cfg = NotRunning => \A h \in Handlers : serving_put[h] = "idle"
    /\ overlapped \in BOOLEAN
    /\ accepted \in 0 .. MaxUpdates

NoRequests ==
    /\ serving_put' = [h \in Handlers |-> "idle"]
    /\ candidate' = [h \in Handlers |-> NotRunning]

SettingsInit ==
    /\ cfg = NotRunning
    /\ env = CHOOSE e \in Environments : TRUE
    /\ file = NoFile /\ tmp = NoFile
    /\ serving_put = [h \in Handlers |-> "idle"]
    /\ candidate = [h \in Handlers |-> NotRunning]
    /\ identity = "" /\ stored_call = ""
    /\ overlapped = FALSE
    /\ accepted = 0

\* The operator writes the file before the first start, or repairs one with which
\* no start succeeds.
Prepare ==
    /\ cfg = NotRunning
    /\ file = NoFile \/ \A e \in Environments : ~Loads(file, e)
    /\ \E written \in Files : file' = written
    /\ UNCHANGED <<cfg, env, tmp, serving_put, candidate, identity, stored_call,
                   overlapped, accepted>>

\* config.Load and station.NewSQLite: the callsign in the database wins.
StartUp ==
    /\ cfg = NotRunning
    /\ env' \in Environments
    /\ file' = Present(file)
    /\ Loads(file, env')
    /\ cfg' = Loaded(file, env')
    /\ identity' = IF stored_call = "" THEN cfg'["my_call"] ELSE stored_call
    /\ overlapped' = FALSE
    /\ UNCHANGED <<tmp, serving_put, candidate, stored_call, accepted>>

\* The process ends at any step.
Stop ==
    /\ cfg # NotRunning
    /\ cfg' = NotRunning
    /\ NoRequests
    /\ UNCHANGED <<env, file, tmp, identity, stored_call, overlapped, accepted>>

----------------------------------------------------------------------------
(* updateConfig *)

Mask == "****"

\* The fields of a request that the handler applies: a mask is no password, and
\* an empty one is none for the web interface.
Applied(update) ==
    {f \in DOMAIN update :
        /\ f = "auth_password" => update[f] \notin {"", Mask}
        /\ f = "netconsole_password" => update[f] # Mask}

\* A plausible bug: the check is left out.
checkEnvNothing(update) == TRUE

\* checkEnvLocked: what the environment sets cannot be changed.
checkEnvLocked(update) == Applied(update) \cap DOMAIN env = {}

\* The values of a request put over those of a configuration, for some fields.
Over(c, update, fields) ==
    [f \in Fields |-> IF f \in Applied(update) \cap fields THEN update[f] ELSE c[f]]

applySerialUpdate(c, update) == Over(c, update, SerialFields)
applyNetConsoleUpdate(c, update) == Over(c, update, NetConsoleFields)

Merged(update) ==
    normalize(applyNetConsoleUpdate(applySerialUpdate(
        Over(cfg, update, Fields \ (SerialFields \cup NetConsoleFields)), update), update))

\* The handler up to the write.  A request that the environment or Validate refuses
\* is answered with 409 or 400 and changes nothing.
PutConfig(h) ==
    /\ cfg # NotRunning /\ serving_put[h] = "idle" /\ accepted < MaxUpdates
    /\ \E update \in Updates :
           /\ checkEnvLocked(update)
           /\ Validate(Merged(update))
           /\ candidate' = [candidate EXCEPT ![h] =
                  [config |-> Merged(update), named |-> "my_call" \in DOMAIN update]]
    /\ serving_put' = [serving_put EXCEPT ![h] = "write"]
    /\ overlapped' = (overlapped \/ \E g \in Handlers : serving_put[g] # "idle")
    /\ accepted' = accepted + 1
    /\ UNCHANGED <<cfg, env, file, tmp, identity, stored_call>>

\* os.WriteFile of the temporary file, which two requests share: over one that
\* another request has written the outcome is either content, or a torn mix.
WriteTmp(h) ==
    /\ serving_put[h] = "write"
    /\ \E content \in {buildTomlContent(candidate[h].config)}
                      \cup (IF \E g \in Handlers : serving_put[g] = "rename"
                            THEN {Torn, tmp} ELSE {}) :
           tmp' = content
    /\ serving_put' = [serving_put EXCEPT ![h] = "rename"]
    /\ UNCHANGED <<cfg, env, file, candidate, identity, stored_call, overlapped, accepted>>

\* os.Rename over the configuration file.
RenameTmp(h) ==
    /\ serving_put[h] = "rename" /\ tmp # NoFile
    /\ file' = tmp
    /\ tmp' = NoFile
    /\ serving_put' = [serving_put EXCEPT ![h] = "apply"]
    /\ UNCHANGED <<cfg, env, candidate, identity, stored_call, overlapped, accepted>>

\* A write or a rename fails (another request has renamed the file, the disk is
\* full): the request is answered with 500.
PersistFails(h) ==
    /\ serving_put[h] \in {"write", "rename"}
    /\ tmp' \in IF serving_put[h] = "rename" THEN {NoFile} ELSE {tmp, Torn}
    /\ serving_put' = [serving_put EXCEPT ![h] = "idle"]
    /\ candidate' = [candidate EXCEPT ![h] = NotRunning]
    /\ UNCHANGED <<cfg, env, file, identity, stored_call, overlapped, accepted>>

\* The callsign is applied when the request named it, saved if the database takes
\* it, and s.cfg is assigned.
ApplyConfig(h) ==
    /\ serving_put[h] = "apply"
    /\ cfg' = candidate[h].config
    /\ identity' = IF candidate[h].named THEN cfg'["my_call"] ELSE identity
    /\ stored_call' \in IF candidate[h].named THEN {stored_call, identity'} ELSE {stored_call}
    /\ serving_put' = [serving_put EXCEPT ![h] = "idle"]
    /\ candidate' = [candidate EXCEPT ![h] = NotRunning]
    /\ UNCHANGED <<env, file, tmp, overlapped, accepted>>

\* updateMyCall (station.go), which leaves s.cfg and the file as they are.
UpdateMyCall ==
    /\ cfg # NotRunning /\ accepted < MaxUpdates
    /\ \E update \in {u \in Updates : "my_call" \in DOMAIN u} :
           /\ Merged(update)["my_call"] \notin Malformed
           /\ identity' = Merged(update)["my_call"]
    /\ stored_call' \in {stored_call, identity'}
    /\ accepted' = accepted + 1
    /\ UNCHANGED <<cfg, env, file, tmp, serving_put, candidate, overlapped>>

SettingsNext ==
    \/ Prepare \/ StartUp \/ Stop \/ UpdateMyCall
    \/ \E h \in Handlers :
           PutConfig(h) \/ WriteTmp(h) \/ RenameTmp(h) \/ PersistFails(h) \/ ApplyConfig(h)

SettingsSpec == SettingsInit /\ [][SettingsNext]_settingsVars

----------------------------------------------------------------------------
(* Properties *)

Quiet == cfg # NotRunning /\ \A h \in Handlers : serving_put[h] = "idle"

\* A restart in the same environment changes no setting but the password of the
\* web interface, which the file does not keep: whatever was updated, refused,
\* not written or cut off, as long as no two requests overlapped.  And what the
\* environment sets is in force at all times, overlap or not.
SettingsAgree ==
    /\ Quiet /\ ~overlapped /\ Parses(file) =>
           \A f \in Fields \ {"auth_password"} : Loaded(file, env)[f] = cfg[f]
    /\ cfg # NotRunning =>
           \A f \in DOMAIN env : cfg[f] = normalize(mergeToml(<<>>, env))[f]

\* Settings that were accepted, "normalized and validated before persisting"
\* (configapi.go:570), let the daemon start again in the same environment.
AcceptedSettingsLoad == Quiet /\ ~overlapped => Loads(file, env)

----------------------------------------------------------------------------
(* The instance that is checked. *)

\* One field after the other, the fields that are validated together, one that
\* is not written so that it parses, and one that no environment lets through.
SettingsUpdates ==
    {[my_call |-> "iu5pmp-2"],
     [serial_device |-> " /dev/ttyUSB0"],
     [transport_mode |-> "serial"],
     [transport_mode |-> "netconsole", netconsole_address |-> "node:23",
      netconsole_password |-> "****"],
     [auth_username |-> "op", auth_password |-> "secret"],
     [netconsole_address |-> "control byte"],
     [http_addr |-> "nowhere"]}

\* Nothing, a serial node, and an account.
SettingsEnvironments ==
    {<<>>, [transport_mode |-> "serial", serial_device |-> "/dev/ttyS0"],
     [auth_username |-> "env", auth_password |-> "hidden", my_call |-> "iu5pmp-1"]}

SettingsFiles == {<<>>, [netconsole_address |-> "old:23", netconsole_password |-> "shared"]}

SettingsSpelling ==
    [v \in {"iu5pmp-1", "iu5pmp-2", " /dev/ttyUSB0"} |->
        CASE v = "iu5pmp-1" -> "IU5PMP-1"
          [] v = "iu5pmp-2" -> "IU5PMP-2"
          [] OTHER -> "/dev/ttyUSB0"]
=============================================================================
