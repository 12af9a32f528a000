------------------------------ MODULE Settings ------------------------------
(***************************************************************************)
(* The console's settings: ProviderSettingsStore, AgentSettingsStore and     *)
(* ExecutionEndpointStore (apps/console/backend/settings.py).                *)
(*                                                                         *)
(* Each store is a JSON file that a request reads whole, changes and writes  *)
(* whole, through one temporary file that all requests of a store share, and *)
(* secrets in files of their own.  The HTTP server has a thread per request  *)
(* and the stores have no lock, so requests interleave between their steps;  *)
(* the server may be restarted between any two of them.  What is stored is   *)
(* named by the request that wrote it.                                      *)
(***************************************************************************)
EXTENDS Naturals

CONSTANTS
    Stores,         \* "providers", "agents", "endpoints"
    Rows,           \* the ids of the rows of a store
    Requests,       \* the requests of the model
    StoreOf,        \* the store a request is for
    RowOf,          \* the row it is for
    KindOfRequest,  \* "save", "delete", "clear", "run" or "child"
    Brings,         \* the saves that carry a secret
    Keyless,        \* the providers that need no key
    Environment,    \* the providers whose key is in the server's environment
    Default,        \* the provider that is active before any is saved
    Legacy,         \* the provider of the old provider.json
    Absences,       \* bound of the model: the sets of requests one of which is left out
    MaxReboots      \* bound of the model: restarts of the server

ASSUME SettingsAssumption ==
    /\ Stores = {"providers", "agents", "endpoints"}
    /\ StoreOf \in [Requests -> Stores]
    /\ \A r \in Requests :
          /\ RowOf[r] \in Rows[StoreOf[r]]
          /\ KindOfRequest[r] \in {"save", "delete", "clear", "run", "child"}
          /\ KindOfRequest[r] = "delete" => StoreOf[r] # "providers"
          /\ KindOfRequest[r] \in {"clear", "run"} => StoreOf[r] = "providers"
          /\ KindOfRequest[r] = "child" => StoreOf[r] # "agents"
    /\ Brings \subseteq {r \in Requests : KindOfRequest[r] = "save"}
    /\ \A r \in Brings : StoreOf[r] # "agents" /\ RowOf[r] \notin Keyless
    /\ {Default, Legacy} \cup Keyless \subseteq Rows["providers"]
    /\ "none" \notin Requests \cup Environment
    /\ Absences \subseteq SUBSET Requests
    /\ MaxReboots \in Nat

VARIABLES
    file,       \* the JSON file of a store and its temporary file
    secrets,    \* the secret files of a store
    session,    \* _session_keys of the providers
    request,    \* the thread of every request
    legacy,     \* what is left of the old files: the settings and the secret
    server,     \* "up", or how far its start has come
    serial,     \* (history) the stores, if every request were one step
    raced,      \* (history) stores two writers of which have overlapped
    mixed,      \* (history) stores with a request that overlapped or was cut off
    cleared,    \* (history) providers whose key was cleared since it was written
    reboots

settingsVars == <<file, secrets, session, request, legacy, server, serial, raced, mixed,
                  cleared, reboots>>

None == "none"
Old == "legacy"

Blank(s) == [rows |-> [i \in Rows[s] |-> None], active |-> Default]
Missing == [state |-> "missing"]
Torn == [state |-> "torn"]
Whole(d) == [state |-> "whole", doc |-> d]

New == [step |-> "new"]
Outcome(outcome) == [step |-> outcome]
Answered == {"done", "refused", "cut"}

(* The stores share nothing: the requests of one of them run. *)
SettingsInit ==
    /\ file = [s \in Stores |-> [main |-> Missing, tmp |-> Missing]]
    /\ secrets = [s \in Stores |-> [i \in Rows[s] |-> None]]
    /\ session = [i \in Rows["providers"] |-> None]
    /\ \E s \in Stores, absent \in Absences :
          request = [r \in Requests |->
                        IF StoreOf[r] = s /\ r \notin absent THEN New ELSE Outcome("cut")]
    /\ legacy \in [settings : BOOLEAN, secret : BOOLEAN]
    /\ server = "settings"
    /\ serial = [s \in Stores |-> [doc |-> Blank(s), secrets |-> [i \in Rows[s] |-> None]]]
    /\ raced = {} /\ mixed = {} /\ cleared = {} /\ reboots = 0

(* A server that gets no request. *)
SettingsRest ==
    /\ file = [s \in Stores |-> [main |-> Missing, tmp |-> Missing]]
    /\ secrets = [s \in Stores |-> [i \in Rows[s] |-> None]]
    /\ session = [i \in Rows["providers"] |-> None]
    /\ request = [r \in Requests |-> Outcome("cut")]
    /\ legacy = [settings |-> FALSE, secret |-> FALSE]
    /\ server = "settings"
    /\ serial = [s \in Stores |-> [doc |-> Blank(s), secrets |-> [i \in Rows[s] |-> None]]]
    /\ raced = {} /\ mixed = {} /\ cleared = {} /\ reboots = 0

-----------------------------------------------------------------------------
(* What a request reads and computes *)

(* _read, _read_settings: a missing or torn file reads as the defaults.      *)
Read(s) == IF file[s].main.state = "whole" THEN file[s].main.doc ELSE Blank(s)

(* save puts the row in its place or at the end; a saved provider is active. *)
Saved(r, d) == [rows   |-> [d.rows EXCEPT ![RowOf[r]] = r],
                active |-> IF StoreOf[r] = "providers" THEN RowOf[r] ELSE d.active]

(* delete keeps the other rows.                                              *)
Deleted(r, d) == [d EXCEPT !.rows[RowOf[r]] = None]

(* Variant: a provider without a key gets that of the environment. *)
SecretOfAny(i) ==
    CASE i \in Keyless -> None
      [] i \notin Keyless /\ session[i] # None -> session[i]
      [] i \notin Keyless /\ session[i] = None /\ Environment # {} ->
            CHOOSE p \in Environment : TRUE
      [] OTHER -> secrets["providers"][i]

(* _read_secret: the session's key, else the environment's, which is named    *)
(* like its provider, else the file's.                                      *)
Secret(i) ==
    CASE i \in Keyless -> None
      [] i \notin Keyless /\ session[i] # None -> session[i]
      [] i \in Environment \ Keyless /\ session[i] = None -> i
      [] OTHER -> secrets["providers"][i]

(* What a child uses at the active provider's address: MOSAIC_API_KEY, or, if *)
(* that is empty, a key of another provider that it inherits with the rest of *)
(* the server's environment; a keyless provider has a token instead.         *)
Inherited(i) == IF Environment \subseteq {i} THEN {None} ELSE Environment \ {i}
UsedKeys(i, key) == IF key = None /\ i \notin Keyless THEN Inherited(i) ELSE {key}

Busy(r) == request[r].step \notin {"new"} \cup Answered
Writes(r) == KindOfRequest[r] \in {"save", "delete"}
Beside(r) == {q \in Requests \ {r} : Busy(q) /\ StoreOf[q] = StoreOf[r]}

Goto(r, at) == request' = [request EXCEPT ![r] = at]
EndRequest(r, outcome) == Goto(r, Outcome(outcome))

-----------------------------------------------------------------------------
(* The steps of a request *)

FirstStep(r) ==
    CASE r \in Brings -> [step |-> "secret"]
      [] KindOfRequest[r] = "clear" -> [step |-> "forget"]
      [] KindOfRequest[r] = "run" -> [step |-> "check"]
      [] KindOfRequest[r] = "save" /\ StoreOf[r] = "providers" /\ r \notin Brings ->
            [step |-> "look", provider |-> RowOf[r]]
      [] OTHER -> [step |-> "read"]

(* The handler of the request, up to the checks of its payload.              *)
StartRequest(r) ==
    /\ server = "up" /\ request[r] = New
    /\ Goto(r, FirstStep(r))
    /\ raced' = IF Writes(r) /\ (\E q \in Beside(r) : Writes(q))
                THEN raced \cup {StoreOf[r]} ELSE raced
    /\ mixed' = IF Beside(r) # {} THEN mixed \cup {StoreOf[r]} ELSE mixed
    /\ UNCHANGED <<file, secrets, session, legacy, server, serial, cleared, reboots>>

(* _write_secret: the session first, then the file.                          *)
WriteSecret(r) ==
    /\ request[r].step = "secret"
    /\ IF StoreOf[r] = "providers"
       THEN session' = [session EXCEPT ![RowOf[r]] = r] /\ cleared' = cleared \ {RowOf[r]}
       ELSE UNCHANGED <<session, cleared>>
    /\ Goto(r, [step |-> "keep"])
    /\ UNCHANGED <<file, secrets, legacy, server, serial, raced, mixed, reboots>>

KeepSecret(r) ==
    /\ request[r].step = "keep"
    /\ secrets' = [secrets EXCEPT ![StoreOf[r]][RowOf[r]] = r]
    /\ serial' = [serial EXCEPT ![StoreOf[r]].secrets[RowOf[r]] = r]
    /\ Goto(r, IF StoreOf[r] = "providers"
               THEN [step |-> "look", provider |-> RowOf[r]] ELSE [step |-> "read"])
    /\ UNCHANGED <<file, session, legacy, server, raced, mixed, cleared, reboots>>

(* save refuses a provider that needs a key and has none, and so does         *)
(* _require_strict_env; _child_env takes what is there.                      *)
LookUpKey(r) ==
    LET l == request[r]  i == l.provider
    IN  /\ l.step \in {"look", "vet"}
        /\ IF /\ KindOfRequest[r] = "save" \/ l.step = "vet"
              /\ i \notin Keyless /\ Secret(i) = None
           THEN EndRequest(r, "refused")
           ELSE Goto(r, [step |-> IF l.step = "vet" THEN "trust" ELSE "cache", provider |-> i,
                         key |-> Secret(i), lost |-> i \in cleared])
        /\ UNCHANGED <<file, secrets, session, legacy, server, serial, raced, mixed, cleared,
                       reboots>>

(* What was found is put in the session in a step of its own.  A save goes on *)
(* to the document, and so does a run that was only checked.                 *)
Cache(r) ==
    LET l == request[r]
    IN  /\ l.step \in {"cache", "trust"}
        /\ session' = IF l.key = None THEN session ELSE [session EXCEPT ![l.provider] = l.key]
        /\ IF KindOfRequest[r] = "save" \/ l.step = "trust"
           THEN Goto(r, [step |-> "read"])
           ELSE \E used \in UsedKeys(l.provider, l.key) :
                   Goto(r, [step |-> "done", provider |-> l.provider, key |-> l.key,
                            used |-> used, lost |-> l.lost])
        /\ UNCHANGED <<file, secrets, legacy, server, serial, raced, mixed, cleared, reboots>>

(* The document is read whole.  The child of a run takes the active provider, *)
(* which was read once before to check it, that of a benchmark too; another   *)
(* the row of its endpoint.  A delete of no row raises KeyError.             *)
ReadDocument(r) ==
    LET s == StoreOf[r]  d == Read(s)
    IN  /\ request[r].step \in {"check", "read"}
        /\ CASE KindOfRequest[r] = "save" -> Goto(r, [step |-> "open", doc |-> Saved(r, d)])
             [] KindOfRequest[r] = "delete" ->
                   IF d.rows[RowOf[r]] = None THEN EndRequest(r, "refused")
                   ELSE Goto(r, [step |-> "open", doc |-> Deleted(r, d)])
             [] KindOfRequest[r] \in {"run", "child"} /\ s = "providers" ->
                   Goto(r, [step |-> IF request[r].step = "check" THEN "vet" ELSE "look",
                            provider |-> d.active])
             [] OTHER ->
                   IF d.rows[RowOf[r]] = None THEN EndRequest(r, "refused")
                   ELSE Goto(r, [step |-> "password", row |-> d.rows[RowOf[r]]])
        /\ UNCHANGED <<file, secrets, session, legacy, server, serial, raced, mixed, cleared,
                       reboots>>

(* _write: write_text empties the temporary file, or makes one, ...          *)
OpenTemporary(r) ==
    /\ request[r].step = "open"
    /\ file' = [file EXCEPT ![StoreOf[r]].tmp = Torn]
    /\ Goto(r, [step |-> "fill", doc |-> request[r].doc, inode |-> "tmp"])
    /\ UNCHANGED <<secrets, session, legacy, server, serial, raced, mixed, cleared,
                   reboots>>

(* ... and fills the file it opened, which another request may have renamed  *)
(* over the document or filled itself, ...                                  *)
Filled(was, d) == IF was = Torn THEN {Whole(d)} ELSE {Whole(d), Torn}
FillTemporary(r) ==
    LET l == request[r]  s == StoreOf[r]
    IN  /\ l.step = "fill"
        /\ IF l.inode = "gone" THEN file' = file
           ELSE \E f \in Filled(file[s][l.inode], l.doc) :
                   file' = [file EXCEPT ![s][l.inode] = f]
        /\ Goto(r, [step |-> "replace", doc |-> l.doc, inode |-> l.inode])
        /\ UNCHANGED <<secrets, session, legacy, server, serial, raced, mixed, cleared,
                   reboots>>

(* The others that have the renamed file open keep writing to it.            *)
Moved(inode) == IF inode = "tmp" THEN "main" ELSE "gone"
Renamed(s) ==
    [q \in Requests |->
        IF StoreOf[q] = s /\ request[q].step \in {"fill", "replace"}
        THEN [request[q] EXCEPT !.inode = Moved(@)] ELSE request[q]]

(* ... and renames it over the document: without one, the request fails.     *)
Replace(r) ==
    LET s == StoreOf[r]
    IN  /\ request[r].step = "replace"
        /\ IF file[s].tmp = Missing
           THEN EndRequest(r, "refused") /\ UNCHANGED <<file, serial>>
           ELSE /\ file' = [file EXCEPT ![s] = [main |-> @.tmp, tmp |-> Missing]]
                /\ request' = [Renamed(s) EXCEPT ![r] =
                      IF KindOfRequest[r] = "delete" /\ s = "endpoints"
                      THEN [step |-> "unlink"] ELSE Outcome("done")]
                /\ serial' = [serial EXCEPT ![s].doc =
                      IF KindOfRequest[r] = "save" THEN Saved(r, @) ELSE Deleted(r, @)]
        /\ UNCHANGED <<secrets, session, legacy, server, raced, mixed, cleared, reboots>>

(* delete takes the password of the endpoint with its row.                   *)
DropPassword(r) ==
    /\ request[r].step = "unlink"
    /\ secrets' = [secrets EXCEPT !["endpoints"][RowOf[r]] = None]
    /\ serial' = [serial EXCEPT !["endpoints"].secrets[RowOf[r]] = None]
    /\ EndRequest(r, "done")
    /\ UNCHANGED <<file, session, legacy, server, raced, mixed, cleared, reboots>>

(* runtime_environment of an endpoint: its row, then its password.           *)
TakePassword(r) ==
    /\ request[r].step = "password"
    /\ Goto(r, [step |-> "done", row |-> request[r].row, key |-> secrets["endpoints"][RowOf[r]]])
    /\ UNCHANGED <<file, secrets, session, legacy, server, serial, raced, mixed, cleared,
                   reboots>>

(* clear_secret: out of the session, then the file.                          *)
ForgetKey(r) ==
    /\ request[r].step = "forget"
    /\ session' = [session EXCEPT ![RowOf[r]] = None]
    /\ cleared' = cleared \cup {RowOf[r]}
    /\ Goto(r, [step |-> "erase"])
    /\ UNCHANGED <<file, secrets, legacy, server, serial, raced, mixed, reboots>>

EraseKey(r) ==
    /\ request[r].step = "erase"
    /\ secrets' = [secrets EXCEPT !["providers"][RowOf[r]] = None]
    /\ serial' = [serial EXCEPT !["providers"].secrets[RowOf[r]] = None]
    /\ EndRequest(r, "done")
    /\ UNCHANGED <<file, session, legacy, server, raced, mixed, cleared, reboots>>

-----------------------------------------------------------------------------
(* The start of the server *)

(* Variant: the old file is migrated at every start. *)
MigrateEveryTime ==
    LET old == [Blank("providers") EXCEPT !.rows[Legacy] = Old, !.active = Legacy]
    IN  /\ server = "settings"
        /\ IF legacy.settings
           THEN /\ file' = [file EXCEPT !["providers"] = [main |-> Whole(old), tmp |-> Missing]]
                /\ serial' = [serial EXCEPT !["providers"].doc =
                                  IF @ = Blank("providers") THEN old ELSE @]
                /\ server' = "secret"
           ELSE server' = "up" /\ UNCHANGED <<file, serial>>
        /\ UNCHANGED <<secrets, session, request, legacy, raced, mixed, cleared, reboots>>

(* _migrate_legacy_once: only when no settings were ever written; the old    *)
(* file stays where it is.                                                  *)
MigrateSettings ==
    LET old == [Blank("providers") EXCEPT !.rows[Legacy] = Old, !.active = Legacy]
    IN  /\ server = "settings"
        /\ IF file["providers"].main = Missing /\ legacy.settings
           THEN /\ file' = [file EXCEPT !["providers"] = [main |-> Whole(old), tmp |-> Missing]]
                /\ serial' = [serial EXCEPT !["providers"].doc =
                                  IF @ = Blank("providers") THEN old ELSE @]
                /\ server' = "secret"
           ELSE server' = "up" /\ UNCHANGED <<file, serial>>
        /\ UNCHANGED <<secrets, session, request, legacy, raced, mixed, cleared, reboots>>

(* The old secret can only be that of the provider it was saved with.        *)
MigrateSecret ==
    LET free == legacy.secret /\ secrets["providers"][Legacy] = None
    IN  /\ server = "secret"
        /\ secrets' = IF free THEN [secrets EXCEPT !["providers"][Legacy] = Old] ELSE secrets
        /\ serial' = IF free THEN [serial EXCEPT !["providers"].secrets[Legacy] = Old]
                     ELSE serial
        /\ legacy' = [legacy EXCEPT !.secret = FALSE]
        /\ server' = "up"
        /\ UNCHANGED <<file, session, request, raced, mixed, cleared, reboots>>

(* The server stops, in the middle of what its requests and its start do.    *)
RestartServer ==
    /\ reboots < MaxReboots /\ reboots' = reboots + 1
    /\ server' = "settings"
    /\ session' = [i \in Rows["providers"] |-> None]
    /\ request' = [r \in Requests |-> IF Busy(r) THEN Outcome("cut") ELSE request[r]]
    /\ mixed' = mixed \cup {StoreOf[r] : r \in {q \in Requests : Busy(q)}}
    /\ cleared' = {}
    /\ UNCHANGED <<file, secrets, legacy, serial, raced>>

RequestStep(r) ==
    \/ StartRequest(r) \/ WriteSecret(r) \/ KeepSecret(r)
    \/ LookUpKey(r) \/ Cache(r) \/ ReadDocument(r)
    \/ OpenTemporary(r) \/ FillTemporary(r) \/ Replace(r)
    \/ DropPassword(r) \/ TakePassword(r) \/ ForgetKey(r) \/ EraseKey(r)

SettingsNext ==
    \/ \E r \in Requests : RequestStep(r)
    \/ MigrateSettings \/ MigrateSecret
    \/ RestartServer

SettingsSpec == SettingsInit /\ [][SettingsNext]_settingsVars

-----------------------------------------------------------------------------
(* Properties *)

(* Every variable holds a value of its type. *)
SettingsTypeOK ==
    /\ \A s \in Stores : {file[s].main.state, file[s].tmp.state} \subseteq
                            {"missing", "torn", "whole"}
    /\ \A s \in Stores : secrets[s] \in [Rows[s] -> Requests \cup {None, Old}]
    /\ session \in [Rows["providers"] -> Requests \cup {None, Old} \cup Environment]
    /\ server \in {"settings", "secret", "up"}
    /\ raced \subseteq mixed /\ mixed \subseteq Stores

(* Without a lock, a store keeps what was saved in it as long as no two of   *)
(* its writers overlap, through restarts at any moment and beside any number *)
(* of readers; and with nothing beside them, secrets follow saves, deletes   *)
(* and clears.                                                              *)
SavesSurvive ==
    \A s \in Stores :
        /\ s \notin raced => Read(s) = serial[s].doc
        /\ s \notin mixed /\ (\A r \in Requests : StoreOf[r] = s => ~Busy(r)) =>
              /\ secrets[s] = serial[s].secrets
              /\ s = "providers" => \A i \in Rows[s] :
                    session[i] \in {None, i, serial[s].secrets[i]}

KeysOf(i) ==
    {r \in Brings : StoreOf[r] = "providers" /\ RowOf[r] = i} \cup {None}
        \cup ({i} \cap Environment) \cup (IF i = Legacy THEN {Old} ELSE {})

(* "a DeepSeek secret can never masquerade as an OpenAI compatible secret    *)
(* (and vice versa)", as far as it is so: whatever is saved, cleared or       *)
(* migrated while a child's environment is put together, the key handed to it *)
(* is one of its provider's, and the one it uses too unless none was handed   *)
(* over; and a run, which is checked before, goes without one only where the  *)
(* key was cleared in between, or where writers that overlapped left a torn   *)
(* document that reads as the default.                                      *)
KeyStaysHome ==
    \A r \in Requests :
        LET l == request[r]
        IN  KindOfRequest[r] \in {"run", "child"} /\ StoreOf[r] = "providers" /\ l.step = "done" =>
               /\ l.key \in KeysOf(l.provider)
               /\ l.used \in KeysOf(l.provider) \/ l.key = None
               /\ KindOfRequest[r] = "run" /\ l.key = None =>
                     \/ l.provider \in Keyless \/ l.lost
                     \/ l.provider = Default /\ "providers" \in raced
=============================================================================
