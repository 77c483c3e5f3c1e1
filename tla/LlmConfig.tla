------------------------------ MODULE LlmConfig ------------------------------
(***************************************************************************)
(* The LLM settings of a process, the file that keeps them and the cached  *)
(* client: app/services/llm_config_store.py, llm/base.py, core/net_guard.py*)
(* and PUT /config/llm in api/health.py.                                   *)
(*                                                                         *)
(* A setting is "provider", "mode", "token" or a provider's <<provider,    *)
(* field>>.  The token may come with any provider, and is used by          *)
(* Anthropic's client instead of its key unless it is empty.  A secret     *)
(* that comes back masked is one that is not given.                        *)
(***************************************************************************)
EXTENDS Naturals, FiniteSets, Functions

CONSTANTS
  Providers,
  FieldValues, Urls,      \* bounds; Urls are the base URLs,
  Doubtful,          \* ... of which these may resolve to a private address
  Compat,            \* the mode that overrides the provider with Anthropic
  NotSet, NoClient, Unreadable,
  MaxUpdates,        \* bound
  MaxGiven           \* bound: settings that one update gives

VARIABLES
  settings,      \* in use
  configFile,    \* LLM_CONFIG_FILE: of a setting, a value or NotSet; or Unreadable
  client,        \* the cached client, or NoClient
  unsafe,        \* URLs that resolve to a private address now
  running,
  erred,         \* history: an update ended with an error since the client was forgotten
  unsaved,       \* history: ... or was not written to the file, since the start
  updates

llm == <<settings, configFile, client, unsafe, running, erred, unsaved, updates>>

Fields == {"model", "url", "key"}
Provider == <<"provider", "">>
Mode == <<"mode", "">>
Token == <<"token", "">>
Settings == {Provider, Mode, Token} \cup (Providers \X Fields)

ValuesOf(s) ==
  CASE s = Provider -> Providers
    [] s = Mode -> {"", Compat}
    [] s = Token -> {""} \cup FieldValues
    [] s \in Providers \X {"url"} -> Urls
    [] OTHER -> FieldValues
Default == [s \in Settings |-> IF s \in {Mode, Token} THEN "" ELSE CHOOSE v \in ValuesOf(s) : TRUE]
Empty == [s \in Settings |-> NotSet]
Contents == [Settings -> Providers \cup {"", Compat} \cup Urls \cup FieldValues \cup {NotSet}]

\* Whatever a setting may be has a value, and a file that is torn has none of it.
ASSUME LlmAssumption ==
  /\ Providers # {} /\ Urls # {} /\ FieldValues # {} /\ MaxUpdates \in Nat
  /\ Unreadable \notin Contents

LlmOK ==
  /\ \A s \in Settings : settings[s] \in ValuesOf(s)
  /\ configFile = Unreadable \/ \A s \in Settings : configFile[s] \in ValuesOf(s) \cup {NotSet}
  /\ unsafe \subseteq Doubtful
  /\ running \in BOOLEAN /\ erred \in BOOLEAN /\ unsaved \in BOOLEAN
  /\ updates \in 0..MaxUpdates

\* Settings of the environment, before a file was ever written.
LlmInit ==
  /\ settings = Default /\ configFile = Empty /\ client = NoClient /\ unsafe = {}
  /\ running = TRUE /\ erred = FALSE /\ unsaved = FALSE /\ updates = 0

-----------------------------------------------------------------------------
\* A file that cannot be read counts as empty.
Stored == IF configFile = Unreadable THEN Empty ELSE configFile

Over(base, given) == [s \in Settings |-> IF given[s] = NotSet THEN base[s] ELSE given[s]]

\* Variant: the file has only what was given last
SavedAlone(given) == given

Saved(given) == Over(Stored, given)

\* assert_safe_url: a host that is not allowed by name must not resolve to a
\* private, loopback or reserved address at the time of asking.
Refused(url) == url \in unsafe

\* One URL of the file that is refused stops the start.
StartProcess ==
  /\ ~running
  /\ \A s \in Settings : ~Refused(Stored[s])
  /\ settings' = Over(Default, Stored)
  /\ running' = TRUE /\ client' = NoClient /\ erred' = FALSE /\ unsaved' = FALSE
  /\ UNCHANGED <<configFile, unsafe, updates>>

\* An update of a provider sets the provider and whichever of the rest it gives.
Given(p) ==
  { [Empty EXCEPT ![Provider] = p, ![Mode] = v.mode, ![Token] = v.token,
                  ![<<p, "model">>] = v.model, ![<<p, "url">>] = v.url, ![<<p, "key">>] = v.key]
    : v \in [mode : {"", Compat, NotSet}, token : {"", NotSet} \cup FieldValues,
             url : Urls \cup {NotSet}, model : FieldValues \cup {NotSet},
             key : FieldValues \cup {NotSet}] }

\* All but the URL and the key are set before the URL is looked at.
UpdateRefused(p, given) ==
  /\ Refused(given[<<p, "url">>])
  /\ settings' = Over(settings, [given EXCEPT ![<<p, "url">>] = NotSet, ![<<p, "key">>] = NotSet])
  /\ erred' = TRUE /\ unsaved' = TRUE
  /\ UNCHANGED <<configFile, client>>

\* The file's directory cannot be made: the request fails with everything set.
DirectoryFails(p, given) ==
  /\ ~Refused(given[<<p, "url">>])
  /\ settings' = Over(settings, given)
  /\ erred' = TRUE /\ unsaved' = TRUE
  /\ UNCHANGED <<configFile, client>>

\* A failure to write the file, which may leave it torn, is only logged.
Update(p, given) ==
  /\ ~Refused(given[<<p, "url">>])
  /\ settings' = Over(settings, given)
  /\ client' = NoClient /\ erred' = FALSE
  /\ \/ configFile' = Saved(given) /\ UNCHANGED unsaved
     \/ configFile' \in {configFile, Unreadable} /\ unsaved' = TRUE

UpdateConfig(p) ==
  /\ running /\ updates < MaxUpdates /\ updates' = updates + 1
  /\ \E given \in Given(p) :
       /\ Cardinality({s \in Settings : given[s] # NotSet}) <= MaxGiven
       /\ UpdateRefused(p, given) \/ DirectoryFails(p, given) \/ Update(p, given)
  /\ UNCHANGED <<unsafe, running>>

\* The process ends while it writes the file, or at any other time.
StopProcess ==
  /\ running /\ running' = FALSE /\ client' = NoClient
  /\ configFile' \in {configFile, Unreadable}
  /\ UNCHANGED <<settings, unsafe, erred, unsaved, updates>>

Used == IF settings[Mode] = Compat THEN "anthropic" ELSE settings[Provider]
SecretOf(p) ==
  IF p = "anthropic" /\ settings[Token] # "" THEN settings[Token] ELSE settings[<<p, "key">>]
Chosen == [provider |-> Used, model |-> settings[<<Used, "model">>],
           url |-> settings[<<Used, "url">>], key |-> SecretOf(Used)]

\* The URL is looked at again, and nothing is cached when it is refused.
GetLlm ==
  /\ running /\ client = NoClient /\ ~Refused(settings[<<Used, "url">>])
  /\ client' = Chosen
  /\ UNCHANGED <<settings, configFile, unsafe, running, erred, unsaved, updates>>

Resolve ==
  /\ unsafe' \in SUBSET Doubtful /\ unsafe' # unsafe
  /\ UNCHANGED <<settings, configFile, client, running, erred, unsaved, updates>>

LlmNext ==
  \/ StartProcess \/ StopProcess \/ GetLlm \/ Resolve
  \/ \E p \in Providers : UpdateConfig(p)

LlmSpec == LlmInit /\ [][LlmNext]_llm

-----------------------------------------------------------------------------
\* An assessment talks to the model that the settings name, unless an update
\* has ended with an error since the client was last forgotten; and a restart
\* brings the same settings back, unless an update ended with an error or its
\* file was not written since the last start (update_provider_config).
SettingsInForce ==
  running => /\ (client # NoClient /\ ~erred) => client = Chosen
             /\ ~unsaved => settings = Over(Default, Stored)
=============================================================================
