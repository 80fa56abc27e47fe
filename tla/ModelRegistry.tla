--------------------------- MODULE ModelRegistry ---------------------------
(***************************************************************************)
(* The model registry of the API process, src/core/models/registry.py:     *)
(* providers are connected, models selected, and both written to           *)
(* model_config.json.  Requests are coroutines: one that connects a        *)
(* provider changes the registry, awaits the provider's list of models,    *)
(* saves, and is answered; others run meanwhile.                           *)
(*                                                                         *)
(* A configuration is an address with its key; a list of models is known   *)
(* by the configuration it was fetched with.                               *)
(***************************************************************************)
EXTENDS Naturals

CONSTANTS
  LmStudio,      \* the provider lmstudio
  Dynamic,       \* providers that list their models themselves: lmstudio, ollama
  Compatible,    \* providers asked over the OpenAI protocol when they have an address
  Homeless,      \* those of them without a default address: azure, huggingface
  Fixed,         \* providers whose models only litellm lists: anthropic, bedrock, vertex_ai
  Configs,       \* configurations a client may send, each with an address
  Bare,          \* a configuration without one, for a provider that has no default
  Tasks,         \* task types
  Requests,      \* bound: requests in flight at a time
  NoConfig, Static, Empty,  \* not configured; litellm's list; no models
  NoEntry, Idle, InDoubt,   \* nothing selected; no request; no answer to rely on
  Torn,          \* a configuration file that cannot be parsed
  MaxFaults      \* bound: processes killed and failing writes

Providers == Dynamic \cup Compatible \cup Fixed
Settings == Configs \cup {Bare}

\* What a request can change.
Keys == Providers \cup Tasks

Entries == [provider : Providers, base : Settings \cup {NoConfig},
            listed : Configs \cup {Static}]
Values == Settings \cup Entries \cup {NoConfig, NoEntry}
Configurations ==
  {c \in [Providers -> Settings \cup {NoConfig}] :
     \A p \in Providers : c[p] = Bare => p \in Homeless \cup Fixed}
Snapshots == [configs : Configurations,
              selected : [Tasks -> Entries \cup {NoEntry}]]

\* A request about a key: what it sets it to, whether it awaits a list or has
\* saved, and whether it was the only one about the key all along.
Calls == [about : Providers, value : Configs, stage : {"listing"}, alone : BOOLEAN]
         \cup [about : Providers, value : Settings, stage : {"saved"}, alone : BOOLEAN]
         \cup [about : Tasks, value : Entries, stage : {"saved"}, alone : BOOLEAN]

ASSUME KindsAssumption ==
  /\ LmStudio \in Dynamic /\ Homeless \subseteq Compatible
  /\ {Dynamic \cap Compatible, Dynamic \cap Fixed, Compatible \cap Fixed,
      Providers \cap Tasks} = {{}}
ASSUME NamesAssumption ==
  /\ {NoConfig, Static, Empty, Bare} \cap Configs = {}
  /\ NoConfig \notin {Static, Empty, Bare} /\ Static \notin {Empty, Bare} /\ Empty # Bare
  /\ NoEntry \notin Entries /\ Idle \notin Calls /\ Torn \notin Snapshots
  /\ InDoubt \notin Values
ASSUME BoundAssumption == MaxFaults \in Nat

VARIABLES
  up,         \* "down", "refreshing", "serving", or "hung"
  configs,    \* _configs
  models,     \* _models: the configuration each list was fetched with
  selected,   \* _selected
  file,       \* model_config.json: what was saved, or torn
  call,       \* call[r]: what request r is about
  unsaved,    \* history: the process's last write of the file failed
  told,       \* history: what the last answer about each key said; in doubt once a
              \* request set the key that was not answered yet, was answered with an
              \* error, or had another one about the key beside it
  contended,  \* history: providers of whose list requests overlapped
  restored,   \* history: compatible providers read from the file with an address
  faults

history == <<told, contended, restored>>
vars == <<up, configs, models, selected, file, call, unsaved, history, faults>>

NoConfigs == [p \in Providers |-> NoConfig]
NoEntries == [t \in Tasks |-> NoEntry]
Snapshot(c, s) == [configs |-> c, selected |-> s]
Nothing == Snapshot(NoConfigs, NoEntries)
Memory == Snapshot(configs, selected)

Value(snapshot, key) ==
  IF key \in Providers THEN snapshot.configs[key] ELSE snapshot.selected[key]

\* What _load_config reads; it swallows the error of a file it cannot parse.
Loaded == IF file = Torn THEN Nothing ELSE file

\* Every provider but the dynamic ones starts with litellm's list.
FirstModels == [p \in Providers |-> IF p \in Dynamic THEN Empty ELSE Static]

Fault == faults < MaxFaults /\ faults' = faults + 1

Busy(r) == call[r] # Idle
Listing(r) == Busy(r) /\ call[r].stage = "listing"
Connecting(p) == \E r \in Requests : Listing(r) /\ call[r].about = p

-----------------------------------------------------------------------------
Init ==
  /\ up = "down"
  /\ configs = NoConfigs
  /\ models = FirstModels
  /\ selected = NoEntries
  /\ file = Nothing
  /\ call = [r \in Requests |-> Idle]
  /\ unsaved = FALSE
  /\ told = [k \in Keys |-> Value(Nothing, k)]
  /\ contended = {}
  /\ restored = {}
  /\ faults = 0

\* Nothing told is to be relied on when the file was torn.
AfterLoad == IF file = Torn THEN [k \in Keys |-> InDoubt] ELSE told

\* Mutant: the selection is not read back.
LoadConfigsOnly ==
  /\ up = "down"
  /\ up' = "refreshing"
  /\ configs' = Loaded.configs
  /\ selected' = NoEntries
  /\ models' = FirstModels
  /\ told' = AfterLoad
  /\ UNCHANGED <<file, call, unsaved, contended, restored, faults>>

\* _load_config, at import.  Compatible providers get litellm's list, those
\* with an address of their own, too.
Load ==
  /\ up = "down"
  /\ up' = "refreshing"
  /\ configs' = Loaded.configs
  /\ selected' = Loaded.selected
  /\ models' = FirstModels
  /\ restored' = restored \cup {p \in Compatible : Loaded.configs[p] \in Configs}
  /\ told' = AfterLoad
  /\ UNCHANGED <<file, call, unsaved, contended, faults>>

\* _refresh_dynamic_providers, before requests are served.  A provider that
\* does not answer has no models.
Refresh ==
  /\ up = "refreshing"
  /\ up' = "serving"
  /\ \E silent \in SUBSET Dynamic :
       models' = [p \in Providers |->
         IF p \in Dynamic /\ configs[p] # NoConfig
         THEN IF p \in silent THEN Empty ELSE configs[p]
         ELSE models[p]]
  /\ UNCHANGED <<configs, selected, file, call, unsaved, history, faults>>

\* The requests with r, about key now, in the given stage.
Started(r, key, value, stage) ==
  LET About(q) == Busy(q) /\ call[q].about = key
  IN  [q \in Requests |->
         IF q = r THEN [about |-> key, value |-> value, stage |-> stage,
                        alone |-> ~\E o \in Requests : About(o)]
         ELSE IF About(q) THEN [call[q] EXCEPT !.alone = FALSE]
         ELSE call[q]]

\* _save_config for request r, the requests being calls then.  A write that
\* raises leaves the file as it was, or torn; the request is over, and its
\* client gets an error.
Save(r, calls) ==
  \/ /\ file' = Memory'
     /\ unsaved' = FALSE
     /\ call' = calls
     /\ UNCHANGED faults
  \/ /\ Fault
     /\ file' \in {file, Torn}
     /\ unsaved' = TRUE
     /\ call' = [calls EXCEPT ![r] = Idle]

\* Requests about the list of p overlap if one that awaits it is in flight.
Contend(p) ==
  contended' = IF Connecting(p) THEN contended \cup {p} ELSE contended

\* connect_provider up to the await.  Without one, where only litellm lists the
\* models, it saves at once.
Connect(r, p, setting) ==
  /\ up = "serving"
  /\ ~Busy(r)
  /\ setting = Bare => p \in Homeless \cup Fixed
  /\ configs' = [configs EXCEPT ![p] = setting]
  /\ told' = [told EXCEPT ![p] = InDoubt]
  /\ Contend(p)
  /\ UNCHANGED <<up, selected, restored>>
  /\ \/ /\ p \in Fixed \/ setting = Bare
        /\ models' = [models EXCEPT ![p] = Static]
        /\ Save(r, Started(r, p, setting, "saved"))
     \/ /\ p \notin Fixed /\ setting # Bare
        /\ call' = Started(r, p, setting, "listing")
        /\ UNCHANGED <<models, file, unsaved, faults>>

Answering(r) == [call EXCEPT ![r].stage = "saved"]

\* Mutant: the new list is not saved.
FetchedUnsaved(r) ==
  /\ up = "serving"
  /\ Listing(r)
  /\ \E list \in {call[r].value, Empty} :
       models' = [models EXCEPT ![call[r].about] = list]
  /\ call' = Answering(r)
  /\ UNCHANGED <<up, configs, selected, file, unsaved, history, faults>>

\* Mutant: a provider that does not answer keeps the models it had.
FetchedOrKept(r) ==
  /\ up = "serving"
  /\ Listing(r)
  /\ \E list \in {call[r].value, models[call[r].about]} :
       models' = [models EXCEPT ![call[r].about] = list]
  /\ UNCHANGED <<up, configs, selected, history>>
  /\ Save(r, Answering(r))

\* connect_provider after the await; a failed fetch is an empty list.
Fetched(r) ==
  /\ up = "serving"
  /\ Listing(r)
  /\ \E list \in {call[r].value, Empty} :
       models' = [models EXCEPT ![call[r].about] = list]
  /\ UNCHANGED <<up, configs, selected, history>>
  /\ Save(r, Answering(r))

\* LM Studio lists models, but none for embeddings: the loop of
\* _fetch_lmstudio_models appends to the list it walks over, for ever, and the
\* event loop stands still.
FetchHangs ==
  /\ \/ up = "refreshing" /\ configs[LmStudio] # NoConfig
     \/ up = "serving" /\ Connecting(LmStudio)
  /\ up' = "hung"
  /\ UNCHANGED <<configs, models, selected, file, call, unsaved, history, faults>>

\* Mutant: the address is the provider's default.
SelectDefault(r, t, p) ==
  LET entry == [provider |-> p, base |-> NoConfig, listed |-> models[p]]
  IN  /\ up = "serving"
      /\ ~Busy(r)
      /\ models[p] # Empty
      /\ selected' = [selected EXCEPT ![t] = entry]
      /\ told' = [told EXCEPT ![t] = InDoubt]
      /\ Contend(p)
      /\ UNCHANGED <<up, configs, models, restored>>
      /\ Save(r, Started(r, t, entry, "saved"))

\* select_model: a model of the provider's list, at the address it has now.
Select(r, t, p) ==
  LET entry == [provider |-> p, base |-> configs[p], listed |-> models[p]]
  IN  /\ up = "serving"
      /\ ~Busy(r)
      /\ models[p] # Empty
      /\ selected' = [selected EXCEPT ![t] = entry]
      /\ told' = [told EXCEPT ![t] = InDoubt]
      /\ Contend(p)
      /\ UNCHANGED <<up, configs, models, restored>>
      /\ Save(r, Started(r, t, entry, "saved"))

\* The client of r gets its answer.
Answer(r) ==
  LET key == call[r].about
  IN  /\ up = "serving"
      /\ Busy(r) /\ ~Listing(r)
      /\ told' = IF call[r].alone THEN [told EXCEPT ![key] = call[r].value] ELSE told
      /\ call' = [call EXCEPT ![r] = Idle]
      /\ UNCHANGED <<up, configs, models, selected, file, unsaved, contended,
                     restored, faults>>

\* The process is killed and its memory lost.  write_text empties the file
\* before it writes: killed in between, it leaves a torn one.
Die(tears) ==
  /\ Fault
  /\ up # "down"
  /\ up' = "down"
  /\ tears => up = "serving"
  /\ file' = IF tears THEN Torn ELSE file
  /\ call' = [r \in Requests |-> Idle]
  /\ configs' = NoConfigs
  /\ models' = FirstModels
  /\ selected' = NoEntries
  /\ unsaved' = FALSE
  /\ UNCHANGED history

Next ==
  \/ Load \/ Refresh \/ FetchHangs
  \/ \E r \in Requests :
       \/ \E p \in Providers, setting \in Settings : Connect(r, p, setting)
       \/ \E t \in Tasks, p \in Providers : Select(r, t, p)
       \/ Fetched(r)
       \/ Answer(r)
  \/ \E tears \in BOOLEAN : Die(tears)

Spec == Init /\ [][Next]_vars

-----------------------------------------------------------------------------
(* Properties                                                              *)

TypeOK ==
  /\ up \in {"down", "refreshing", "serving", "hung"}
  /\ configs \in Configurations
  /\ models \in [Providers -> Configs \cup {Static, Empty}]
  /\ selected \in [Tasks -> Entries \cup {NoEntry}]
  /\ file \in Snapshots \cup {Torn}
  /\ call \in [Requests -> Calls \cup {Idle}]
  /\ up \in {"down", "refreshing"} => \A r \in Requests : ~Busy(r)
  /\ unsaved \in BOOLEAN
  /\ told \in [Keys -> Values \cup {InDoubt}]
  /\ contended \subseteq Providers
  /\ restored \subseteq Compatible
  /\ faults \in 0..MaxFaults

\* A restart would bring back exactly the providers and selections in memory,
\* whatever requests overlapped before and whatever state the file was found
\* in, unless a connection awaits its list or the last write of the file failed.
FileIsCurrent ==
  up = "serving" /\ ~unsaved /\ (\A r \in Requests : ~Listing(r)) => Loaded = Memory

\* What clients were told survives restarts: after one, each provider and each
\* selection is as the last answer about it said, unless a request set it since
\* and was killed or refused, two requests about it overlapped, or a killed
\* process or a full disk had left the file torn.
AnswersSurviveRestarts ==
  up = "refreshing" => \A k \in Keys : told[k] \in {Value(Memory, k), InDoubt}

\* No address is asked for the models of p, only litellm's list is used: nothing
\* else lists them, p has no address, or p was never connected.
NeedsNoList(p, setting) == p \in Fixed \/ setting \in {NoConfig, Bare}

\* A provider is never left with the models of a configuration that was
\* replaced, unless its own requests overlapped; it has litellm's list only
\* where nothing else lists its models, or since a restart.
ModelsFollowConfig ==
  \A p \in Providers \ contended :
    up = "serving" /\ ~Connecting(p) =>
      \/ models[p] \in {configs[p], Empty}
      \/ models[p] = Static /\ (NeedsNoList(p, configs[p]) \/ p \in restored)

\* A selected model was listed by the address it will be asked for at, or stood
\* in litellm's list where no address is asked; unless it was selected while
\* its provider was being connected, or a restart had given the provider
\* litellm's list in place of what its own address serves.
SelectedModelIsServed ==
  \A t \in Tasks : selected[t] # NoEntry /\ selected[t].provider \notin contended =>
    \/ selected[t].listed = selected[t].base
    \/ /\ selected[t].listed = Static
       /\ \/ NeedsNoList(selected[t].provider, selected[t].base)
          \/ selected[t].provider \in restored

=============================================================================
