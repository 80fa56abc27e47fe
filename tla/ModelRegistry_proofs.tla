------------------------ MODULE ModelRegistry_proofs ------------------------
(***************************************************************************)
(* Proofs about ModelRegistry for all sets of providers, configurations,   *)
(* task types and requests in flight.                                      *)
(*                                                                         *)
(* What is read from the file must be as sound as what is in memory, since *)
(* a restart makes one of the other: each invariant below speaks of both.  *)
(***************************************************************************)
EXTENDS ModelRegistry, TLAPS

USE KindsAssumption, NamesAssumption, BoundAssumption

\* The file holds memory unless a list is awaited or a write failed.
Saved == up # "down" /\ ~unsaved /\ (\A r \in Requests : ~Listing(r)) => Loaded = Memory

\* What was told is in memory and in the file.
Sure(k) ==
  told[k] # InDoubt => /\ file # Torn => Value(file, k) = told[k]
                       /\ up # "down" => Value(Memory, k) = told[k]

\* What request r, alone about its key, set is in memory, and once it has
\* saved in the file.
Lone(r) ==
  Busy(r) /\ call[r].alone =>
    /\ Value(Memory, call[r].about) = call[r].value
    /\ ~Listing(r) /\ file # Torn => Value(file, call[r].about) = call[r].value
    /\ \A q \in Requests : Busy(q) /\ call[q].about = call[r].about => q = r

Kept ==
  /\ \A k \in Keys : Sure(k)
  /\ \A r \in Requests : Busy(r) => told[call[r].about] = InDoubt
  /\ \A r \in Requests : Lone(r)

\* The list that the only request about a provider awaits is of its
\* configuration.
Awaited(r) ==
  Listing(r) /\ call[r].about \notin contended =>
    /\ call[r].value = configs[call[r].about]
    /\ \A q \in Requests : Listing(q) /\ call[q].about = call[r].about => q = r

\* The list that a provider has is of its configuration.
Followed ==
  /\ up = "refreshing" => /\ models = FirstModels
                          /\ \A p \in Compatible : configs[p] \in Configs => p \in restored
  /\ ModelsFollowConfig
  /\ \A r \in Requests : Awaited(r)

Fits(entry) ==
  \/ entry.listed = entry.base
  \/ /\ entry.listed = Static
     /\ NeedsNoList(entry.provider, entry.base) \/ entry.provider \in restored

ServedIn(s) ==
  \A t \in Tasks : s[t] # NoEntry /\ s[t].provider \notin contended => Fits(s[t])

Served == ServedIn(selected) /\ ServedIn(Loaded.selected)

-----------------------------------------------------------------------------
(* What the operators of the actions do                                    *)

LEMMA Disjoint ==
  /\ Dynamic \cap Compatible = {} /\ Dynamic \cap Fixed = {}
  /\ Compatible \cap Fixed = {} /\ Providers \cap Tasks = {}
<1>1. \A s \in {Dynamic \cap Compatible, Dynamic \cap Fixed, Compatible \cap Fixed,
               Providers \cap Tasks} : s = {}
  BY Zenon
<1> QED
  BY <1>1, Zenon

LEMMA NothingType == Nothing \in Snapshots
BY DEF Nothing, NoConfigs, NoEntries, Snapshot, Snapshots, Configurations

LEMMA LoadedType == TypeOK => Loaded \in Snapshots
BY NothingType DEF TypeOK, Loaded

LEMMA MemoryType == TypeOK => Memory \in Snapshots
BY DEF TypeOK, Memory, Snapshot, Snapshots

\* Calls, one field at a time.
LEMMA CallFacts ==
  ASSUME TypeOK, NEW r \in Requests, Busy(r)
  PROVE  /\ call[r] \in Calls
         /\ call[r].about \in Keys
         /\ call[r].alone \in BOOLEAN
         /\ call[r].stage \in {"listing", "saved"}
         /\ Listing(r) => call[r].about \in Providers /\ call[r].value \in Configs
         /\ call[r].about \in Providers => call[r].value \in Settings
         /\ call[r].about \in Tasks => call[r].value \in Entries
<1>1. call[r] \in Calls
  BY DEF TypeOK, Busy
<1>2. CASE call[r] \in [about : Providers, value : Configs, stage : {"listing"},
                       alone : BOOLEAN]
  BY <1>1, <1>2, Disjoint DEF Listing, Keys, Settings
<1>3. CASE call[r] \in [about : Providers, value : Settings, stage : {"saved"},
                       alone : BOOLEAN]
  BY <1>1, <1>3, Disjoint DEF Listing, Keys
<1>4. CASE call[r] \in [about : Tasks, value : Entries, stage : {"saved"},
                       alone : BOOLEAN]
  BY <1>1, <1>4, Disjoint DEF Listing, Keys
<1> QED
  BY <1>1, <1>2, <1>3, <1>4 DEF Calls

\* A request about key started, or was refused for its write: the others are
\* as they were, but not alone about the key.
Began(r, key, value, stage) ==
  /\ call'[r] # Idle =>
       /\ call'[r].about = key /\ call'[r].value = value /\ call'[r].stage = stage
       /\ call'[r].alone => \A q \in Requests : Busy(q) => call[q].about # key
  /\ \A q \in Requests \ {r} :
       /\ Busy(q)' <=> Busy(q)
       /\ Busy(q) => /\ call'[q].about = call[q].about
                     /\ call'[q].value = call[q].value
                     /\ call'[q].stage = call[q].stage
                     /\ call'[q].alone => call[q].alone /\ call[q].about # key

LEMMA StartedType ==
  ASSUME TypeOK, NEW r \in Requests, NEW key, NEW value, NEW stage,
         [about |-> key, value |-> value, stage |-> stage, alone |-> TRUE] \in Calls,
         [about |-> key, value |-> value, stage |-> stage, alone |-> FALSE] \in Calls
  PROVE  Started(r, key, value, stage) \in [Requests -> Calls \cup {Idle}]
<1> DEFINE About(q) == Busy(q) /\ call[q].about = key
           calls == Started(r, key, value, stage)
           new == [about |-> key, value |-> value, stage |-> stage,
                   alone |-> ~\E o \in Requests : About(o)]
<1>1. new \in Calls
  <2>1. CASE \E o \in Requests : About(o)
    BY <2>1, Zenon
  <2>2. CASE ~\E o \in Requests : About(o)
    BY <2>2, Zenon
  <2> QED
    BY <2>1, <2>2
<1>2. ASSUME NEW q \in Requests, Busy(q)
      PROVE  [call[q] EXCEPT !.alone = FALSE] \in Calls
  BY <1>2, CallFacts DEF Calls
<1>3. ASSUME NEW q \in Requests
      PROVE  (IF q = r THEN new ELSE IF About(q) THEN [call[q] EXCEPT !.alone = FALSE]
              ELSE call[q]) \in Calls \cup {Idle}
  BY <1>1, <1>2 DEF TypeOK
<1> QED
  BY <1>3, Zenon DEF Started

LEMMA StartedBegan ==
  ASSUME TypeOK, NEW r \in Requests, NEW key, NEW value, NEW stage,
         \/ call' = Started(r, key, value, stage)
         \/ call' = [Started(r, key, value, stage) EXCEPT ![r] = Idle],
         [about |-> key, value |-> value, stage |-> stage, alone |-> TRUE] \in Calls,
         [about |-> key, value |-> value, stage |-> stage, alone |-> FALSE] \in Calls
  PROVE  Began(r, key, value, stage)
<1> DEFINE About(q) == Busy(q) /\ call[q].about = key
           calls == Started(r, key, value, stage)
<1>1. calls[r] = [about |-> key, value |-> value, stage |-> stage,
                  alone |-> ~\E o \in Requests : About(o)]
  BY DEF Started
<1>2. \A q \in Requests \ {r} :
        calls[q] = IF About(q) THEN [call[q] EXCEPT !.alone = FALSE] ELSE call[q]
  BY DEF Started
<1>3. call'[r] # Idle => call'[r] = calls[r]
  BY StartedType, Zenon
<1>4. \A q \in Requests \ {r} : call'[q] = calls[q]
  BY StartedType
<1>5. ASSUME call'[r] # Idle
      PROVE  /\ call'[r].about = key /\ call'[r].value = value /\ call'[r].stage = stage
             /\ call'[r].alone => \A q \in Requests : Busy(q) => call[q].about # key
  <2> HIDE DEF calls
  <2>1. /\ call'[r].about = key /\ call'[r].value = value /\ call'[r].stage = stage
        /\ call'[r].alone = ~\E o \in Requests : About(o)
    BY <1>1, <1>3, <1>5
  <2> QED
    BY <2>1
<1>6. ASSUME NEW q \in Requests \ {r}
      PROVE  /\ Busy(q)' <=> Busy(q)
             /\ Busy(q) => /\ call'[q].about = call[q].about
                           /\ call'[q].value = call[q].value
                           /\ call'[q].stage = call[q].stage
                           /\ call'[q].alone => call[q].alone /\ call[q].about # key
  <2> HIDE DEF calls
  <2>1. CASE About(q)
    <3>1. call'[q] = [call[q] EXCEPT !.alone = FALSE]
      BY <1>2, <1>4, <2>1
    <3>2. call[q] \in Calls
      BY <2>1, CallFacts
    <3>3. /\ call'[q] \in Calls
          /\ call'[q].about = call[q].about /\ call'[q].value = call[q].value
          /\ call'[q].stage = call[q].stage /\ call'[q].alone = FALSE
      BY <3>1, <3>2 DEF Calls
    <3> QED
      BY <2>1, <3>3 DEF Busy
  <2>2. CASE ~About(q)
    <3>1. call'[q] = call[q]
      BY <1>2, <1>4, <2>2
    <3> QED
      BY <2>2, <3>1 DEF Busy
  <2> QED
    BY <2>1, <2>2
<1> QED
  BY <1>5, <1>6 DEF Began

\* A write leaves memory in the file and the request saved, or an old or torn
\* file and the request over.
LEMMA SaveFacts ==
  ASSUME TypeOK', NEW r \in Requests, NEW calls, Save(r, calls)
  PROVE  \/ file' = Memory' /\ file' # Torn /\ ~unsaved' /\ call' = calls
         \/ file' \in {file, Torn} /\ unsaved' /\ call' = [calls EXCEPT ![r] = Idle]
<1>1. Memory' # Torn
  BY DEF TypeOK, Memory, Snapshot, Snapshots
<1> QED
  BY <1>1 DEF Save

-----------------------------------------------------------------------------
(* Types                                                                   *)

LEMMA TypeInit == Init => TypeOK
<1> SUFFICES ASSUME Init PROVE TypeOK
  OBVIOUS
<1>1. configs \in Configurations /\ selected \in [Tasks -> Entries \cup {NoEntry}]
  BY DEF Init, NoConfigs, NoEntries, Configurations
<1>2. models \in [Providers -> Configs \cup {Static, Empty}]
  BY DEF Init, FirstModels
<1>3. call \in [Requests -> Calls \cup {Idle}] /\ \A r \in Requests : ~Busy(r)
  BY DEF Init, Busy
<1>4. faults \in 0..MaxFaults
  BY SMT DEF Init
<1>5. unsaved \in BOOLEAN /\ contended \subseteq Providers /\ restored \subseteq Compatible
  BY Zenon DEF Init
<1>6. file \in Snapshots
  BY NothingType DEF Init
<1>7. told \in [Keys -> Values \cup {InDoubt}]
  BY DEF Init, Keys, Values, Value, Nothing, Snapshot, NoConfigs, NoEntries
<1> QED
  BY <1>1, <1>2, <1>3, <1>4, <1>5, <1>6, <1>7 DEF Init, TypeOK

\* A write keeps the types that the rest of its action kept.
LEMMA SaveType ==
  ASSUME TypeOK, NEW r \in Requests, NEW calls \in [Requests -> Calls \cup {Idle}],
         Save(r, calls), configs' \in Configurations,
         selected' \in [Tasks -> Entries \cup {NoEntry}]
  PROVE  /\ file' \in Snapshots \cup {Torn}
         /\ call' \in [Requests -> Calls \cup {Idle}]
         /\ unsaved' \in BOOLEAN
         /\ faults' \in 0..MaxFaults
<1>1. Memory' \in Snapshots
  BY DEF Memory, Snapshot, Snapshots
<1>2. CASE file' = Memory' /\ unsaved' = FALSE /\ call' = calls /\ UNCHANGED faults
  BY <1>1, <1>2, Zenon DEF TypeOK
<1>3. CASE /\ Fault /\ file' \in {file, Torn} /\ unsaved' = TRUE
           /\ call' = [calls EXCEPT ![r] = Idle]
  <2>1. faults' \in 0..MaxFaults
    BY <1>3 DEF Fault, TypeOK
  <2>2. call' \in [Requests -> Calls \cup {Idle}]
    BY <1>3
  <2> QED
    BY <1>3, <2>1, <2>2, Zenon DEF TypeOK
<1> QED
  BY <1>2, <1>3 DEF Save

LEMMA TypeStep == TypeOK /\ [Next]_vars => TypeOK'
<1> SUFFICES ASSUME TypeOK, [Next]_vars PROVE TypeOK'
  OBVIOUS
<1>1. CASE Load
  <2>1. Loaded \in Snapshots
    BY LoadedType
  <2>2. configs' \in Configurations /\ selected' \in [Tasks -> Entries \cup {NoEntry}]
    BY <1>1, <2>1 DEF Load, Snapshots
  <2>3. told' \in [Keys -> Values \cup {InDoubt}]
    BY <1>1 DEF Load, AfterLoad, TypeOK
  <2>4. restored' \subseteq Compatible
    BY <1>1 DEF Load, TypeOK
  <2>5. models' \in [Providers -> Configs \cup {Static, Empty}]
    BY <1>1 DEF Load, FirstModels
  <2> QED
    BY <1>1, <2>2, <2>3, <2>4, <2>5 DEF Load, TypeOK, Busy
<1>2. CASE Refresh
  <2>1. \A p \in Providers : p \in Dynamic /\ configs[p] # NoConfig => configs[p] \in Configs
    BY Disjoint DEF TypeOK, Configurations, Settings
  <2>2. models' \in [Providers -> Configs \cup {Static, Empty}]
    BY <1>2, <2>1 DEF Refresh, TypeOK
  <2> QED
    BY <1>2, <2>2 DEF Refresh, TypeOK, history, Busy
<1>3. CASE FetchHangs
  BY <1>3 DEF FetchHangs, TypeOK, history, Busy
<1>4. ASSUME NEW r \in Requests, NEW p \in Providers, NEW setting \in Settings,
             Connect(r, p, setting)
      PROVE  TypeOK'
  <2>1. configs' \in Configurations /\ selected' \in [Tasks -> Entries \cup {NoEntry}]
    BY <1>4 DEF Connect, TypeOK, Configurations
  <2>2. told' \in [Keys -> Values \cup {InDoubt}]
    BY <1>4 DEF Connect, TypeOK
  <2>3. contended' \subseteq Providers
    BY <1>4 DEF Connect, Contend, TypeOK
  <2>4. CASE /\ p \in Fixed \/ setting = Bare
             /\ models' = [models EXCEPT ![p] = Static]
             /\ Save(r, Started(r, p, setting, "saved"))
    <3>1. \A b \in BOOLEAN :
            [about |-> p, value |-> setting, stage |-> "saved", alone |-> b] \in Calls
      BY DEF Calls
    <3>2. Started(r, p, setting, "saved") \in [Requests -> Calls \cup {Idle}]
      BY <3>1, StartedType
    <3>3. /\ file' \in Snapshots \cup {Torn}
          /\ call' \in [Requests -> Calls \cup {Idle}]
          /\ unsaved' \in BOOLEAN
          /\ faults' \in 0..MaxFaults
      BY <2>1, <2>4, <3>2, SaveType
    <3>4. models' \in [Providers -> Configs \cup {Static, Empty}]
      BY <2>4 DEF TypeOK
    <3> QED
      BY <1>4, <2>1, <2>2, <2>3, <3>3, <3>4 DEF Connect, TypeOK
  <2>5. CASE /\ p \notin Fixed /\ setting # Bare
             /\ call' = Started(r, p, setting, "listing")
             /\ UNCHANGED <<models, file, unsaved, faults>>
    <3>1. \A b \in BOOLEAN :
            [about |-> p, value |-> setting, stage |-> "listing", alone |-> b] \in Calls
      BY <2>5 DEF Calls, Settings
    <3>2. call' \in [Requests -> Calls \cup {Idle}]
      BY <2>5, <3>1, StartedType
    <3> QED
      BY <1>4, <2>1, <2>2, <2>3, <2>5, <3>2 DEF Connect, TypeOK
  <2> QED
    BY <1>4, <2>4, <2>5 DEF Connect
<1>5. ASSUME NEW r \in Requests, Fetched(r)
      PROVE  TypeOK'
  <2>1. Busy(r) /\ call[r].about \in Providers /\ call[r].value \in Configs
    BY <1>5, CallFacts DEF Fetched, Listing
  <2>2. models' \in [Providers -> Configs \cup {Static, Empty}]
    BY <1>5, <2>1 DEF Fetched, TypeOK
  <2>3. [call[r] EXCEPT !.stage = "saved"] \in Calls
    BY <2>1, CallFacts DEF Calls, Settings
  <2>4. Answering(r) \in [Requests -> Calls \cup {Idle}]
    BY <2>3 DEF Answering, TypeOK
  <2>5. configs' \in Configurations /\ selected' \in [Tasks -> Entries \cup {NoEntry}]
    BY <1>5 DEF Fetched, TypeOK
  <2>6. /\ file' \in Snapshots \cup {Torn}
        /\ call' \in [Requests -> Calls \cup {Idle}]
        /\ unsaved' \in BOOLEAN
        /\ faults' \in 0..MaxFaults
    BY <1>5, <2>4, <2>5, SaveType DEF Fetched
  <2> QED
    BY <1>5, <2>2, <2>5, <2>6 DEF Fetched, TypeOK, history
<1>6. ASSUME NEW r \in Requests, NEW t \in Tasks, NEW p \in Providers, Select(r, t, p)
      PROVE  TypeOK'
  <2> DEFINE entry == [provider |-> p, base |-> configs[p], listed |-> models[p]]
  <2>1. entry \in Entries
    BY <1>6 DEF Select, Entries, TypeOK, Configurations
  <2> HIDE DEF entry
  <2>2. selected' \in [Tasks -> Entries \cup {NoEntry}] /\ configs' \in Configurations
    BY <1>6, <2>1 DEF Select, TypeOK, entry
  <2>3. told' \in [Keys -> Values \cup {InDoubt}]
    BY <1>6 DEF Select, TypeOK
  <2>4. contended' \subseteq Providers
    BY <1>6 DEF Select, Contend, TypeOK
  <2>5. \A b \in BOOLEAN :
          [about |-> t, value |-> entry, stage |-> "saved", alone |-> b] \in Calls
    BY <2>1 DEF Calls
  <2>6. Started(r, t, entry, "saved") \in [Requests -> Calls \cup {Idle}]
    BY <2>5, StartedType
  <2>7. Save(r, Started(r, t, entry, "saved"))
    BY <1>6 DEF Select, entry
  <2>8. /\ file' \in Snapshots \cup {Torn}
        /\ call' \in [Requests -> Calls \cup {Idle}]
        /\ unsaved' \in BOOLEAN
        /\ faults' \in 0..MaxFaults
    BY <2>2, <2>6, <2>7, SaveType
  <2> QED
    BY <1>6, <2>2, <2>3, <2>4, <2>8 DEF Select, TypeOK
<1>7. ASSUME NEW r \in Requests, Answer(r)
      PROVE  TypeOK'
  <2>1. call[r].value \in Values
    <3>1. Busy(r)
      BY <1>7 DEF Answer
    <3> QED
      BY <3>1, CallFacts DEF Values, Keys
  <2>2. told' \in [Keys -> Values \cup {InDoubt}]
    BY <1>7, <2>1 DEF Answer, TypeOK
  <2>3. call' \in [Requests -> Calls \cup {Idle}]
    BY <1>7 DEF Answer, TypeOK
  <2> QED
    BY <1>7, <2>2, <2>3 DEF Answer, TypeOK
<1>8. ASSUME NEW tears \in BOOLEAN, Die(tears)
      PROVE  TypeOK'
  <2>1. configs' \in Configurations /\ selected' \in [Tasks -> Entries \cup {NoEntry}]
    BY <1>8 DEF Die, NoConfigs, NoEntries, Configurations
  <2>2. models' \in [Providers -> Configs \cup {Static, Empty}]
    BY <1>8 DEF Die, FirstModels
  <2>3. faults' \in 0..MaxFaults
    BY <1>8 DEF Die, Fault, TypeOK
  <2>4. call' \in [Requests -> Calls \cup {Idle}] /\ \A r \in Requests : ~Busy(r)'
    BY <1>8 DEF Die, Busy
  <2>5. file' \in Snapshots \cup {Torn}
    BY <1>8 DEF Die, TypeOK
  <2> QED
    BY <1>8, <2>1, <2>2, <2>3, <2>4, <2>5 DEF Die, TypeOK, history
<1>9. CASE UNCHANGED vars
  BY <1>9 DEF vars, history, TypeOK, Busy
<1> QED
  BY <1>1, <1>2, <1>3, <1>4, <1>5, <1>6, <1>7, <1>8, <1>9 DEF Next

\* The registry's state has the types the code gives it, a provider with a
\* default address is never without one, and a process that was killed or has
\* just started has no request in flight.
THEOREM TypeCorrect == Spec => []TypeOK
<1> QED
  BY TypeInit, TypeStep, PTL DEF Spec

-----------------------------------------------------------------------------
(* The file                                                                *)

\* After a write the file holds memory, or the write failed.
LEMMA SavedAfterWrite ==
  ASSUME TypeOK', NEW r \in Requests, NEW calls, Save(r, calls)
  PROVE  Saved'
BY SaveFacts DEF Saved, Loaded

LEMMA SavedStep == TypeOK /\ TypeOK' /\ Saved /\ [Next]_vars => Saved'
<1> SUFFICES ASSUME TypeOK, TypeOK', Saved, [Next]_vars PROVE Saved'
  OBVIOUS
<1>1. CASE Load
  <2>1. Loaded' = Loaded /\ Loaded \in Snapshots
    BY <1>1, LoadedType DEF Load, Loaded
  <2>2. Loaded = Memory'
    BY <1>1, <2>1 DEF Load, Memory, Snapshot, Snapshots
  <2> QED
    BY <1>1, <2>1, <2>2 DEF Load, Saved
<1>2. CASE Refresh
  BY <1>2 DEF Refresh, Saved, Listing, Busy, Loaded, Memory
<1>3. CASE FetchHangs
  BY <1>3 DEF FetchHangs, Saved, Listing, Busy, Loaded, Memory
<1>4. ASSUME NEW r \in Requests, NEW p \in Providers, NEW setting \in Settings,
             Connect(r, p, setting)
      PROVE  Saved'
  <2>1. CASE Save(r, Started(r, p, setting, "saved"))
    BY <2>1, SavedAfterWrite
  <2>2. CASE p \notin Fixed /\ setting # Bare /\ call' = Started(r, p, setting, "listing")
    <3>1. \A b \in BOOLEAN :
            [about |-> p, value |-> setting, stage |-> "listing", alone |-> b] \in Calls
      BY <2>2 DEF Calls, Settings
    <3>2. Started(r, p, setting, "listing") \in [Requests -> Calls \cup {Idle}]
      BY <3>1, StartedType
    <3>3. call'[r] # Idle /\ call'[r].stage = "listing"
      BY <2>2, <3>1 DEF Started
    <3> QED
      BY <3>3 DEF Saved, Listing, Busy
  <2> QED
    BY <1>4, <2>1, <2>2 DEF Connect
<1>5. ASSUME NEW r \in Requests, Fetched(r)
      PROVE  Saved'
  BY <1>5, SavedAfterWrite DEF Fetched
<1>6. ASSUME NEW r \in Requests, NEW t \in Tasks, NEW p \in Providers, Select(r, t, p)
      PROVE  Saved'
  BY <1>6, SavedAfterWrite DEF Select
<1>7. ASSUME NEW r \in Requests, Answer(r)
      PROVE  Saved'
  <2>1. \A q \in Requests : Listing(q) => Listing(q)'
    BY <1>7 DEF Answer, Listing, Busy, TypeOK
  <2> QED
    BY <1>7, <2>1 DEF Answer, Saved, Loaded, Memory
<1>8. ASSUME NEW tears \in BOOLEAN, Die(tears)
      PROVE  Saved'
  BY <1>8 DEF Die, Saved
<1>9. CASE UNCHANGED vars
  BY <1>9 DEF vars, Saved, Listing, Busy, Loaded, Memory
<1> QED
  BY <1>1, <1>2, <1>3, <1>4, <1>5, <1>6, <1>7, <1>8, <1>9 DEF Next

\* A restart would bring back what is in memory, whatever requests overlapped
\* before, unless a list is awaited or the process's last write failed.
THEOREM FileAlwaysCurrent == Spec => []FileIsCurrent
<1>1. Init => Saved
  BY DEF Init, Saved
<1>2. Saved => FileIsCurrent
  BY DEF Saved, FileIsCurrent
<1> QED
  BY <1>1, <1>2, TypeInit, TypeStep, SavedStep, PTL DEF Spec

-----------------------------------------------------------------------------
(* The answers                                                             *)

\* A request that starts, or is refused for its write, puts its key in doubt
\* and leaves every other one as it was.
LEMMA KeptAtStart ==
  ASSUME TypeOK, TypeOK', Kept, NEW r \in Requests, NEW key \in Keys, NEW value, NEW stage,
         ~Busy(r), up' = up, up # "down",
         told' = [told EXCEPT ![key] = InDoubt],
         \A k \in Keys \ {key} : Value(Memory, k)' = Value(Memory, k),
         Value(Memory, key)' = value,
         Began(r, key, value, stage),
         \/ file' = file /\ stage = "listing"
         \/ file' = Memory'
         \/ file' \in {file, Torn} /\ call'[r] = Idle
  PROVE  Kept'
<1>1. \A k \in Keys : told'[k] = IF k = key THEN InDoubt ELSE told[k]
  BY DEF TypeOK
<1>2. ASSUME NEW k \in Keys
      PROVE  Sure(k)'
  <2>1. CASE k = key
    BY <1>1, <2>1 DEF Sure
  <2>2. CASE k # key
    <3>1. Sure(k) /\ told'[k] = told[k] /\ Value(Memory, k)' = Value(Memory, k)
      BY <1>1, <2>2 DEF Kept
    <3>2. file' \in {file, Torn} => Sure(k)'
      BY <3>1 DEF Sure
    <3>3. file' = Memory' => Sure(k)'
      BY <3>1 DEF Sure, Value
    <3> QED
      BY <3>2, <3>3
  <2> QED
    BY <2>1, <2>2
<1>3. ASSUME NEW q \in Requests, Busy(q)'
      PROVE  /\ told'[call'[q].about] = InDoubt
             /\ Lone(q)'
  <2>1. CASE q = r
    <3>1. call'[r].about = key /\ call'[r].value = value /\ call'[r].stage = stage
      BY <1>3, <2>1 DEF Began, Busy
    <3>2. told'[call'[q].about] = InDoubt
      BY <1>1, <2>1, <3>1
    <3>3. ASSUME call'[r].alone, NEW o \in Requests, Busy(o)', call'[o].about = key
          PROVE  o = r
      BY <1>3, <2>1, <3>3 DEF Began, Busy
    <3>4. ~(stage = "listing") => file' = Memory'
      BY <1>3, <2>1 DEF Busy
    <3>5. ~Listing(q)' /\ file' # Torn => Value(file, key)' = value
      BY <1>3, <2>1, <3>1, <3>4 DEF Listing, Value
    <3> QED
      BY <2>1, <3>1, <3>2, <3>3, <3>5 DEF Lone
  <2>2. CASE q # r
    <3>1. /\ Busy(q) /\ call'[q].about = call[q].about /\ call'[q].value = call[q].value
          /\ call'[q].stage = call[q].stage
          /\ call'[q].alone => call[q].alone /\ call[q].about # key
      BY <1>3, <2>2 DEF Began
    <3>2. call[q].about \in Keys
      BY <3>1, CallFacts
    <3>3. told'[call'[q].about] = InDoubt
      BY <1>1, <3>1, <3>2 DEF Kept
    <3>4. ASSUME call'[q].alone
          PROVE  /\ Value(Memory', call'[q].about) = call'[q].value
                 /\ ~Listing(q)' /\ file' # Torn => Value(file', call'[q].about) = call'[q].value
                 /\ \A o \in Requests : Busy(o)' /\ call'[o].about = call'[q].about => o = q
      <4>1. /\ Value(Memory, call[q].about) = call[q].value
            /\ ~Listing(q) /\ file # Torn => Value(file, call[q].about) = call[q].value
            /\ \A o \in Requests : Busy(o) /\ call[o].about = call[q].about => o = q
        BY <3>1, <3>4 DEF Kept, Lone
      <4>2. Value(Memory', call'[q].about) = call'[q].value
        BY <3>1, <3>2, <3>4, <4>1
      <4>3. Listing(q)' <=> Listing(q)
        BY <1>3, <3>1 DEF Listing
      <4>4. file' = Memory' \/ file' \in {file, Torn}
        OBVIOUS
      <4>5. ~Listing(q)' /\ file' # Torn => Value(file', call'[q].about) = call'[q].value
        BY <3>1, <4>1, <4>2, <4>3, <4>4 DEF Value
      <4>6. ASSUME NEW o \in Requests, Busy(o)', call'[o].about = call'[q].about
            PROVE  o = q
        <5>1. CASE o = r
          BY <3>1, <3>4, <4>6, <5>1 DEF Began, Busy
        <5>2. CASE o # r
          BY <3>1, <4>1, <4>6, <5>2 DEF Began
        <5> QED
          BY <5>1, <5>2
      <4> QED
        BY <4>2, <4>5, <4>6
    <3> QED
      BY <3>3, <3>4 DEF Lone
  <2> QED
    BY <2>1, <2>2
<1> QED
  BY <1>2, <1>3 DEF Kept, Lone

\* What a write leaves of the file when r starts.
LEMMA WriteAtStart ==
  ASSUME TypeOK, TypeOK', NEW r \in Requests, NEW calls \in [Requests -> Calls \cup {Idle}],
         Save(r, calls)
  PROVE  /\ call' = calls \/ call' = [calls EXCEPT ![r] = Idle]
         /\ file' = Memory' \/ (file' \in {file, Torn} /\ call'[r] = Idle)
<1> DEFINE refused == [calls EXCEPT ![r] = Idle]
<1>1. refused[r] = Idle
  OBVIOUS
<1>2. \/ file' = Memory' /\ call' = calls
      \/ file' \in {file, Torn} /\ call' = refused
  BY SaveFacts
<1> HIDE DEF refused
<1> QED
  BY <1>1, <1>2 DEF refused

LEMMA KeptStep == TypeOK /\ TypeOK' /\ Kept /\ [Next]_vars => Kept'
<1> SUFFICES ASSUME TypeOK, TypeOK', Kept, [Next]_vars PROVE Kept'
  OBVIOUS
<1>1. CASE Load
  <2>1. \A r \in Requests : ~Busy(r) /\ ~Busy(r)'
    BY <1>1 DEF Load, TypeOK, Busy
  <2>2. file # Torn => Memory' = file
    BY <1>1 DEF Load, Loaded, Memory, Snapshot, Snapshots, TypeOK
  <2>3. ASSUME NEW k \in Keys
        PROVE  Sure(k)'
    <3>1. CASE file = Torn
      BY <1>1, <3>1 DEF Load, AfterLoad, Sure
    <3>2. CASE file # Torn
      <4>1. told' = told /\ file' = file /\ Memory' = file
        BY <1>1, <2>2, <3>2 DEF Load, AfterLoad
      <4>2. Sure(k)
        BY DEF Kept
      <4> QED
        BY <3>2, <4>1, <4>2 DEF Sure, Value
    <3> QED
      BY <3>1, <3>2
  <2> QED
    BY <2>1, <2>3 DEF Kept, Lone
<1>2. CASE Refresh
  BY <1>2 DEF Refresh, history, Kept, Sure, Lone, Busy, Listing, Value, Memory
<1>3. CASE FetchHangs
  BY <1>3 DEF FetchHangs, history, Kept, Sure, Lone, Busy, Listing, Value, Memory
<1>4. ASSUME NEW r \in Requests, NEW p \in Providers, NEW setting \in Settings,
             Connect(r, p, setting)
      PROVE  Kept'
  <2>1. \A k \in Keys \ {p} : Value(Memory, k)' = Value(Memory, k)
    BY <1>4 DEF Connect, TypeOK, Configurations, Value, Memory, Snapshot
  <2>2. Value(Memory, p)' = setting
    BY <1>4 DEF Connect, TypeOK, Configurations, Value, Memory, Snapshot
  <2>3. p \in Keys /\ ~Busy(r) /\ up' = up /\ up # "down"
        /\ told' = [told EXCEPT ![p] = InDoubt]
    BY <1>4 DEF Connect, Keys
  <2>4. CASE Save(r, Started(r, p, setting, "saved"))
    <3>1. \A b \in BOOLEAN :
            [about |-> p, value |-> setting, stage |-> "saved", alone |-> b] \in Calls
      BY DEF Calls
    <3>2. Started(r, p, setting, "saved") \in [Requests -> Calls \cup {Idle}]
      BY <3>1, StartedType
    <3>3. /\ \/ call' = Started(r, p, setting, "saved")
             \/ call' = [Started(r, p, setting, "saved") EXCEPT ![r] = Idle]
          /\ file' = Memory' \/ (file' \in {file, Torn} /\ call'[r] = Idle)
      BY <2>4, <3>2, WriteAtStart
    <3>4. Began(r, p, setting, "saved")
      BY <3>1, <3>3, StartedBegan
    <3> QED
      BY <2>1, <2>2, <2>3, <3>3, <3>4, KeptAtStart
  <2>5. CASE /\ p \notin Fixed /\ setting # Bare
             /\ call' = Started(r, p, setting, "listing") /\ file' = file
    <3>1. \A b \in BOOLEAN :
            [about |-> p, value |-> setting, stage |-> "listing", alone |-> b] \in Calls
      BY <2>5 DEF Calls, Settings
    <3>2. Began(r, p, setting, "listing")
      BY <2>5, <3>1, StartedBegan
    <3> QED
      BY <2>1, <2>2, <2>3, <2>5, <3>2, KeptAtStart
  <2> QED
    BY <1>4, <2>4, <2>5 DEF Connect
<1>5. ASSUME NEW r \in Requests, Fetched(r)
      PROVE  Kept'
  <2>1. /\ Busy(r) /\ Memory' = Memory /\ told' = told /\ up' = up /\ up # "down"
        /\ Answering(r) \in [Requests -> Calls \cup {Idle}]
    <3>1. [call[r] EXCEPT !.stage = "saved"] \in Calls
      BY <1>5, CallFacts DEF Fetched, Listing, Calls, Settings
    <3> QED
      BY <1>5, <3>1 DEF Fetched, Memory, history, Answering, TypeOK, Listing
  <2>2. /\ call' = Answering(r) \/ call' = [Answering(r) EXCEPT ![r] = Idle]
        /\ file' = Memory' \/ (file' \in {file, Torn} /\ call'[r] = Idle)
    BY <1>5, <2>1, WriteAtStart DEF Fetched
  <2>3. ASSUME NEW k \in Keys
        PROVE  Sure(k)'
    <3>1. Sure(k)
      BY DEF Kept
    <3> QED
      BY <2>1, <2>2, <3>1 DEF Sure, Value
  <2>4. \A q \in Requests \ {r} : call'[q] = call[q]
    BY <2>1, <2>2 DEF Answering
  <2>5. call'[r] # Idle => /\ call'[r].about = call[r].about
                           /\ call'[r].value = call[r].value
                           /\ call'[r].alone = call[r].alone
                           /\ file' = Memory' /\ file' # Torn
    <3>1. call[r] \in Calls
      BY <2>1, CallFacts
    <3>2. Memory' # Torn
      BY MemoryType, <2>1
    <3>3. Answering(r)[r] = [call[r] EXCEPT !.stage = "saved"]
      BY DEF Answering, TypeOK
    <3>4. call'[r] # Idle => call'[r] = Answering(r)[r] /\ file' = Memory'
      BY <2>1, <2>2
    <3>5. LET c == [call[r] EXCEPT !.stage = "saved"]
          IN  c.about = call[r].about /\ c.value = call[r].value /\ c.alone = call[r].alone
      BY <3>1 DEF Calls
    <3> QED
      BY <3>2, <3>3, <3>4, <3>5
  <2>6. ASSUME NEW q \in Requests, Busy(q)'
        PROVE  /\ Busy(q) /\ call'[q].about = call[q].about
               /\ call'[q].value = call[q].value /\ call'[q].alone = call[q].alone
               /\ Listing(q)' /\ q # r => Listing(q)
               /\ q # r => (Listing(q)' <=> Listing(q))
    BY <2>1, <2>4, <2>5, <2>6 DEF Busy, Listing
  <2>7. ASSUME NEW q \in Requests
        PROVE  Lone(q)'
    <3> SUFFICES ASSUME Busy(q)', call'[q].alone
                 PROVE  /\ Value(Memory', call'[q].about) = call'[q].value
                        /\ ~Listing(q)' /\ file' # Torn
                             => Value(file', call'[q].about) = call'[q].value
                        /\ \A o \in Requests :
                             Busy(o)' /\ call'[o].about = call'[q].about => o = q
      BY DEF Lone
    <3>1. /\ Value(Memory, call[q].about) = call[q].value
          /\ ~Listing(q) /\ file # Torn => Value(file, call[q].about) = call[q].value
          /\ \A o \in Requests : Busy(o) /\ call[o].about = call[q].about => o = q
      BY <2>6 DEF Kept, Lone
    <3>2. Value(Memory', call'[q].about) = call'[q].value
      BY <2>1, <2>6, <3>1 DEF Value
    <3>3. CASE file' = Memory'
      BY <2>6, <3>1, <3>2, <3>3 DEF Value
    <3>4. CASE file' \in {file, Torn} /\ call'[r] = Idle
      <4>1. q # r
        BY <3>4 DEF Busy
      <4> QED
        BY <2>6, <3>1, <3>2, <3>4, <4>1 DEF Value
    <3> QED
      BY <2>2, <3>3, <3>4
  <2> QED
    BY <2>1, <2>3, <2>6, <2>7 DEF Kept
<1>6. ASSUME NEW r \in Requests, NEW t \in Tasks, NEW p \in Providers, Select(r, t, p)
      PROVE  Kept'
  <2> DEFINE entry == [provider |-> p, base |-> configs[p], listed |-> models[p]]
  <2>1. entry \in Entries
    BY <1>6 DEF Select, Entries, TypeOK, Configurations
  <2>2. \A b \in BOOLEAN :
          [about |-> t, value |-> entry, stage |-> "saved", alone |-> b] \in Calls
    <3> HIDE DEF entry
    <3> QED
      BY <2>1 DEF Calls
  <2>3. /\ selected' = [selected EXCEPT ![t] = entry] /\ configs' = configs
        /\ ~Busy(r) /\ up' = up /\ up # "down" /\ told' = [told EXCEPT ![t] = InDoubt]
        /\ Save(r, Started(r, t, entry, "saved"))
    BY <1>6 DEF Select
  <2> HIDE DEF entry
  <2>4. t \in Keys /\ t \notin Providers
    BY Disjoint DEF Keys
  <2>5. \A k \in Keys \ {t} : Value(Memory, k)' = Value(Memory, k)
    BY <2>3 DEF TypeOK, Value, Memory, Snapshot, Keys
  <2>6. Value(Memory, t)' = entry
    BY <2>3, <2>4 DEF TypeOK, Value, Memory, Snapshot
  <2>7. Started(r, t, entry, "saved") \in [Requests -> Calls \cup {Idle}]
    BY <2>2, StartedType
  <2>8. /\ \/ call' = Started(r, t, entry, "saved")
           \/ call' = [Started(r, t, entry, "saved") EXCEPT ![r] = Idle]
        /\ file' = Memory' \/ (file' \in {file, Torn} /\ call'[r] = Idle)
    BY <2>3, <2>7, WriteAtStart
  <2>9. Began(r, t, entry, "saved")
    BY <2>2, <2>8, StartedBegan
  <2> QED
    BY <2>3, <2>4, <2>5, <2>6, <2>8, <2>9, KeptAtStart
<1>7. ASSUME NEW r \in Requests, Answer(r)
      PROVE  Kept'
  <2> DEFINE key == call[r].about
  <2>1. /\ Busy(r) /\ ~Listing(r) /\ key \in Keys /\ up' = up /\ file' = file
        /\ Memory' = Memory
        /\ told' = IF call[r].alone THEN [told EXCEPT ![key] = call[r].value] ELSE told
    BY <1>7, CallFacts DEF Answer, Memory
  <2>2. \A q \in Requests : call'[q] = IF q = r THEN Idle ELSE call[q]
    BY <1>7 DEF Answer, TypeOK
  <2>3. Lone(r)
    BY DEF Kept
  <2> HIDE DEF key
  <2>4. \A k \in Keys : told'[k] = IF call[r].alone /\ k = key THEN call[r].value ELSE told[k]
    BY <2>1 DEF TypeOK
  <2>5. ASSUME NEW k \in Keys
        PROVE  Sure(k)'
    <3>1. Sure(k)
      BY DEF Kept
    <3>2. CASE call[r].alone /\ k = key
      <4>1. /\ Value(Memory, k) = call[r].value
            /\ file # Torn => Value(file, k) = call[r].value
        BY <2>1, <2>3, <3>2 DEF Lone, key
      <4> QED
        BY <2>1, <2>4, <3>2, <4>1 DEF Sure, Value
    <3>3. CASE ~(call[r].alone /\ k = key)
      BY <2>1, <2>4, <3>1, <3>3 DEF Sure, Value
    <3> QED
      BY <3>2, <3>3
  <2>6. ASSUME NEW q \in Requests, Busy(q)'
        PROVE  /\ told'[call'[q].about] = InDoubt
               /\ Lone(q)'
    <3>1. q # r /\ call'[q] = call[q] /\ Busy(q)
      BY <2>2, <2>6 DEF Busy
    <3>2. call[q].about \in Keys /\ told[call[q].about] = InDoubt /\ Lone(q)
      BY <3>1, CallFacts DEF Kept
    <3>3. call[r].alone => call[q].about # key
      BY <2>1, <2>3, <3>1 DEF Lone, key
    <3>4. told'[call'[q].about] = InDoubt
      BY <2>4, <3>1, <3>2, <3>3
    <3>5. \A o \in Requests : Busy(o)' => Busy(o) /\ call'[o] = call[o]
      BY <2>2 DEF Busy
    <3> QED
      BY <2>1, <3>1, <3>2, <3>4, <3>5 DEF Lone, Listing, Value
  <2> QED
    BY <2>5, <2>6 DEF Kept, Lone
<1>8. ASSUME NEW tears \in BOOLEAN, Die(tears)
      PROVE  Kept'
  <2>1. \A r \in Requests : ~Busy(r)'
    BY <1>8 DEF Die, Busy
  <2>2. ASSUME NEW k \in Keys
        PROVE  Sure(k)'
    <3>1. Sure(k)
      BY DEF Kept
    <3> QED
      BY <1>8, <3>1 DEF Die, history, Sure, Value
  <2> QED
    BY <2>1, <2>2 DEF Kept, Lone
<1>9. CASE UNCHANGED vars
  BY <1>9 DEF vars, history, Kept, Sure, Lone, Busy, Listing, Value, Memory
<1> QED
  BY <1>1, <1>2, <1>3, <1>4, <1>5, <1>6, <1>7, <1>8, <1>9 DEF Next

\* After a restart each provider and each selection is as the last answer about
\* it said, for every key that is not in doubt.
THEOREM AnswersSurvive == Spec => []AnswersSurviveRestarts
<1>1. Init => Kept
  BY DEF Init, Kept, Sure, Lone, Busy
<1>2. TypeOK /\ Kept => AnswersSurviveRestarts
  BY DEF Kept, Sure, AnswersSurviveRestarts
<1> QED
  BY <1>1, <1>2, TypeInit, TypeStep, KeptStep, PTL DEF Spec

-----------------------------------------------------------------------------
(* The lists of models                                                     *)

\* A request that starts about key leaves the lists that others await sound.
LEMMA AwaitedAtStart ==
  ASSUME TypeOK, Followed, NEW r \in Requests, NEW key \in Keys, NEW value, NEW stage,
         Began(r, key, value, stage), ~Busy(r),
         \A p \in Providers \ {key} : configs'[p] = configs[p],
         stage = "listing" => configs'[key] = value,
         contended \subseteq contended',
         Connecting(key) => key \in contended' \/ (configs' = configs /\ stage # "listing")
  PROVE  \A q \in Requests : Awaited(q)'
<1> SUFFICES ASSUME NEW q \in Requests, Listing(q)', call'[q].about \notin contended'
             PROVE  /\ call'[q].value = configs'[call'[q].about]
                    /\ \A o \in Requests :
                         Listing(o)' /\ call'[o].about = call'[q].about => o = q
  BY DEF Awaited
<1>1. \A o \in Requests \ {r} :
        Listing(o)' => /\ Listing(o) /\ call'[o].about = call[o].about
                       /\ call'[o].value = call[o].value
  BY DEF Began, Listing
<1>2. CASE q = r
  <2>1. call'[r].about = key /\ call'[r].value = value /\ stage = "listing"
    BY <1>2 DEF Began, Listing, Busy
  <2>2. ~Connecting(key)
    BY <1>2, <2>1
  <2>3. ASSUME NEW o \in Requests, Listing(o)', call'[o].about = key
        PROVE  o = r
    BY <1>1, <2>2, <2>3 DEF Connecting
  <2> QED
    BY <1>2, <2>1, <2>3
<1>3. CASE q # r
  <2>1. Listing(q) /\ call'[q].about = call[q].about /\ call'[q].value = call[q].value
    BY <1>1, <1>3
  <2>2. call[q].about \in Providers /\ call[q].about \notin contended
    BY <2>1, CallFacts DEF Listing
  <2>3. /\ call[q].value = configs[call[q].about]
        /\ \A o \in Requests : Listing(o) /\ call[o].about = call[q].about => o = q
    BY <2>1, <2>2 DEF Followed, Awaited
  <2>4. CASE call[q].about # key
    <3>1. call'[q].value = configs'[call'[q].about]
      BY <2>1, <2>2, <2>3, <2>4
    <3>2. ASSUME NEW o \in Requests, Listing(o)', call'[o].about = call'[q].about
          PROVE  o = q
      <4>1. CASE o = r
        BY <2>1, <2>4, <3>2, <4>1 DEF Began, Listing, Busy
      <4>2. CASE o # r
        BY <1>1, <2>1, <2>3, <3>2, <4>2
      <4> QED
        BY <4>1, <4>2
    <3> QED
      BY <3>1, <3>2
  <2>5. CASE call[q].about = key
    <3>1. configs' = configs /\ stage # "listing"
      BY <2>1, <2>5 DEF Connecting
    <3>2. ASSUME NEW o \in Requests, Listing(o)', call'[o].about = call'[q].about
          PROVE  o = q
      <4>1. o # r
        BY <3>1, <3>2 DEF Began, Listing, Busy
      <4> QED
        BY <1>1, <2>1, <2>3, <3>2, <4>1
    <3> QED
      BY <2>1, <2>3, <3>1, <3>2
  <2> QED
    BY <2>4, <2>5
<1> QED
  BY <1>2, <1>3

\* The condition of ModelsFollowConfig for one provider.
ListFits(p) ==
  \/ models[p] \in {configs[p], Empty}
  \/ models[p] = Static /\ (NeedsNoList(p, configs[p]) \/ p \in restored)

LEMMA FollowedStep == TypeOK /\ TypeOK' /\ Followed /\ [Next]_vars => Followed'
<1> SUFFICES ASSUME TypeOK, TypeOK', Followed, [Next]_vars PROVE Followed'
  OBVIOUS
<1>1. CASE Load
  <2>1. \A r \in Requests : ~Listing(r)'
    BY <1>1 DEF Load, TypeOK, Busy, Listing
  <2> QED
    BY <1>1, <2>1 DEF Load, Followed, ModelsFollowConfig, Awaited
<1>2. CASE Refresh
  <2>1. ASSUME NEW p \in Providers
        PROVE  ListFits(p)'
    <3>1. CASE p \in Dynamic
      BY <1>2, <3>1 DEF Refresh, Followed, FirstModels, ListFits
    <3>2. CASE p \notin Dynamic
      <4>1. models'[p] = Static /\ configs'[p] = configs[p] /\ restored' = restored
        BY <1>2, <3>2 DEF Refresh, Followed, FirstModels, history
      <4>2. p \in Fixed \/ p \in restored \/ configs[p] \in {NoConfig, Bare}
        BY <1>2, <3>2 DEF Refresh, Followed, Providers, Settings, TypeOK, Configurations
      <4> QED
        BY <4>1, <4>2 DEF ListFits, NeedsNoList
    <3> QED
      BY <3>1, <3>2
  <2>2. \A r \in Requests : ~Listing(r)'
    BY <1>2 DEF Refresh, TypeOK, Busy, Listing
  <2> QED
    BY <1>2, <2>1, <2>2 DEF Refresh, Followed, ModelsFollowConfig, ListFits, Awaited
<1>3. CASE FetchHangs
  <2>1. \A r \in Requests : Awaited(r)'
    BY <1>3 DEF FetchHangs, Followed, Awaited, Listing, Busy, history
  <2> QED
    BY <1>3, <2>1 DEF FetchHangs, Followed, ModelsFollowConfig
<1>4. ASSUME NEW r \in Requests, NEW p \in Providers, NEW setting \in Settings,
             Connect(r, p, setting)
      PROVE  Followed'
  <2>1. /\ up = "serving" /\ up' = "serving" /\ ~Busy(r) /\ restored' = restored
        /\ configs' = [configs EXCEPT ![p] = setting]
        /\ contended' = IF Connecting(p) THEN contended \cup {p} ELSE contended
    BY <1>4 DEF Connect, Contend
  <2>2. /\ p \in Keys /\ configs'[p] = setting
        /\ \A o \in Providers \ {p} : configs'[o] = configs[o]
    BY <2>1 DEF TypeOK, Configurations, Keys
  <2>3. CASE /\ p \in Fixed \/ setting = Bare
             /\ models' = [models EXCEPT ![p] = Static]
             /\ Save(r, Started(r, p, setting, "saved"))
    <3>1. \A b \in BOOLEAN :
            [about |-> p, value |-> setting, stage |-> "saved", alone |-> b] \in Calls
      BY DEF Calls
    <3>2. Started(r, p, setting, "saved") \in [Requests -> Calls \cup {Idle}]
      BY <3>1, StartedType
    <3>3. Began(r, p, setting, "saved")
      BY <2>3, <3>1, <3>2, WriteAtStart, StartedBegan
    <3>4. \A q \in Requests : Awaited(q)'
      BY <2>1, <2>2, <3>3, AwaitedAtStart
    <3>5. ASSUME NEW o \in Providers, o \notin contended', ~Connecting(o)'
          PROVE  ListFits(o)'
      <4>1. CASE o = p
        <5>1. models'[p] = Static /\ NeedsNoList(p, configs'[p])
          BY <2>2, <2>3 DEF TypeOK, NeedsNoList
        <5> QED
          BY <4>1, <5>1 DEF ListFits
      <4>2. CASE o # p
        <5>1. ~Connecting(o) /\ o \notin contended
          BY <2>1, <3>3, <3>5 DEF Connecting, Began, Listing
        <5>2. models'[o] = models[o] /\ configs'[o] = configs[o]
          BY <2>2, <2>3, <4>2 DEF TypeOK
        <5> QED
          BY <2>1, <5>1, <5>2 DEF Followed, ModelsFollowConfig, ListFits
      <4> QED
        BY <4>1, <4>2
    <3> QED
      BY <2>1, <3>4, <3>5 DEF Followed, ModelsFollowConfig, ListFits
  <2>4. CASE /\ p \notin Fixed /\ setting # Bare /\ models' = models
             /\ call' = Started(r, p, setting, "listing")
    <3>1. \A b \in BOOLEAN :
            [about |-> p, value |-> setting, stage |-> "listing", alone |-> b] \in Calls
      BY <2>4 DEF Calls, Settings
    <3>2. Began(r, p, setting, "listing")
      BY <2>4, <3>1, StartedBegan
    <3>3. \A q \in Requests : Awaited(q)'
      BY <2>1, <2>2, <3>2, AwaitedAtStart
    <3>4. call'[r] # Idle
      BY <2>4, <3>1, StartedType DEF Started
    <3>5. Connecting(p)'
      BY <3>2, <3>4 DEF Began, Connecting, Listing, Busy
    <3>6. ASSUME NEW o \in Providers, o \notin contended', ~Connecting(o)'
          PROVE  ListFits(o)'
      <4>1. o # p
        BY <3>5, <3>6
      <4>2. ~Connecting(o) /\ o \notin contended
        BY <2>1, <3>2, <3>6 DEF Connecting, Began, Listing
      <4>3. models'[o] = models[o] /\ configs'[o] = configs[o]
        BY <2>2, <2>4, <4>1
      <4> QED
        BY <2>1, <4>2, <4>3 DEF Followed, ModelsFollowConfig, ListFits
    <3> QED
      BY <2>1, <3>3, <3>6 DEF Followed, ModelsFollowConfig, ListFits
  <2> QED
    BY <1>4, <2>3, <2>4 DEF Connect
<1>5. ASSUME NEW r \in Requests, Fetched(r)
      PROVE  Followed'
  <2> DEFINE p == call[r].about
  <2>1. /\ Listing(r) /\ Busy(r) /\ p \in Providers /\ up = "serving" /\ up' = "serving"
        /\ configs' = configs /\ contended' = contended /\ restored' = restored
    BY <1>5, CallFacts DEF Fetched, Listing, history
  <2>2. PICK list \in {call[r].value, Empty} : models' = [models EXCEPT ![p] = list]
    BY <1>5 DEF Fetched
  <2>3. Answering(r) \in [Requests -> Calls \cup {Idle}]
    <3>1. [call[r] EXCEPT !.stage = "saved"] \in Calls
      BY <2>1, CallFacts DEF Calls, Settings
    <3> QED
      BY <3>1 DEF Answering, TypeOK
  <2>4. call' = Answering(r) \/ call' = [Answering(r) EXCEPT ![r] = Idle]
    BY <1>5, <2>3, WriteAtStart DEF Fetched
  <2>5. ~Listing(r)' /\ \A q \in Requests \ {r} : call'[q] = call[q]
    <3>1. Answering(r)[r].stage = "saved"
      BY <2>1, CallFacts DEF Answering, TypeOK, Calls
    <3> QED
      BY <2>3, <2>4, <3>1 DEF Listing, Busy, Answering
  <2>6. ASSUME NEW o \in Providers, o \notin contended, ~Connecting(o)'
        PROVE  ListFits(o)'
    <3>1. CASE o = p
      <4>1. call[r].value = configs[p]
        BY <2>1, <2>6, <3>1 DEF Followed, Awaited
      <4> QED
        BY <2>1, <2>2, <3>1, <4>1 DEF TypeOK, ListFits
    <3>2. CASE o # p
      <4>1. ~Connecting(o)
        BY <2>5, <2>6, <3>2 DEF Connecting, Listing, Busy
      <4>2. models'[o] = models[o]
        BY <2>1, <2>2, <3>2 DEF TypeOK
      <4> QED
        BY <2>1, <2>6, <4>1, <4>2 DEF Followed, ModelsFollowConfig, ListFits
    <3> QED
      BY <3>1, <3>2
  <2>7. ASSUME NEW q \in Requests
        PROVE  Awaited(q)'
    <3> SUFFICES ASSUME Listing(q)'
                 PROVE  Awaited(q)'
      BY DEF Awaited
    <3>1. q # r /\ call'[q] = call[q] /\ Listing(q) /\ Awaited(q)
      BY <2>5 DEF Followed, Listing, Busy
    <3>2. \A o \in Requests : Listing(o)' => Listing(o) /\ call'[o] = call[o]
      BY <2>5 DEF Listing, Busy
    <3> QED
      BY <2>1, <3>1, <3>2 DEF Awaited
  <2> QED
    BY <2>1, <2>6, <2>7 DEF Followed, ModelsFollowConfig, ListFits
<1>6. ASSUME NEW r \in Requests, NEW t \in Tasks, NEW p \in Providers, Select(r, t, p)
      PROVE  Followed'
  <2> DEFINE entry == [provider |-> p, base |-> configs[p], listed |-> models[p]]
  <2>1. \A b \in BOOLEAN :
          [about |-> t, value |-> entry, stage |-> "saved", alone |-> b] \in Calls
    <3>1. entry \in Entries
      BY <1>6 DEF Select, Entries, TypeOK, Configurations
    <3> HIDE DEF entry
    <3> QED
      BY <3>1 DEF Calls
  <2>2. /\ up = "serving" /\ up' = "serving" /\ ~Busy(r) /\ restored' = restored
        /\ configs' = configs /\ models' = models /\ contended \subseteq contended'
        /\ Save(r, Started(r, t, entry, "saved"))
    BY <1>6 DEF Select, Contend
  <2> HIDE DEF entry
  <2>3. Began(r, t, entry, "saved")
    <3>1. Started(r, t, entry, "saved") \in [Requests -> Calls \cup {Idle}]
      BY <2>1, StartedType
    <3> QED
      BY <2>1, <2>2, <3>1, WriteAtStart, StartedBegan
  <2>4. \A q \in Requests : Awaited(q)'
    BY <2>2, <2>3, AwaitedAtStart DEF Keys
  <2>5. ASSUME NEW o \in Providers, o \notin contended', ~Connecting(o)'
        PROVE  ListFits(o)'
    <3>1. ~Connecting(o) /\ o \notin contended
      BY <2>2, <2>3, <2>5 DEF Connecting, Began, Listing
    <3> QED
      BY <2>2, <3>1 DEF Followed, ModelsFollowConfig, ListFits
  <2> QED
    BY <2>2, <2>4, <2>5 DEF Followed, ModelsFollowConfig, ListFits
<1>7. ASSUME NEW r \in Requests, Answer(r)
      PROVE  Followed'
  <2>1. \A q \in Requests : call'[q] = IF q = r THEN Idle ELSE call[q]
    BY <1>7 DEF Answer, TypeOK
  <2>2. /\ UNCHANGED <<up, configs, models, contended, restored>>
        /\ ~Listing(r)
    BY <1>7 DEF Answer
  <2>3. \A q \in Requests : (Listing(q)' <=> Listing(q)) /\ (Listing(q) => call'[q] = call[q])
    BY <2>1, <2>2 DEF Listing, Busy
  <2>4. \A q \in Requests : Awaited(q)'
    BY <2>2, <2>3 DEF Followed, Awaited
  <2>5. \A o \in Providers : Connecting(o) => Connecting(o)'
    BY <2>3 DEF Connecting
  <2> QED
    BY <2>2, <2>4, <2>5 DEF Followed, ModelsFollowConfig
<1>8. ASSUME NEW tears \in BOOLEAN, Die(tears)
      PROVE  Followed'
  <2>1. \A r \in Requests : ~Listing(r)'
    BY <1>8 DEF Die, Listing, Busy
  <2> QED
    BY <1>8, <2>1 DEF Die, Followed, ModelsFollowConfig, Awaited
<1>9. CASE UNCHANGED vars
  <2>1. \A r \in Requests : Awaited(r)'
    BY <1>9 DEF vars, history, Followed, Awaited, Listing, Busy
  <2>2. \A p \in Providers : Connecting(p) => Connecting(p)'
    BY <1>9 DEF vars, Connecting, Listing, Busy
  <2> QED
    BY <1>9, <2>1, <2>2 DEF vars, history, Followed, ModelsFollowConfig
<1> QED
  BY <1>1, <1>2, <1>3, <1>4, <1>5, <1>6, <1>7, <1>8, <1>9 DEF Next

LEMMA AlwaysFollowed == Spec => [](TypeOK /\ Followed)
<1>1. Init => Followed
  BY DEF Init, Followed, ModelsFollowConfig, Awaited, Listing, Busy
<1> QED
  BY <1>1, TypeInit, TypeStep, FollowedStep, PTL DEF Spec

\* A provider never keeps the models of a replaced configuration, unless its
\* own requests overlapped; it has litellm's list only where no address is
\* asked, or since a restart.
THEOREM ModelsAlwaysFollow == Spec => []ModelsFollowConfig
<1> QED
  BY AlwaysFollowed, PTL DEF Followed

-----------------------------------------------------------------------------
(* The selection                                                           *)

\* A selection that fits still does as the history grows.
LEMMA StillServed ==
  ASSUME NEW s, ServedIn(s), contended \subseteq contended', restored \subseteq restored'
  PROVE  \A t \in Tasks : s[t] # NoEntry /\ s[t].provider \notin contended' => Fits(s[t])'
BY DEF ServedIn, Fits

\* After a write the file is as sound as memory was or is.
LEMMA ServedAfterWrite ==
  ASSUME TypeOK', Served, ServedIn(selected)', NEW r \in Requests, NEW calls,
         Save(r, calls), contended \subseteq contended', restored \subseteq restored'
  PROVE  Served'
<1>1. CASE file' = Memory' /\ file' # Torn
  BY <1>1 DEF Served, Loaded, Memory, Snapshot
<1>2. CASE file' = file
  <2>1. Loaded' = Loaded
    BY <1>2 DEF Loaded
  <2>2. ServedIn(Loaded.selected)
    BY DEF Served
  <2> QED
    BY <2>1, <2>2, StillServed DEF Served, ServedIn
<1>3. CASE file' = Torn
  BY <1>3 DEF Served, ServedIn, Loaded, Nothing, Snapshot, NoEntries
<1> QED
  BY <1>1, <1>2, <1>3, SaveFacts

LEMMA ServedStep == TypeOK /\ TypeOK' /\ Followed /\ Served /\ [Next]_vars => Served'
<1> SUFFICES ASSUME TypeOK, TypeOK', Followed, Served, [Next]_vars PROVE Served'
  OBVIOUS
<1>0. ASSUME Loaded' = Loaded, contended \subseteq contended', restored \subseteq restored',
             selected' = selected
      PROVE  Served'
  <2>1. ServedIn(selected) /\ ServedIn(Loaded.selected)
    BY DEF Served
  <2> QED
    BY <1>0, <2>1, StillServed DEF Served, ServedIn
<1>1. CASE Load
  <2>1. /\ selected' = Loaded.selected /\ Loaded' = Loaded
        /\ contended' = contended /\ restored \subseteq restored'
    BY <1>1 DEF Load, Loaded
  <2>2. ServedIn(Loaded.selected)
    BY DEF Served
  <2> QED
    BY <2>1, <2>2, StillServed DEF Served, ServedIn
<1>2. CASE Refresh
  BY <1>0, <1>2 DEF Refresh, history, Loaded
<1>3. CASE FetchHangs
  BY <1>0, <1>3 DEF FetchHangs, history, Loaded
<1>4. ASSUME NEW r \in Requests, NEW p \in Providers, NEW setting \in Settings,
             Connect(r, p, setting)
      PROVE  Served'
  <2>1. contended \subseteq contended' /\ restored' = restored /\ selected' = selected
    BY <1>4 DEF Connect, Contend
  <2>2. ServedIn(selected)'
    BY <2>1, StillServed DEF Served, ServedIn
  <2>3. CASE file' = file
    BY <1>0, <2>1, <2>3 DEF Loaded
  <2>4. CASE Save(r, Started(r, p, setting, "saved"))
    BY <2>1, <2>2, <2>4, ServedAfterWrite
  <2> QED
    BY <1>4, <2>3, <2>4 DEF Connect
<1>5. ASSUME NEW r \in Requests, Fetched(r)
      PROVE  Served'
  <2>1. /\ contended' = contended /\ restored' = restored /\ selected' = selected
        /\ Save(r, Answering(r))
    BY <1>5 DEF Fetched, history
  <2>2. ServedIn(selected)'
    BY <2>1, StillServed DEF Served, ServedIn
  <2> QED
    BY <2>1, <2>2, ServedAfterWrite
<1>6. ASSUME NEW r \in Requests, NEW t \in Tasks, NEW p \in Providers, Select(r, t, p)
      PROVE  Served'
  <2> DEFINE entry == [provider |-> p, base |-> configs[p], listed |-> models[p]]
  <2>1. /\ contended' = IF Connecting(p) THEN contended \cup {p} ELSE contended
        /\ restored' = restored /\ up = "serving" /\ models[p] # Empty
        /\ selected' = [selected EXCEPT ![t] = entry]
        /\ Save(r, Started(r, t, entry, "saved"))
    BY <1>6 DEF Select, Contend
  <2>2. p \notin contended' => Fits(entry)
    <3>1. p \notin contended' =>
            \/ models[p] = configs[p]
            \/ models[p] = Static /\ (NeedsNoList(p, configs[p]) \/ p \in restored)
      BY <2>1 DEF Followed, ModelsFollowConfig
    <3> QED
      BY <3>1 DEF Fits
  <2>3. entry.provider = p
    OBVIOUS
  <2> HIDE DEF entry
  <2>4. ASSUME NEW u \in Tasks, selected'[u] # NoEntry, selected'[u].provider \notin contended'
        PROVE  Fits(selected'[u])
    <3>1. CASE u = t
      <4>1. selected'[u] = entry
        BY <2>1, <3>1 DEF TypeOK
      <4> QED
        BY <2>1, <2>2, <2>3, <2>4, <4>1 DEF Fits
    <3>2. CASE u # t
      <4>1. selected'[u] = selected[u]
        BY <2>1, <3>2 DEF TypeOK
      <4>2. ServedIn(selected)
        BY DEF Served
      <4>3. contended \subseteq contended'
        BY <2>1
      <4>4. selected[u].provider \notin contended
        BY <2>4, <4>1, <4>3
      <4> QED
        BY <2>4, <4>1, <4>2, <4>4 DEF ServedIn
    <3> QED
      BY <3>1, <3>2
  <2>5. ServedIn(selected)'
    BY <2>1, <2>4 DEF ServedIn, Fits
  <2> QED
    BY <2>1, <2>5, ServedAfterWrite
<1>7. ASSUME NEW r \in Requests, Answer(r)
      PROVE  Served'
  BY <1>0, <1>7 DEF Answer, Loaded
<1>8. ASSUME NEW tears \in BOOLEAN, Die(tears)
      PROVE  Served'
  <2>1. selected' = NoEntries /\ contended' = contended /\ restored' = restored
    BY <1>8 DEF Die, history
  <2>2. ServedIn(selected)'
    BY <2>1 DEF ServedIn, NoEntries
  <2>3. CASE file' = file
    <3>1. Loaded' = Loaded /\ ServedIn(Loaded.selected)
      BY <2>3 DEF Loaded, Served
    <3> QED
      BY <2>1, <2>2, <3>1, StillServed DEF Served, ServedIn
  <2>4. CASE file' = Torn
    BY <2>2, <2>4 DEF Served, ServedIn, Loaded, Nothing, Snapshot, NoEntries
  <2> QED
    BY <1>8, <2>3, <2>4 DEF Die
<1>9. CASE UNCHANGED vars
  BY <1>0, <1>9 DEF vars, history, Loaded
<1> QED
  BY <1>1, <1>2, <1>3, <1>4, <1>5, <1>6, <1>7, <1>8, <1>9 DEF Next

\* A selected model was listed by the address it is asked for at, in memory and
\* across restarts, or by litellm where no address is asked; the exceptions are
\* providers whose requests overlapped and those a restart gave litellm's list.
THEOREM SelectionAlwaysServed == Spec => []SelectedModelIsServed
<1>1. Init => Served
  <2>1. \A t \in Tasks : NoEntries[t] = NoEntry
    BY DEF NoEntries
  <2>2. Nothing.selected = NoEntries
    BY DEF Nothing, Snapshot
  <2> QED
    BY <2>1, <2>2 DEF Init, Served, ServedIn, Loaded
<1>2. Served => SelectedModelIsServed
  BY DEF Served, ServedIn, Fits, SelectedModelIsServed
<1> QED
  BY <1>1, <1>2, AlwaysFollowed, ServedStep, PTL DEF Spec

=============================================================================
