--------------------------- MODULE Settings_proofs ----------------------------
(***************************************************************************)
(* Proofs about Settings, for any set of parameters in view, any content   *)
(* of the files and any number of edits. The invariant says how the last   *)
(* configuration was built; the lemmas, where the settings come from.      *)
(***************************************************************************)
EXTENDS Settings, TLAPS

USE DEF Places, Order, Winners

-----------------------------------------------------------------------------
(* The settings *)

\* The place that a lookup finds has a table, is in use, and none after it is.
LEMMA LastPlaceWins ==
  /\ RuntimePlace \in Places \cup {"default"}
  /\ RuntimePlace \in Places => files[RuntimePlace].table
  /\ RuntimePlace = "home" => ~files["local"].table
  /\ RuntimePlace = "shared" => ~files["local"].table
  /\ RuntimePlace = "home" => ~(exported /\ files["shared"].table)
  <1> DEFINE Has(i) == InUse(Winners[i]) /\ files[Winners[i]].table
             Last(i) == Has(i) /\ \A j \in i + 1 .. 3 : ~Has(j)
  <1>1. CASE \E i \in 1 .. 3 : Has(i)
    <2>1. \E i \in 1 .. 3 : Last(i)
      <3>1. CASE Has(3)
        BY <3>1
      <3>2. CASE ~Has(3) /\ Has(2)
        BY <3>2
      <3>3. CASE ~Has(3) /\ ~Has(2)
        BY <3>3, <1>1
      <3> QED
        BY <3>1, <3>2, <3>3
    <2>2. PICK l \in 1 .. 3 : l = (CHOOSE i \in 1 .. 3 : Last(i)) /\ Last(l)
      BY <2>1
    <2>3. RuntimePlace = Winners[l]
      BY <2>2, <1>1 DEF RuntimePlace
    <2>4. /\ l = 1 => ~Has(2) /\ ~Has(3)
          /\ l = 2 => ~Has(3)
      <3> HIDE DEF Has
      <3> QED
        BY <2>2
    <2>5. Has(l)
      BY <2>2
    <2>6. CASE l = 1
      BY <2>3, <2>4, <2>5, <2>6 DEF InUse
    <2>7. CASE l = 2
      BY <2>3, <2>4, <2>5, <2>7 DEF InUse
    <2>8. CASE l = 3
      BY <2>3, <2>5, <2>8 DEF InUse
    <2> QED
      BY <2>6, <2>7, <2>8
  <1>2. CASE ~(\E i \in 1 .. 3 : Has(i))
    BY <1>2 DEF RuntimePlace
  <1> QED
    BY <1>1, <1>2

\* The tables of the files have parameters in view only.
LEMMA SettingsType == TypeOK => Settings \in SomeSettings
  <1> SUFFICES ASSUME TypeOK PROVE Settings \in SomeSettings
    OBVIOUS
  <1>1. \A p \in Places : files[p].runtime \subseteq Keys
    BY SettingsAssumption DEF TypeOK, Generated, NoFile
  <1>2. Settings.keys \in SUBSET Keys
    BY <1>1, LastPlaceWins DEF Settings
  <1> QED
    BY <1>2, LastPlaceWins DEF Settings, SomeSettings

-----------------------------------------------------------------------------
(* The configurations *)

\* Every parameter gets a value from one of the sources.
LEMMA RuntimesType ==
  ASSUME NEW s \in SomeSettings, NEW arguments
  PROVE  CommandLine(s, arguments) \in Runtimes /\ FromSettings(s) \in Runtimes
  <1>1. \A k \in Keys, other \in Sources : Get(s, k, other) \in Sources
    BY DEF SomeSettings, Get, Sources
  <1>2. \A k \in Keys : ModelDefault(k) \in Sources
    BY DEF ModelDefault, Sources
  <1>3. \A k \in Keys : OptionDefault(s, k) \in Sources
    <2> SUFFICES ASSUME NEW k \in Keys PROVE OptionDefault(s, k) \in Sources
      OBVIOUS
    <2>1. {"none", "current"} \subseteq Sources
      BY DEF Sources
    <2> QED
      BY <1>1, <1>2, <2>1 DEF OptionDefault
  <1>4. "argument" \in Sources
    BY DEF Sources
  <1> QED
    BY <1>1, <1>2, <1>3, <1>4 DEF CommandLine, FromSettings, Runtimes

\* A table with all old keys makes a valid configuration, whatever options are
\* given: the newer ones fall back on the model.
LEMMA OldKeysSuffice ==
  ASSUME NEW s \in SomeSettings, NEW arguments, Plain \ Nullable \subseteq s.keys
  PROVE  Valid(CommandLine(s, arguments)) /\ Valid(FromSettings(s))
  <1> SUFFICES ASSUME NEW k \in Keys \ Nullable
               PROVE  /\ CommandLine(s, arguments)[k] # "none"
                      /\ FromSettings(s)[k] # "none"
    BY DEF Valid
  <1>1. s.place # "none"
    BY DEF SomeSettings
  <1>2. ModelDefault(k) # "none"
    BY DEF ModelDefault
  <1>3. k \notin ArgumentOnly
    BY DEF ArgumentOnly, Nullable
  <1>4. OptionDefault(s, k) # "none" \/ k \in NoOption
    <2>1. CASE k \in Plain
      BY <2>1, <1>1 DEF OptionDefault, Get
    <2>2. CASE k \in Guarded /\ k \notin Plain
      BY <2>2, <1>1, <1>2 DEF OptionDefault, Get
    <2> QED
      BY <2>1, <2>2, <1>3, SettingsAssumption
  <1>5. CommandLine(s, arguments)[k] # "none"
    BY <1>2, <1>4 DEF CommandLine
  <1>6. FromSettings(s)[k] # "none"
    BY <1>1, <1>2 DEF FromSettings, Get
  <1> QED
    BY <1>5, <1>6

-----------------------------------------------------------------------------
(* The invariant *)

\* What the last configuration was built from.
BuiltFromSettings ==
  config # NotRead =>
    config.runtime = Build(config.settings,
                           IF config.by = "command"
                           THEN CommandLine(config.settings, config.arguments)
                           ELSE FromSettings(config.settings))

IInv == TypeOK /\ BuiltFromSettings

\* At first there is neither a file nor a configuration.
LEMMA InitInvariant == Init => IInv
  <1> SUFFICES ASSUME Init PROVE IInv
    OBVIOUS
  <1>1. files \in [Places -> Contents \cup {Generated, NoFile}]
    BY DEF Init
  <1>2. edits \in 0 .. Edits
    BY SettingsAssumption DEF Init
  <1> QED
    BY <1>1, <1>2 DEF Init, IInv, TypeOK, BuiltFromSettings

\* What is built has a value for every parameter, or is a failure.
LEMMA BuildType ==
  ASSUME NEW s \in SomeSettings, NEW runtime \in Runtimes
  PROVE  /\ Build(s, runtime) \in Runtimes
         /\ Build(s, runtime) = Failed \/ Valid(Build(s, runtime))
  BY DEF Build, Failed, Runtimes, Sources

\* One case per action.
LEMMA NextInvariant == IInv /\ [Next]_vars => IInv'
  <1> SUFFICES ASSUME IInv, [Next]_vars PROVE IInv'
    OBVIOUS
  <1> USE DEF IInv
  <1>1. ASSUME NEW p \in Places, Edit(p) PROVE IInv'
    BY <1>1, SettingsAssumption DEF Edit, TypeOK, BuiltFromSettings
  <1>2. ASSUME NEW p \in Places, DefaultConfig(p) PROVE IInv'
    BY <1>2, SettingsAssumption DEF DefaultConfig, TypeOK, BuiltFromSettings
  <1>3. CASE Export
    BY <1>3 DEF Export, TypeOK, BuiltFromSettings
  <1>4. CASE Import
    BY <1>4, SettingsType DEF Import, TypeOK, BuiltFromSettings
  <1>5. CASE ProgramEnds
    BY <1>5 DEF ProgramEnds, TypeOK, BuiltFromSettings
  <1>6. ASSUME NEW arguments \in Arguments, Configure(arguments) PROVE IInv'
    <2> DEFINE runtime == Build(Settings, CommandLine(Settings, arguments))
    <2>1. Settings \in SomeSettings
      BY SettingsType
    <2>2. runtime \in Runtimes /\ (runtime = Failed \/ Valid(runtime))
      BY <2>1, RuntimesType, BuildType
    <2>3. config' = [by |-> "command", arguments |-> arguments, settings |-> Settings,
                     runtime |-> runtime]
      BY <1>6 DEF Configure
    <2> HIDE DEF runtime
    <2>4. TypeOK'
      BY <1>6, <2>1, <2>2, <2>3 DEF Configure, TypeOK, Arguments
    <2>5. BuiltFromSettings'
      BY <2>3 DEF BuiltFromSettings, runtime
    <2> QED
      BY <2>4, <2>5
  <1>7. CASE MakeDefaultSparkConfig
    <2> DEFINE runtime == Build(program, FromSettings(program))
    <2>1. program \in SomeSettings
      BY <1>7 DEF MakeDefaultSparkConfig, TypeOK
    <2>2. runtime \in Runtimes /\ (runtime = Failed \/ Valid(runtime))
      BY <2>1, RuntimesType, BuildType
    <2>3. config' = [by |-> "program", arguments |-> {}, settings |-> program,
                     runtime |-> runtime]
      BY <1>7 DEF MakeDefaultSparkConfig
    <2> HIDE DEF runtime
    <2>4. TypeOK'
      BY <1>7, <2>1, <2>2, <2>3 DEF MakeDefaultSparkConfig, TypeOK, Arguments
    <2>5. BuiltFromSettings'
      BY <2>3 DEF BuiltFromSettings, runtime
    <2> QED
      BY <2>4, <2>5
  <1>8. CASE UNCHANGED vars
    BY <1>8 DEF vars, TypeOK, BuiltFromSettings
  <1> QED
    BY <1>1, <1>2, <1>3, <1>4, <1>5, <1>6, <1>7, <1>8 DEF Next

-----------------------------------------------------------------------------
(* The theorems *)

\* The invariant holds in every reachable state.
THEOREM Invariance == Spec => []IInv
  BY InitInvariant, NextInvariant, PTL DEF Spec

\* Every reachable state is well typed: what is built is a failure or has a value
\* for each parameter that needs one.
THEOREM TypeCorrect == Spec => []TypeOK
  <1>1. IInv => TypeOK
    BY DEF IInv
  <1> QED
    BY <1>1, Invariance, PTL

\* A settings file with the old keys serves the commands and programs of every
\* later version, whatever options a user gives.
THEOREM OldFilesGoOn ==
  ASSUME Keys \ Nullable # {}
  PROVE  Spec => []OldFilesServe
  <1>1. IInv => OldFilesServe
    <2> SUFFICES ASSUME IInv, config # NotRead, Complete(config.settings)
                 PROVE  config.runtime # Failed
      BY DEF OldFilesServe, Built
    <2>1. PICK k \in Keys \ Nullable : TRUE
      OBVIOUS
    <2>2. config.settings \in SomeSettings
      BY DEF IInv, TypeOK
    <2>3. Valid(config.runtime)
      BY <2>2, OldKeysSuffice DEF IInv, BuiltFromSettings, Build, Complete
    <2> QED
      BY <2>1, <2>3 DEF Valid, Failed
  <1> QED
    BY <1>1, Invariance, PTL

\* A command without arguments and a program that starts now read the same.
THEOREM CommandsAndProgramsAgree == Spec => []CommandAndProgramAgree
  <1>1. IInv => CommandAndProgramAgree
    <2> SUFFICES ASSUME IInv, Valid(CommandLine(Settings, {})),
                        NEW k \in Plain \cup Guarded
                 PROVE  CommandLine(Settings, {})[k] = FromSettings(Settings)[k]
      BY DEF CommandAndProgramAgree
    <2>1. k \in Keys /\ k \notin NoOption /\ k # "python_path"
      BY DEF Plain, Guarded, NoOption
    <2>2. CommandLine(Settings, {})[k] = OptionDefault(Settings, k)
      BY <2>1 DEF CommandLine
    <2>3. CASE k \in Plain
      BY <2>1, <2>2, <2>3 DEF OptionDefault, FromSettings, Get, ModelDefault, Valid
    <2>4. CASE k \in Guarded /\ k \notin Plain
      BY <2>1, <2>2, <2>4 DEF OptionDefault, FromSettings, Get
    <2> QED
      BY <2>3, <2>4
  <1> QED
    BY <1>1, Invariance, PTL

\* What a command takes from a settings file is in no later one with a table.
THEOREM LocalOverrides == Spec => LocalOverridesShared
  <1>1. IInv /\ [Next]_vars =>
          [\A k \in Keys :
             config' # config /\ config'.by = "command" /\ config'.runtime[k] \in Places
               => /\ config'.runtime[k] = "home" => ~files["local"].table
                  /\ config'.runtime[k] = "shared" => ~files["local"].table
                  /\ config'.runtime[k] = "home" => ~(exported /\ files["shared"].table)]_vars
    <2> SUFFICES ASSUME IInv, Next, NEW k \in Keys,
                        config' # config, config'.by = "command",
                        config'.runtime[k] \in Places
                 PROVE  config'.runtime[k] = RuntimePlace
      BY LastPlaceWins
    <2>1. PICK arguments \in Arguments : Configure(arguments)
      BY DEF Next, Edit, DefaultConfig, Export, Import, ProgramEnds, MakeDefaultSparkConfig
    <2>2. config'.runtime = Build(Settings, CommandLine(Settings, arguments))
      BY <2>1 DEF Configure
    <2>3. config'.runtime[k] = CommandLine(Settings, arguments)[k]
      BY <2>2 DEF Build, Failed
    <2>4. CommandLine(Settings, arguments)[k] \in {"default", "none", "argument"}
          \/ CommandLine(Settings, arguments)[k] = OptionDefault(Settings, k)
      BY DEF CommandLine, ModelDefault
    <2>5. OptionDefault(Settings, k) \in {"default", "none", "current", Settings.place}
      BY DEF OptionDefault, Get, ModelDefault
    <2>6. Settings.place = RuntimePlace
      BY DEF Settings
    <2> QED
      BY <2>3, <2>4, <2>5, <2>6
  <1>2. Spec => [][Next]_vars
    BY DEF Spec
  <1> QED
    BY <1>1, <1>2, Invariance, PTL DEF LocalOverridesShared
=============================================================================
