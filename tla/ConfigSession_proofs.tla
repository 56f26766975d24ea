-------------------------- MODULE ConfigSession_proofs --------------------------
(***************************************************************************)
(* Proofs about ConfigSession, for every number of processes, every set of *)
(* command lines, answers and initial files, and every set of faults.      *)
(***************************************************************************)
EXTENDS ConfigSession, ConfigFile_proofs

-------------------------------------------------------------------------------
(***************************************************************************)
(* The commands and the setup keep the object well formed.                 *)
(***************************************************************************)

LEMMA LastNamedBounds ==
  ASSUME NEW profiles \in Seq(Profile), NEW name, NEW other \in 0 .. Len(profiles)
  PROVE  LastNamed(profiles, name, other) \in 0 .. Len(profiles)
<1> DEFINE named == {i \in DOMAIN profiles : profiles[i].name = name}
<1>1. CASE named = {}
  BY <1>1 DEF LastNamed
<1>2. CASE named # {}
  <2>1. named \in SUBSET (0 .. Len(profiles)) /\ Len(profiles) \in Nat
    OBVIOUS
  <2>2. \E i \in named : \A j \in named : j <= i
    <3> HIDE DEF named
    <3> QED
      BY <1>2, <2>1, MaximumExists
  <2>3. LastNamed(profiles, name, other) = CHOOSE i \in named : \A j \in named : j <= i
    BY <1>2 DEF LastNamed
  <2>4. LastNamed(profiles, name, other) \in named
    BY <2>2, <2>3, Zenon
  <2> QED
    BY <2>1, <2>4
<1> QED
  BY <1>1, <1>2

LEMMA ToPortType ==
  ASSUME NEW text \in PortText
  PROVE  ToPort(text) \in Port
BY ConfigFileAssumption DEF PortText, ToPort, Port

LEMMA DropSlashType ==
  ASSUME NEW url \in Url
  PROVE  DropSlash(url) \in Url
BY DEF Url, DropSlash

\* An update with one argument that its handler can read has an argument of
\* the kind the handler expects.
LEMMA ArgumentType ==
  ASSUME NEW c, IsCommand(c), IsUpdate(c)
  PROVE  /\ c.args[1] \in ArgumentOf(c.op)
         /\ c.op \in ProgramOps \cup {"profile"} \cup ProfileOps
<1>1. c.args \in Seq(ArgumentOf(c.op)) /\ Len(c.args) >= 1
  BY DEF IsCommand, IsUpdate
<1> QED
  BY <1>1 DEF IsCommand, IsUpdate, Ops

LEMMA SetActiveType ==
  ASSUME NEW c, WellFormed(c), c.current # 0, NEW profile \in Profile
  PROVE  WellFormed([c EXCEPT !.profiles[c.current] = profile])
<1>1. c.profiles \in Seq(Profile) /\ c.current \in 1 .. Len(c.profiles)
  BY DEF WellFormed, Config
<1>2. /\ [c.profiles EXCEPT ![c.current] = profile] \in Seq(Profile)
      /\ Len([c.profiles EXCEPT ![c.current] = profile]) = Len(c.profiles)
  BY <1>1
<1> QED
  BY <1>1, <1>2 DEF WellFormed, Config

\* What an update of the active profile makes of the object: another profile in
\* the place of the active one, with the argument in the setting that the command
\* names and every other setting kept.
LEMMA AssignActive ==
  ASSUME NEW c, WellFormed(c), c.current # 0,
         NEW u, IsCommand(u), IsUpdate(u), u.op \in ProfileOps
  PROVE  \E new \in Profile :
           /\ Assign(c, u) = [c EXCEPT !.profiles[c.current] = new]
           /\ new.name = ActiveProfile(c).name
           /\ \A op \in ProfileOps :
                ProfileSetting(new, op) = IF op = u.op THEN ArgumentValue(u)
                                          ELSE ProfileSetting(ActiveProfile(c), op)
<1> DEFINE arg == u.args[1]
           old == c.profiles[c.current]
           Goal(new) == /\ Assign(c, u) = [c EXCEPT !.profiles[c.current] = new]
                        /\ new.name = old.name
                        /\ \A op \in ProfileOps :
                             ProfileSetting(new, op) =
                               IF op = u.op THEN ArgumentValue(u)
                               ELSE ProfileSetting(old, op)
<1>1. arg \in ArgumentOf(u.op)
  BY ArgumentType
<1>2. old \in Profile
  BY DEF WellFormed, Config
<1>3. CASE u.op = "url"
  <2> DEFINE new == [old EXCEPT !.url = DropSlash(arg)]
  <2>1. DropSlash(arg) \in Url
    BY <1>1, <1>3, DropSlashType DEF ArgumentOf, ProgramOps, SslOps
  <2>2. new \in Profile
    BY <1>2, <2>1 DEF Profile
  <2>3. Assign(c, u) = [c EXCEPT !.profiles[c.current] = new]
    BY <1>3 DEF Assign, ProgramOps
  <2>4. Goal(new)
    BY <1>2, <1>3, <2>3 DEF ProfileSetting, ArgumentValue, ProfileOps, SslOps, Profile
  <2> QED
    BY <2>2, <2>4 DEF ActiveProfile
<1>4. CASE u.op = "key"
  <2> DEFINE new == [old EXCEPT !.key = arg]
  <2>1. arg \in Keys
    BY <1>1, <1>4 DEF ArgumentOf, ProgramOps, SslOps
  <2>2. new \in Profile
    BY <1>2, <2>1 DEF Profile
  <2>3. Assign(c, u) = [c EXCEPT !.profiles[c.current] = new]
    BY <1>4 DEF Assign, ProgramOps
  <2>4. Goal(new)
    BY <1>2, <1>4, <2>3 DEF ProfileSetting, ArgumentValue, ProfileOps, SslOps, Profile
  <2> QED
    BY <2>2, <2>4 DEF ActiveProfile
<1>5. CASE u.op = "port"
  <2> DEFINE new == [old EXCEPT !.port = ToPort(arg)]
  <2>1. ToPort(arg) \in Port
    BY <1>1, <1>5, ToPortType DEF ArgumentOf, ProgramOps, SslOps
  <2>2. new \in Profile
    BY <1>2, <2>1 DEF Profile
  <2>3. Assign(c, u) = [c EXCEPT !.profiles[c.current] = new]
    BY <1>5 DEF Assign, ProgramOps
  <2>4. Goal(new)
    BY <1>2, <1>5, <2>3 DEF ProfileSetting, ArgumentValue, ProfileOps, SslOps, Profile
  <2> QED
    BY <2>2, <2>4 DEF ActiveProfile
<1>6. CASE u.op = "use-ssl"
  <2> DEFINE new == [old EXCEPT !.use_ssl = ToBool(arg)]
  <2>1. new \in Profile
    BY <1>2 DEF Profile, ToBool
  <2>2. Assign(c, u) = [c EXCEPT !.profiles[c.current] = new]
    BY <1>6 DEF Assign, ProgramOps
  <2>3. Goal(new)
    BY <1>2, <1>6, <2>2 DEF ProfileSetting, ArgumentValue, ProfileOps, SslOps, Profile
  <2> QED
    BY <2>1, <2>3 DEF ActiveProfile
<1>7. CASE u.op = "verify-ssl"
  <2> DEFINE new == [old EXCEPT !.verify_ssl = ToBool(arg)]
  <2>1. new \in Profile
    BY <1>2 DEF Profile, ToBool
  <2>2. Assign(c, u) = [c EXCEPT !.profiles[c.current] = new]
    BY <1>7 DEF Assign, ProgramOps
  <2>3. Goal(new)
    BY <1>2, <1>7, <2>2 DEF ProfileSetting, ArgumentValue, ProfileOps, SslOps, Profile
  <2> QED
    BY <2>1, <2>3 DEF ActiveProfile
<1> QED
  BY <1>3, <1>4, <1>5, <1>6, <1>7 DEF ProfileOps, SslOps

\* What the other updates make of it.
LEMMA AssignProgram ==
  ASSUME NEW c, NEW u, IsCommand(u), IsUpdate(u), u.op \in ProgramOps
  PROVE  /\ ArgumentValue(u) \in Programs
         /\ Assign(c, u) = [c EXCEPT !.editor = ArgumentValue(u)]
<1>1. u.args[1] \in ArgumentOf(u.op)
  BY ArgumentType
<1> QED
  BY <1>1 DEF Assign, ArgumentValue, ArgumentOf, ProgramOps, SslOps

LEMMA AssignName ==
  ASSUME NEW c, WellFormed(c), NEW u, IsCommand(u), IsUpdate(u), u.op = "profile"
  PROVE  /\ ArgumentValue(u) \in Names
         /\ \E n \in 0 .. Len(c.profiles) :
              Assign(c, u) = [c EXCEPT !.profile_name = ArgumentValue(u),
                                       !.current = n]
<1>1. u.args[1] \in ArgumentOf(u.op)
  BY ArgumentType
<1>2. LastNamed(c.profiles, u.args[1], c.current) \in 0 .. Len(c.profiles)
  BY LastNamedBounds DEF WellFormed, Config
<1>3. Assign(c, u) = [c EXCEPT !.profile_name = u.args[1],
                               !.current = LastNamed(c.profiles, u.args[1], c.current)]
  BY DEF Assign, ProgramOps
<1>4. u.args[1] \in Names /\ ArgumentValue(u) = u.args[1]
  BY <1>1 DEF ArgumentOf, ArgumentValue, ProgramOps, SslOps
<1> QED
  BY <1>2, <1>3, <1>4

LEMMA AssignType ==
  ASSUME NEW c, WellFormed(c), NEW u, IsCommand(u), IsUpdate(u),
         u.op \in ProfileOps => c.current # 0
  PROVE  WellFormed(Assign(c, u))
<1>1. CASE u.op \in ProgramOps
  <2>1. PICK v \in Programs : Assign(c, u) = [c EXCEPT !.editor = v]
    BY <1>1, AssignProgram
  <2> QED
    BY <2>1 DEF WellFormed, Config
<1>2. CASE u.op = "profile"
  <2>1. c.profiles \in Seq(Profile) /\ Len(c.profiles) \in Nat
    BY DEF WellFormed, Config
  <2>2. /\ ArgumentValue(u) \in Names
        /\ \E n \in 0 .. Len(c.profiles) :
             Assign(c, u) = [c EXCEPT !.profile_name = ArgumentValue(u), !.current = n]
    BY <1>2, AssignName, Zenon
  <2>3. PICK n \in 0 .. Len(c.profiles) :
          Assign(c, u) = [c EXCEPT !.profile_name = ArgumentValue(u), !.current = n]
    BY <2>2
  <2>4. n \in Nat
    BY <2>1
  <2> QED
    BY <2>1, <2>2, <2>3, <2>4 DEF WellFormed, Config
<1>3. CASE u.op \in ProfileOps
  BY <1>3, AssignActive, SetActiveType
<1> QED
  BY <1>1, <1>2, <1>3, ArgumentType

LEMMA SetupType ==
  ASSUME NEW a \in Answer
  PROVE  /\ WellFormed(Setup(a))
         /\ \E i \in DOMAIN Setup(a).profiles :
              Setup(a).profiles[i].name = Setup(a).profile_name
<1>1. SetupProfile(a) \in Profile
  BY ConfigFileAssumption DEF Answer, SetupProfile, Profile, Port
<1>2. /\ Setup(a).profiles = <<SetupProfile(a)>>
      /\ Setup(a).profile_name = a.name
      /\ SetupProfile(a).name = a.name
  BY DEF Setup, NewConfig, SetupProfile
<1>3. WellFormed(Setup(a))
  <2>1. Setup(a) = [browser |-> a.browser, editor |-> a.editor,
                    profile_name |-> a.name, profiles |-> <<SetupProfile(a)>>,
                    current |-> 0]
    BY DEF Setup, NewConfig
  <2>2. <<SetupProfile(a)>> \in Seq(Profile) /\ Len(<<SetupProfile(a)>>) = 1
    BY <1>1
  <2> QED
    BY <2>1, <2>2 DEF WellFormed, Config, Answer
<1>4. 1 \in DOMAIN Setup(a).profiles /\ Setup(a).profiles[1] = SetupProfile(a)
  BY <1>2
<1> QED
  BY <1>2, <1>3, <1>4

-------------------------------------------------------------------------------
(***************************************************************************)
(* What a program that starts after an undisturbed update finds: the text  *)
(* loaded, the update changed the object, and the object was saved.        *)
(***************************************************************************)

Updated(text, u) == Settings(Saved(Assign(Settings(text), u)))

LEMMA UpdatedProgram ==
  ASSUME NEW text \in File, Loads(text),
         NEW u, IsCommand(u), IsUpdate(u), u.op \in ProgramOps
  PROVE  /\ ArgumentValue(u) \in Programs
         /\ Updated(text, u) = [Settings(text) EXCEPT !.editor = ArgumentValue(u)]
<1> DEFINE c == Settings(text)
<1>1. /\ WellFormed(c) /\ c.current = Len(c.profiles) /\ c.current # 0
      /\ \E i \in DOMAIN c.profiles : c.profiles[i].name = c.profile_name
  BY LoadedSettings DEF Settings
<1> HIDE DEF c
<1>2. PICK d : d = Assign(c, u)
  OBVIOUS
<1>3. PICK v \in Programs : v = ArgumentValue(u) /\ d = [c EXCEPT !.editor = v]
  BY <1>2, AssignProgram
<1>4. WellFormed(d) /\ d.profiles = c.profiles /\ d.profile_name = c.profile_name
  BY <1>1, <1>3 DEF WellFormed, Config
<1>5. Settings(Saved(d)) = [d EXCEPT !.current = Len(d.profiles)]
  BY <1>1, <1>4, SavedConfigLoads DEF Settings
<1>6. [d EXCEPT !.current = Len(d.profiles)] = [c EXCEPT !.editor = v]
  BY <1>1, <1>3, <1>4 DEF WellFormed, Config
<1> QED
  BY <1>2, <1>3, <1>5, <1>6 DEF Updated, c

LEMMA UpdatedName ==
  ASSUME NEW text \in File, Loads(text),
         NEW u, IsCommand(u), IsUpdate(u), u.op = "profile"
  PROVE  /\ ArgumentValue(u) \in Names
         /\ \E n \in 0 .. Len(Settings(text).profiles) :
              Updated(text, u) = [Settings(text) EXCEPT
                                    !.profile_name = ArgumentValue(u), !.current = n]
<1> DEFINE c == Settings(text)
<1>1. WellFormed(c)
  BY LoadedSettings DEF Settings
<1> HIDE DEF c
<1>2. PICK d : d = Assign(c, u)
  OBVIOUS
<1>3. PICK v \in Names : v = ArgumentValue(u)
  BY <1>1, AssignName
<1>4. PICK n \in 0 .. Len(c.profiles) : d = [c EXCEPT !.profile_name = v, !.current = n]
  <2>1. \E n \in 0 .. Len(c.profiles) :
          Assign(c, u) = [c EXCEPT !.profile_name = ArgumentValue(u), !.current = n]
    BY <1>1, AssignName, Zenon
  <2> QED
    BY <1>2, <1>3, <2>1
<1>5. WellFormed(d) /\ d.profiles = c.profiles
  <2>1. c.profiles \in Seq(Profile) /\ Len(c.profiles) \in Nat /\ n \in Nat
    BY <1>1 DEF WellFormed, Config
  <2> QED
    BY <1>1, <1>4, <2>1 DEF WellFormed, Config
<1>6. PICK m \in 0 .. Len(c.profiles) : Settings(Saved(d)) = [d EXCEPT !.current = m]
  <2>1. Len(c.profiles) \in 0 .. Len(c.profiles) /\ 0 \in 0 .. Len(c.profiles)
    BY <1>1 DEF WellFormed, Config
  <2>2. \/ Settings(Saved(d)) = [d EXCEPT !.current = Len(d.profiles)]
        \/ Settings(Saved(d)) = [d EXCEPT !.current = 0]
    <3>1. CASE \E i \in DOMAIN d.profiles : d.profiles[i].name = d.profile_name
      BY <1>5, <3>1, SavedSettings DEF Settings
    <3>2. CASE ~ \E i \in DOMAIN d.profiles : d.profiles[i].name = d.profile_name
      BY <1>5, <3>2, SavedSettings DEF Settings
    <3> QED
      BY <3>1, <3>2
  <2> QED
    BY <1>5, <2>1, <2>2
<1>7. [d EXCEPT !.current = m] = [c EXCEPT !.profile_name = v, !.current = m]
  BY <1>1, <1>4 DEF WellFormed, Config
<1> QED
  BY <1>2, <1>3, <1>6, <1>7 DEF Updated, c

LEMMA UpdatedActive ==
  ASSUME NEW text \in File, Loads(text),
         NEW u, IsCommand(u), IsUpdate(u), u.op \in ProfileOps
  PROVE  \E new \in Profile :
           /\ Updated(text, u) = [Settings(text) EXCEPT
                                    !.profiles[Settings(text).current] = new]
           /\ new.name = ActiveProfile(Settings(text)).name
           /\ \A op \in ProfileOps :
                ProfileSetting(new, op) =
                  IF op = u.op THEN ArgumentValue(u)
                  ELSE ProfileSetting(ActiveProfile(Settings(text)), op)
<1> DEFINE c == Settings(text)
           Rest(new) == \A op \in ProfileOps :
                          ProfileSetting(new, op) =
                            IF op = u.op THEN ArgumentValue(u)
                            ELSE ProfileSetting(ActiveProfile(c), op)
<1>1. /\ WellFormed(c) /\ c.current = Len(c.profiles) /\ c.current # 0
      /\ \E i \in DOMAIN c.profiles : c.profiles[i].name = c.profile_name
  BY LoadedSettings DEF Settings
<1> HIDE DEF c
<1>2. PICK d : d = Assign(c, u)
  OBVIOUS
<1>3. PICK new \in Profile : /\ d = [c EXCEPT !.profiles[c.current] = new]
                             /\ new.name = ActiveProfile(c).name
                             /\ Rest(new)
  BY <1>1, <1>2, AssignActive
<1> HIDE DEF Rest
<1>4. WellFormed(d)
  BY <1>1, <1>3, SetActiveType
<1>5. /\ c.profiles \in Seq(Profile) /\ c.current \in DOMAIN c.profiles
      /\ d.profiles = [c.profiles EXCEPT ![c.current] = new]
      /\ d.profile_name = c.profile_name /\ d.current = c.current
      /\ DOMAIN d.profiles = DOMAIN c.profiles /\ Len(d.profiles) = Len(c.profiles)
  BY <1>1, <1>3 DEF WellFormed, Config
<1>6. \E i \in DOMAIN d.profiles : d.profiles[i].name = d.profile_name
  <2>1. PICK i \in DOMAIN c.profiles : c.profiles[i].name = c.profile_name
    BY <1>1
  <2>2. d.profiles[i].name = c.profiles[i].name
    BY <1>3, <1>5 DEF ActiveProfile
  <2> QED
    BY <1>5, <2>1, <2>2
<1>7. Settings(Saved(d)) = [d EXCEPT !.current = Len(d.profiles)]
  BY <1>4, <1>6, SavedConfigLoads DEF Settings
<1>8. [d EXCEPT !.current = Len(d.profiles)] = d
  BY <1>1, <1>4, <1>5 DEF WellFormed, Config
<1> QED
  BY <1>2, <1>3, <1>7, <1>8 DEF Updated, Rest, c

\* What a query of a member of the active profile prints.
LEMMA PrintedQuery ==
  ASSUME NEW c, NEW op \in ProfileOps
  PROVE  Printed(c, [op |-> op, args |-> <<>>]) = ProfileSetting(ActiveProfile(c), op)
<1>1. ~IsUpdate([op |-> op, args |-> <<>>])
  BY DEF IsUpdate
<1> QED
  BY <1>1 DEF Printed, ProfileSetting, ProfileOps, SslOps

\* An update that was not disturbed is in the file and changes nothing else.
LEMMA UpdateStored ==
  ASSUME NEW text \in File, Loads(text), NEW u, IsCommand(u), IsUpdate(u),
         u.op # "browser"
  PROVE  /\ Printed(Updated(text, u), [op |-> u.op, args |-> <<>>]) = ArgumentValue(u)
         /\ \A op \in ProgramOps \cup {"profile", "name"} \cup ProfileOps :
              op # u.op =>
                SettingOf(Updated(text, u), op) = SettingOf(Settings(text), op)
         /\ u.op \in ProfileOps =>
              \A i \in DOMAIN Settings(text).profiles :
                i # Settings(text).current =>
                  Updated(text, u).profiles[i] = Settings(text).profiles[i]
<1> DEFINE c == Settings(text)
           d == Updated(text, u)
           v == ArgumentValue(u)
<1>1. WellFormed(c) /\ c.current = Len(c.profiles) /\ c.current # 0
  BY LoadedSettings DEF Settings
<1>2. CASE u.op \in ProgramOps
  <2>1. d = [c EXCEPT !.editor = v]
    BY <1>2, UpdatedProgram
  <2> HIDE DEF c, d, v
  <2>2. /\ d.browser = c.browser /\ d.editor = v /\ d.profile_name = c.profile_name
        /\ d.profiles = c.profiles
    BY <1>1, <2>1 DEF WellFormed, Config
  <2>3. u.op = "editor" /\ u.op \notin ProfileOps
    BY <1>2 DEF ProgramOps, ProfileOps, SslOps
  <2>4. Printed(d, [op |-> "editor", args |-> <<>>]) = v
    BY <2>2 DEF Printed
  <2>5. \A op : op # "editor" => SettingOf(d, op) = SettingOf(c, op)
    BY <2>2 DEF SettingOf
  <2> QED
    BY <2>3, <2>4, <2>5 DEF c, d, v
<1>3. CASE u.op = "profile"
  <2>1. PICK n : d = [c EXCEPT !.profile_name = v, !.current = n]
    BY <1>3, UpdatedName, Zenon
  <2> HIDE DEF c, d, v
  <2>2. /\ d.browser = c.browser /\ d.editor = c.editor /\ d.profile_name = v
        /\ d.profiles = c.profiles
    BY <1>1, <2>1 DEF WellFormed, Config
  <2>3. u.op = "profile" /\ u.op \notin ProfileOps
    BY <1>3 DEF ProfileOps, SslOps
  <2>4. Printed(d, [op |-> "profile", args |-> <<>>]) = v
    BY <2>2 DEF Printed
  <2>5. \A op : op # "profile" => SettingOf(d, op) = SettingOf(c, op)
    BY <2>2 DEF SettingOf
  <2> QED
    BY <2>3, <2>4, <2>5 DEF c, d, v
<1>4. CASE u.op \in ProfileOps
  <2> DEFINE Rest(new) == \A op \in ProfileOps :
                            ProfileSetting(new, op) =
                              IF op = u.op THEN v
                              ELSE ProfileSetting(ActiveProfile(c), op)
  <2>1. PICK new \in Profile : /\ d = [c EXCEPT !.profiles[c.current] = new]
                               /\ new.name = ActiveProfile(c).name
                               /\ Rest(new)
    BY <1>4, UpdatedActive
  <2> HIDE DEF c, d, v
  <2>2. /\ c.profiles \in Seq(Profile) /\ c.current \in DOMAIN c.profiles
        /\ d.profiles = [c.profiles EXCEPT ![c.current] = new]
        /\ DOMAIN d.profiles = DOMAIN c.profiles
        /\ d.browser = c.browser /\ d.editor = c.editor
        /\ d.profile_name = c.profile_name /\ d.current = c.current
        /\ ActiveProfile(d) = new
    BY <1>1, <2>1 DEF WellFormed, Config, ActiveProfile
  <2>4. Printed(d, [op |-> u.op, args |-> <<>>]) = v
    BY <1>4, <2>1, <2>2, PrintedQuery
  <2>5. ASSUME NEW op \in ProgramOps \cup {"profile", "name"} \cup ProfileOps,
               op # u.op
        PROVE  SettingOf(d, op) = SettingOf(c, op)
    <3>1. CASE op \in {"name"} \cup ProfileOps
      <4>1. ProfileSetting(new, op) = ProfileSetting(c.profiles[c.current], op)
        <5>1. CASE op = "name"
          BY <2>1, <5>1 DEF ProfileSetting, ActiveProfile
        <5>2. CASE op \in ProfileOps
          BY <2>1, <2>5, <5>2 DEF ActiveProfile
        <5> QED
          BY <3>1, <5>1, <5>2
      <4>2. \A i \in DOMAIN c.profiles :
              ProfileSetting(d.profiles[i], op) = ProfileSetting(c.profiles[i], op)
        BY <2>2, <4>1, Zenon
      <4>3. \A e : SettingOf(e, op) = [i \in DOMAIN e.profiles |->
                                          ProfileSetting(e.profiles[i], op)]
        BY <3>1 DEF SettingOf, ProfileOps, SslOps
      <4>4. [i \in DOMAIN c.profiles |-> ProfileSetting(d.profiles[i], op)] =
            [i \in DOMAIN c.profiles |-> ProfileSetting(c.profiles[i], op)]
        BY <4>2
      <4>5. SettingOf(d, op) = [i \in DOMAIN c.profiles |-> ProfileSetting(d.profiles[i], op)]
        BY <2>2, <4>3
      <4> QED
        BY <4>3, <4>4, <4>5
    <3>2. CASE op \in ProgramOps \cup {"profile"}
      BY <2>2, <3>2 DEF SettingOf, ProgramOps
    <3> QED
      BY <3>1, <3>2
  <2>6. \A i \in DOMAIN c.profiles : i # c.current => d.profiles[i] = c.profiles[i]
    BY <2>2
  <2> QED
    BY <1>4, <2>4, <2>5, <2>6 DEF c, d, v
<1> QED
  BY <1>2, <1>3, <1>4, ArgumentType

\* An update that is storable leaves a text that loads: the handlers keep a name
\* that some profile has, and config_profile takes one.
LEMMA UpdateLoads ==
  ASSUME NEW text \in File, Loads(text), NEW u, IsCommand(u), IsUpdate(u),
         Storable(u, Saved(Assign(Settings(text), u)))
  PROVE  Loads(Saved(Assign(Settings(text), u)))
<1> DEFINE c == Settings(text)
           d == Assign(c, u)
<1>1. /\ WellFormed(c) /\ c.current = Len(c.profiles) /\ c.current # 0
      /\ \E i \in DOMAIN c.profiles : c.profiles[i].name = c.profile_name
  BY LoadedSettings DEF Settings
<1>2. CASE u.op \in ProgramOps
  <2> HIDE DEF c
  <2>1. PICK v \in Programs : d = [c EXCEPT !.editor = v]
    BY <1>2, AssignProgram
  <2> HIDE DEF d
  <2>2. WellFormed(d) /\ d.profiles = c.profiles /\ d.profile_name = c.profile_name
    BY <1>1, <2>1 DEF WellFormed, Config
  <2>3. Loads(Saved(d))
    BY <1>1, <2>2, SavedConfigLoads
  <2> QED
    BY <2>3 DEF c, d
<1>3. CASE u.op = "profile"
  <2> HIDE DEF c
  <2>1. \E n \in 0 .. Len(c.profiles) :
          d = [c EXCEPT !.profile_name = ArgumentValue(u), !.current = n]
    BY <1>1, <1>3, AssignName, Zenon
  <2>2. ArgumentValue(u) \in Names /\ ArgumentValue(u) = u.args[1]
    <3>1. ArgumentValue(u) \in Names
      BY <1>1, <1>3, AssignName
    <3> QED
      BY <1>3, <3>1 DEF ArgumentValue, SslOps
  <2>3. PICK n \in 0 .. Len(c.profiles) :
          d = [c EXCEPT !.profile_name = u.args[1], !.current = n]
    BY <2>1, <2>2
  <2> HIDE DEF d
  <2>4. /\ WellFormed(d) /\ d.profiles = c.profiles /\ d.profile_name = u.args[1]
    <3>1. c.profiles \in Seq(Profile) /\ Len(c.profiles) \in Nat /\ n \in Nat
      BY <1>1 DEF WellFormed, Config
    <3> QED
      BY <1>1, <2>2, <2>3, <3>1 DEF WellFormed, Config
  <2>5. PICK m : Settings(Saved(d)) = [d EXCEPT !.current = m]
    BY <2>4, SavedSettings DEF Settings
  <2>6. Settings(Saved(d)).profiles = d.profiles
    BY <2>4, <2>5 DEF WellFormed, Config
  <2>7. \E i \in DOMAIN d.profiles : d.profiles[i].name = u.args[1]
    BY <1>3, <2>6 DEF Storable, c, d
  <2>8. Loads(Saved(d))
    BY <2>4, <2>7, SavedConfigLoads
  <2> QED
    BY <2>8 DEF c, d
<1>4. CASE u.op \in ProfileOps
  <2> HIDE DEF c
  <2>1. PICK new \in Profile : /\ d = [c EXCEPT !.profiles[c.current] = new]
                               /\ new.name = ActiveProfile(c).name
    BY <1>1, <1>4, AssignActive
  <2> HIDE DEF d
  <2>2. WellFormed(d)
    BY <1>1, <2>1, SetActiveType
  <2>3. /\ c.profiles \in Seq(Profile) /\ c.current \in DOMAIN c.profiles
        /\ d.profiles = [c.profiles EXCEPT ![c.current] = new]
        /\ d.profile_name = c.profile_name
        /\ DOMAIN d.profiles = DOMAIN c.profiles
    BY <1>1, <2>1 DEF WellFormed, Config
  <2>4. PICK i \in DOMAIN c.profiles : c.profiles[i].name = c.profile_name
    BY <1>1
  <2>5. d.profiles[i].name = c.profiles[i].name
    BY <2>1, <2>3 DEF ActiveProfile
  <2>6. Loads(Saved(d))
    BY <2>2, <2>3, <2>4, <2>5, SavedConfigLoads
  <2> QED
    BY <2>6 DEF c, d
<1> QED
  BY <1>2, <1>3, <1>4, ArgumentType

\* What a handler makes of a load: its object is well formed, and it does not
\* use a null pointer if the load succeeded.
LEMMA HandleType ==
  ASSUME NEW c, IsCommand(c),
         NEW loaded, WellFormed(loaded.cfg), loaded.ret \in Result,
         loaded.ret = "SUCCESS" => c.op \in PlainOps \/ loaded.cfg.current # 0
  PROVE  /\ Handle(c, loaded).next \in {"done", "segfault", "open"}
         /\ Handle(c, loaded).ret \in Result
         /\ WellFormed(Handle(c, loaded).cfg)
         /\ Handle(c, loaded).next = "segfault" => loaded.ret # "SUCCESS"
<1> DEFINE handled == Handle(c, loaded)
<1>5. ASSUME IsUpdate(c) PROVE c.args # <<>>
  <2>1. Len(c.args) # 0
    BY <1>5 DEF IsUpdate, IsCommand
  <2> QED
    BY <2>1
<1>1. CASE IsQuery(c)
  <2>1. QueryError(c, loaded.ret) \in Result
    BY DEF QueryError, Result
  <2>2. handled = [next |-> "done", cfg |-> loaded.cfg,
                   ret |-> IF loaded.ret = "SUCCESS" THEN "SUCCESS"
                           ELSE QueryError(c, loaded.ret)]
    <3>1. ~IsUpdate(c)
      BY <1>1, <1>5 DEF IsQuery
    <3> QED
      BY <1>1, <3>1 DEF Handle
  <2> QED
    BY <2>1, <2>2 DEF Result
<1>2. CASE IsUpdate(c) /\ ~Readable(c)
  <2>1. ~IsQuery(c)
    BY <1>2, <1>5 DEF IsQuery
  <2> QED
    BY <1>2, <2>1 DEF Handle, Result
<1>3. CASE IsUpdate(c) /\ Readable(c)
  <2>1. ~IsQuery(c) /\ c.op \notin PlainOps
    BY <1>3, <1>5 DEF IsQuery, IsUpdate
  <2>2. CASE c.op \in ProfileOps /\ loaded.cfg.current = 0
    BY <1>3, <2>1, <2>2 DEF Handle, Result
  <2>3. CASE c.op \in ProfileOps => loaded.cfg.current # 0
    <3>1. WellFormed(Assign(loaded.cfg, c))
      BY <1>3, <2>3, AssignType
    <3>2. handled = [next |-> IF Accepted(c) THEN "open" ELSE "done",
                     cfg |-> Assign(loaded.cfg, c),
                     ret |-> IF Accepted(c) THEN "SUCCESS" ELSE "INVALID_ARGUMENT"]
      BY <1>3, <2>1, <2>3 DEF Handle
    <3> QED
      BY <3>1, <3>2 DEF Result
  <2> QED
    BY <2>2, <2>3
<1>4. CASE ~IsQuery(c) /\ ~IsUpdate(c)
  <2>1. handled = [next |-> "done", cfg |-> loaded.cfg, ret |-> PlainResult(c)]
    BY <1>4 DEF Handle
  <2>2. PlainResult(c) \in Result
    BY DEF PlainResult, Result
  <2> QED
    BY <2>1, <2>2
<1> QED
  BY <1>1, <1>2, <1>3, <1>4

\* A handler gets as far as its save only with an update, and then saves what
\* the update makes of the object; an update that stops earlier is no success.
LEMMA HandleEffect ==
  ASSUME NEW c, IsCommand(c), NEW loaded
  PROVE  /\ Handle(c, loaded).next = "open" =>
              /\ IsUpdate(c) /\ Readable(c) /\ Accepted(c)
              /\ c.op \in ProfileOps => loaded.cfg.current # 0
              /\ Handle(c, loaded).cfg = Assign(loaded.cfg, c)
         /\ Handle(c, loaded).next = "done" /\ IsUpdate(c) =>
              Handle(c, loaded).ret # "SUCCESS"
<1> DEFINE handled == Handle(c, loaded)
<1>1. IsUpdate(c) => ~IsQuery(c)
  <2>1. Len(c.args) # 0 => c.args # <<>>
    OBVIOUS
  <2> QED
    BY <2>1 DEF IsUpdate, IsQuery, IsCommand
<1>2. CASE IsQuery(c)
  BY <1>1, <1>2 DEF Handle
<1>3. CASE IsUpdate(c) /\ ~Readable(c)
  BY <1>1, <1>3 DEF Handle
<1>4. CASE IsUpdate(c) /\ Readable(c) /\ c.op \in ProfileOps /\ loaded.cfg.current = 0
  BY <1>1, <1>4 DEF Handle
<1>5. CASE IsUpdate(c) /\ Readable(c) /\ (c.op \in ProfileOps => loaded.cfg.current # 0)
  <2>1. handled = [next |-> IF Accepted(c) THEN "open" ELSE "done",
                   cfg |-> Assign(loaded.cfg, c),
                   ret |-> IF Accepted(c) THEN "SUCCESS" ELSE "INVALID_ARGUMENT"]
    BY <1>1, <1>5 DEF Handle
  <2> HIDE DEF handled
  <2>2. /\ handled.next = IF Accepted(c) THEN "open" ELSE "done"
        /\ handled.cfg = Assign(loaded.cfg, c)
        /\ handled.ret = IF Accepted(c) THEN "SUCCESS" ELSE "INVALID_ARGUMENT"
    BY <2>1
  <2> QED
    BY <1>5, <2>2 DEF handled
<1>6. CASE ~IsQuery(c) /\ ~IsUpdate(c)
  BY <1>6 DEF Handle
<1> QED
  BY <1>2, <1>3, <1>4, <1>5, <1>6

-------------------------------------------------------------------------------
(***************************************************************************)
(* Type correctness.                                                       *)
(***************************************************************************)

LEMMA CommandLoadType ==
  ASSUME TypeOK, NEW p \in Procs
  PROVE  /\ WellFormed(CommandLoad(p).cfg)
         /\ CommandLoad(p).ret \in Result
         /\ CommandLoad(p).ret = "SUCCESS" => CommandLoad(p).cfg.current # 0
BY LoadType, NewConfigType DEF CommandLoad, TypeOK

LEMMA SessionLoadType ==
  ASSUME TypeOK, NEW p \in Procs
  PROVE  /\ WellFormed(Load(session[p], file).cfg)
         /\ Load(session[p], file).ret \in Result
         /\ Load(session[p], file).ret = "SUCCESS" =>
              Load(session[p], file).cfg.current # 0
BY LoadType DEF TypeOK

\* The variables of one process after a step that gives them new values.
LEMMA ExitType ==
  ASSUME TypeOK, NEW p \in Procs, Exit(p)
  PROVE  /\ DOMAIN session' = Procs /\ \A q \in Procs : WellFormed(session'[q])
         /\ DOMAIN cfg' = Procs /\ \A q \in Procs : WellFormed(cfg'[q])
         /\ base' \in [Procs -> File]
BY NewConfigType DEF Exit, TypeOK, File

LEMMA ChangeType ==
  ASSUME TypeOK, NEW p \in Procs, NEW text \in File, Change(p, text)
  PROVE  file' \in File /\ touched' \in [Procs -> BOOLEAN]
BY DEF Change, TypeOK

LEMMA SavedFile ==
  ASSUME TypeOK, NEW p \in Procs
  PROVE  Saved(cfg[p]) \in File
BY SavedType DEF TypeOK, File

LEMMA InitTypeOK == Init => TypeOK
<1> SUFFICES ASSUME Init PROVE TypeOK
  OBVIOUS
<1>1. IsCommand([op |-> "help", args |-> <<>>])
  BY DEF IsCommand, Ops, PlainOps
<1>2. file \in File
  BY ConfigSessionAssumption DEF Init
<1> QED
  BY <1>1, <1>2, NewConfigType DEF Init, TypeOK, Label, Result, File

LEMMA NextTypeOK == TypeOK /\ [Next]_vars => TypeOK'
<1> SUFFICES ASSUME TypeOK, [Next]_vars PROVE TypeOK'
  OBVIOUS
<1>1. CASE UNCHANGED vars
  BY <1>1 DEF vars, TypeOK
<1>2. ASSUME NEW p \in Procs, Start(p) PROVE TypeOK'
  <2>1. \A c \in Commands : IsCommand(c)
    BY ConfigSessionAssumption
  <2> QED
    BY <1>2, <2>1 DEF Start, TypeOK, Label, Result
<1>3. ASSUME NEW p \in Procs, LoadSession(p) PROVE TypeOK'
  <2>1. WellFormed(Load(session[p], file).cfg)
    BY SessionLoadType
  <2>2. DOMAIN session' = Procs /\ \A q \in Procs : WellFormed(session'[q])
    BY <1>3, <2>1 DEF LoadSession, TypeOK
  <2>3. pc' \in [Procs -> Label]
    BY <1>3 DEF LoadSession, Goto, TypeOK, Label
  <2> QED
    BY <1>3, <2>2, <2>3 DEF LoadSession, TypeOK
<1>4. ASSUME NEW p \in Procs, AnswerSetup(p) PROVE TypeOK'
  <2>1. PICK a \in Answers : cfg' = [cfg EXCEPT ![p] = Setup(a)]
    BY <1>4 DEF AnswerSetup
  <2>2. WellFormed(Setup(a))
    BY SetupType, ConfigSessionAssumption
  <2>3. DOMAIN cfg' = Procs /\ \A q \in Procs : WellFormed(cfg'[q])
    BY <2>1, <2>2 DEF TypeOK
  <2> QED
    BY <1>4, <2>3 DEF AnswerSetup, Goto, TypeOK, Label
<1>5. ASSUME NEW p \in Procs, ReloadSession(p) PROVE TypeOK'
  <2> DEFINE loaded == Load(session[p], file)
  <2>1. WellFormed(loaded.cfg) /\ loaded.ret \in Result
    BY SessionLoadType
  <2>2. CASE Return(p, "reload", loaded.ret) /\ UNCHANGED <<file, cmd, touched>>
    <3>1. Exit(p)
      BY <2>2 DEF Return
    <3> HIDE DEF loaded
    <3> QED
      BY <2>1, <2>2, <3>1, ExitType DEF Return, Goto, TypeOK, Label
  <2>3. CASE /\ Goto(p, "reload", "check")
             /\ session' = [session EXCEPT ![p] = loaded.cfg]
             /\ base' = [base EXCEPT ![p] = file]
             /\ UNCHANGED <<file, cmd, cfg, ret, touched>>
    <3> HIDE DEF loaded
    <3>1. DOMAIN session' = Procs /\ \A q \in Procs : WellFormed(session'[q])
      BY <2>1, <2>3 DEF TypeOK
    <3> QED
      BY <2>3, <3>1 DEF Goto, TypeOK, Label
  <2> QED
    BY <1>5, <2>2, <2>3 DEF ReloadSession
<1>6. ASSUME NEW p \in Procs, CheckUser(p) PROVE TypeOK'
  <2>1. CASE Goto(p, "check", "dispatch") /\ UNCHANGED <<session, cfg, ret, base>>
    BY <1>6, <2>1 DEF CheckUser, Goto, TypeOK, Label
  <2>2. CASE Return(p, "check", "FAILURE")
    <3>1. Exit(p)
      BY <2>2 DEF Return
    <3> QED
      BY <1>6, <2>2, <3>1, ExitType DEF CheckUser, Return, Goto, TypeOK, Label, Result
  <2> QED
    BY <1>6, <2>1, <2>2 DEF CheckUser
<1>7. ASSUME NEW p \in Procs, Dispatch(p) PROVE TypeOK'
  <2> DEFINE loaded == IF cmd[p].op \in PlainOps
                       THEN [ret |-> "SUCCESS", cfg |-> NewConfig]
                       ELSE CommandLoad(p)
             handled == Handle(cmd[p], loaded)
  <2>1. /\ WellFormed(loaded.cfg) /\ loaded.ret \in Result
        /\ loaded.ret = "SUCCESS" => cmd[p].op \in PlainOps \/ loaded.cfg.current # 0
    BY CommandLoadType, NewConfigType DEF Result
  <2>2. IsCommand(cmd[p])
    BY DEF TypeOK
  <2> HIDE DEF loaded
  <2>3. /\ handled.next \in {"done", "segfault", "open"}
        /\ handled.ret \in Result
        /\ WellFormed(handled.cfg)
    BY <2>1, <2>2, HandleType
  <2>4. /\ Goto(p, "dispatch", handled.next)
        /\ ret' = [ret EXCEPT ![p] = handled.ret]
        /\ UNCHANGED <<file, cmd, touched>>
    BY <1>7 DEF Dispatch, loaded
  <2>5. \/ Exit(p)
        \/ /\ cfg' = [cfg EXCEPT ![p] = handled.cfg]
           /\ base' = [base EXCEPT ![p] = file]
           /\ UNCHANGED session
    BY <1>7 DEF Dispatch, loaded
  <2> HIDE DEF handled
  <2>6. CASE Exit(p)
    BY <2>3, <2>4, <2>6, ExitType DEF Goto, TypeOK, Label
  <2>7. CASE /\ cfg' = [cfg EXCEPT ![p] = handled.cfg]
             /\ base' = [base EXCEPT ![p] = file]
             /\ UNCHANGED session
    <3>1. DOMAIN cfg' = Procs /\ \A q \in Procs : WellFormed(cfg'[q])
      BY <2>3, <2>7 DEF TypeOK
    <3> QED
      BY <2>3, <2>4, <2>7, <3>1 DEF Goto, TypeOK, Label
  <2> QED
    BY <2>5, <2>6, <2>7
<1>8. ASSUME NEW p \in Procs, OpenFile(p) PROVE TypeOK'
  <2>1. file' \in File /\ touched' \in [Procs -> BOOLEAN]
    BY <1>8, ChangeType DEF OpenFile, File
  <2> QED
    BY <1>8, <2>1 DEF OpenFile, TypeOK, Label
<1>9. ASSUME NEW p \in Procs, OpenFails(p) PROVE TypeOK'
  <2>1. Exit(p)
    BY <1>9 DEF OpenFails, Return
  <2> QED
    BY <1>9, <2>1, ExitType DEF OpenFails, Return, Goto, TypeOK, Label, Result
<1>10. ASSUME NEW p \in Procs, NEW text \in File, Save(p, text) PROVE TypeOK'
  <2>1. file' \in File /\ touched' \in [Procs -> BOOLEAN]
    BY <1>10, ChangeType DEF Save
  <2>2. CASE pc[p] = "write" /\ Return(p, "write", "SUCCESS")
    <3>1. Exit(p)
      BY <2>2 DEF Return
    <3> QED
      BY <1>10, <2>1, <2>2, <3>1, ExitType DEF Save, Return, Goto, TypeOK, Label, Result
  <2>3. CASE Goto(p, "setup write", "reload") /\ UNCHANGED <<session, cfg, ret, base>>
    BY <1>10, <2>1, <2>3 DEF Save, Goto, TypeOK, Label
  <2> QED
    BY <1>10, <2>2, <2>3 DEF Save
<1>11. ASSUME NEW p \in Procs, WriteFile(p) \/ ShortWrite(p) PROVE TypeOK'
  BY <1>10, <1>11, SavedFile DEF WriteFile, ShortWrite, File
<1>12. ASSUME NEW p \in Procs, Crash(p) PROVE TypeOK'
  <2>1. Exit(p)
    BY <1>12 DEF Crash
  <2> QED
    BY <1>12, <2>1, ExitType DEF Crash, TypeOK, Label
<1>13. ASSUME NEW p \in Procs, EndOfInput(p) \/ Spin(p) PROVE TypeOK'
  BY <1>13 DEF EndOfInput, Spin, Goto, vars, TypeOK, Label
<1> QED
  BY <1>1, <1>2, <1>3, <1>4, <1>5, <1>6, <1>7, <1>8, <1>9, <1>11, <1>12, <1>13
  DEF Next, Step

\* Every variable keeps its type, and no object ever points outside its profiles.
THEOREM TypeCorrect == Spec => []TypeOK
BY InitTypeOK, NextTypeOK, PTL DEF Spec

-------------------------------------------------------------------------------
(***************************************************************************)
(* No null pointer without interference.                                   *)
(***************************************************************************)

LEMMA SavedConfigLoadsAgain ==
  ASSUME TypeOK, NEW p \in Procs, HasActive(cfg[p])
  PROVE  Loads(Saved(cfg[p]))
BY SavedConfigLoads DEF TypeOK, HasActive

LEMMA TornDoesNotLoad ==
  ASSUME NEW c
  PROVE  Load(c, Torn).ret # "SUCCESS"
BY ConfigFileAssumption DEF Load

LEMMA InitLoadsAgain == Init => EveryoneLoadsAgain
BY DEF Init, EveryoneLoadsAgain, LoadsAgain, Ended

\* A step of one process leaves another one's variables alone, and if it changes
\* the file it tells the other one, unless that one does not run.
LEMMA StepOfAnother ==
  ASSUME TypeOK, NEW p \in Procs, NEW q \in Procs, p # q,
         Start(p) \/ Step(p) \/ EndOfInput(p) \/ Spin(p) \/ Crash(p)
  PROVE  /\ pc'[q] = pc[q] /\ cmd'[q] = cmd[q] /\ ret'[q] = ret[q]
         /\ session'[q] = session[q] /\ cfg'[q] = cfg[q] /\ base'[q] = base[q]
         /\ touched[q] => touched'[q]
         /\ pc[q] # "idle" /\ ~touched'[q] => file' = file
<1>1. CASE Start(p)
  BY <1>1 DEF Start, TypeOK
<1>2. CASE LoadSession(p) \/ AnswerSetup(p)
  BY <1>2 DEF LoadSession, AnswerSetup, Goto, TypeOK
<1>3. CASE ReloadSession(p)
  BY <1>3 DEF ReloadSession, Return, Exit, Goto, TypeOK
<1>4. CASE CheckUser(p)
  BY <1>4 DEF CheckUser, Return, Exit, Goto, TypeOK
<1>5. CASE Dispatch(p)
  BY <1>5 DEF Dispatch, Exit, Goto, TypeOK
<1>6. CASE OpenFile(p)
  BY <1>6 DEF OpenFile, Change, TypeOK
<1>7. CASE OpenFails(p)
  BY <1>7 DEF OpenFails, Return, Exit, Goto, TypeOK
<1>8. CASE WriteFile(p) \/ ShortWrite(p)
  BY <1>8 DEF WriteFile, ShortWrite, Save, Change, Return, Exit, Goto, TypeOK
<1>9. CASE Crash(p)
  BY <1>9 DEF Crash, Exit, TypeOK
<1>10. CASE EndOfInput(p) \/ Spin(p)
  BY <1>10 DEF EndOfInput, Spin, Goto, vars, TypeOK
<1> QED
  BY <1>1, <1>2, <1>3, <1>4, <1>5, <1>6, <1>7, <1>8, <1>9, <1>10 DEF Step

LEMMA NextLoadsAgain == TypeOK /\ EveryoneLoadsAgain /\ [Next]_vars => EveryoneLoadsAgain'
<1> SUFFICES ASSUME TypeOK, EveryoneLoadsAgain, [Next]_vars, NEW q \in Procs
             PROVE  LoadsAgain(q)'
  BY DEF EveryoneLoadsAgain
<1>0. LoadsAgain(q)
  BY DEF EveryoneLoadsAgain
<1>1. CASE UNCHANGED vars
  BY <1>0, <1>1 DEF vars, LoadsAgain
<1>2. ASSUME NEW p \in Procs, p # q,
             Start(p) \/ Step(p) \/ EndOfInput(p) \/ Spin(p) \/ Crash(p)
      PROVE  LoadsAgain(q)'
  <2>1. /\ pc'[q] = pc[q] /\ session'[q] = session[q] /\ cfg'[q] = cfg[q]
        /\ touched[q] => touched'[q]
        /\ pc[q] # "idle" /\ ~touched'[q] => file' = file
    BY <1>2, StepOfAnother
  <2> QED
    BY <1>0, <2>1 DEF LoadsAgain
<1>3. CASE Start(q)
  BY <1>0, <1>3 DEF Start, LoadsAgain, Ended, TypeOK
<1>4. CASE LoadSession(q)
  <2>1. pc[q] = "load" /\ session[q] = NewConfig
    BY <1>0, <1>4 DEF LoadSession, Goto, LoadsAgain
  <2>2. CASE Load(NewConfig, file).ret = "SUCCESS"
    <3>1. Load(NewConfig, file).cfg.current # 0
      BY <2>1, <2>2, SessionLoadType
    <3>2. pc'[q] = "check" /\ session'[q] = Load(NewConfig, file).cfg
          /\ file' = file /\ touched' = touched
      BY <1>4, <2>1, <2>2 DEF LoadSession, Goto, TypeOK
    <3> QED
      BY <2>2, <3>1, <3>2 DEF LoadsAgain, Loads, Ended
  <2>3. CASE Load(NewConfig, file).ret # "SUCCESS"
    <3>1. pc'[q] = "answer"
      BY <1>4, <2>1, <2>3 DEF LoadSession, Goto, TypeOK
    <3> QED
      BY <3>1 DEF LoadsAgain, Ended
  <2> QED
    BY <2>2, <2>3
<1>5. CASE AnswerSetup(q)
  <2>1. PICK a \in Answers : cfg' = [cfg EXCEPT ![q] = Setup(a)]
    BY <1>5 DEF AnswerSetup
  <2>2. HasActive(Setup(a))
    BY SetupType, ConfigSessionAssumption DEF HasActive
  <2>3. pc'[q] = "setup open" /\ cfg'[q] = Setup(a)
    BY <1>5, <2>1 DEF AnswerSetup, Goto, TypeOK
  <2> QED
    BY <2>2, <2>3 DEF LoadsAgain, Ended
<1>6. CASE ReloadSession(q)
  <2> DEFINE loaded == Load(session[q], file)
  <2>1. CASE loaded.ret # "SUCCESS"
    <3>1. Return(q, "reload", loaded.ret)
      BY <1>6, <2>1 DEF ReloadSession
    <3>2. pc'[q] = "done" /\ session'[q] = NewConfig
      BY <3>1 DEF Return, Goto, Exit, TypeOK
    <3> QED
      BY <3>2 DEF LoadsAgain, Ended
  <2>2. CASE loaded.ret = "SUCCESS"
    <3>1. /\ pc[q] = "reload" /\ pc'[q] = "check" /\ session'[q] = loaded.cfg
          /\ file' = file /\ touched' = touched
      BY <1>6, <2>2 DEF ReloadSession, Return, Goto, TypeOK
    <3>2. loaded.cfg.current # 0
      BY <2>2, SessionLoadType
    <3>3. ASSUME ~touched[q] PROVE Loads(file)
      <4>1. file # Torn
        BY <2>2, TornDoesNotLoad
      <4> QED
        BY <1>0, <3>1, <3>3, <4>1, SavedConfigLoadsAgain DEF LoadsAgain
    <3> HIDE DEF loaded
    <3> QED
      BY <3>1, <3>2, <3>3 DEF LoadsAgain, Ended
  <2> QED
    BY <2>1, <2>2
<1>7. CASE CheckUser(q)
  <2>1. CASE Goto(q, "check", "dispatch") /\ UNCHANGED <<session, cfg, ret, base>>
    BY <1>0, <1>7, <2>1 DEF CheckUser, Goto, LoadsAgain, Ended, TypeOK
  <2>2. CASE Return(q, "check", "FAILURE")
    BY <2>2 DEF Return, Goto, Exit, LoadsAgain, Ended, TypeOK
  <2> QED
    BY <1>7, <2>1, <2>2 DEF CheckUser
<1>8. CASE Dispatch(q)
  <2> DEFINE loaded == IF cmd[q].op \in PlainOps
                       THEN [ret |-> "SUCCESS", cfg |-> NewConfig]
                       ELSE CommandLoad(q)
             handled == Handle(cmd[q], loaded)
  <2>1. /\ WellFormed(loaded.cfg) /\ loaded.ret \in Result
        /\ loaded.ret = "SUCCESS" => cmd[q].op \in PlainOps \/ loaded.cfg.current # 0
    BY CommandLoadType, NewConfigType DEF Result
  <2>2. IsCommand(cmd[q])
    BY DEF TypeOK
  <2>3. ~touched[q] => loaded.ret = "SUCCESS"
    BY <1>0, <1>8 DEF LoadsAgain, Dispatch, Goto, Loads, CommandLoad
  <2>4. /\ pc[q] = "dispatch" /\ pc'[q] = handled.next
        /\ touched' = touched
        /\ handled.next # "open" => session'[q] = NewConfig
    BY <1>8 DEF Dispatch, Goto, Exit, TypeOK
  <2> HIDE DEF loaded
  <2>5. /\ handled.next \in {"done", "segfault", "open"}
        /\ handled.next = "segfault" => loaded.ret # "SUCCESS"
    BY <2>1, <2>2, HandleType
  <2> HIDE DEF handled
  <2> QED
    BY <2>3, <2>4, <2>5 DEF LoadsAgain, Ended, TypeOK
<1>9. CASE OpenFile(q)
  BY <1>0, <1>9 DEF OpenFile, Opening, LoadsAgain, Ended, TypeOK
<1>10. CASE OpenFails(q)
  BY <1>10 DEF OpenFails, Return, Goto, Exit, LoadsAgain, Ended, TypeOK
<1>11. CASE WriteFile(q) \/ ShortWrite(q)
  <2>1. PICK text \in {Torn, Saved(cfg[q])} : Save(q, text)
    BY <1>11 DEF WriteFile, ShortWrite
  <2>2. CASE pc[q] = "write" /\ Return(q, "write", "SUCCESS")
    BY <2>2 DEF Return, Goto, Exit, LoadsAgain, Ended, TypeOK
  <2>3. CASE Goto(q, "setup write", "reload") /\ UNCHANGED <<session, cfg, ret, base>>
    <3>1. HasActive(cfg[q]) /\ file' = text /\ cfg' = cfg /\ pc'[q] = "reload"
      BY <1>0, <2>1, <2>3 DEF LoadsAgain, Save, Change, Goto, TypeOK
    <3> QED
      BY <2>1, <3>1 DEF LoadsAgain, Ended
  <2> QED
    BY <2>1, <2>2, <2>3 DEF Save
<1>12. CASE Crash(q)
  BY <1>12 DEF Crash, Exit, LoadsAgain, Ended, TypeOK
<1>13. CASE EndOfInput(q)
  BY <1>13 DEF EndOfInput, Goto, LoadsAgain, Ended, TypeOK
<1>14. CASE Spin(q)
  BY <1>0, <1>14 DEF Spin, vars, LoadsAgain
<1> QED
  BY <1>1, <1>2, <1>3, <1>4, <1>5, <1>6, <1>7, <1>8, <1>9, <1>10, <1>11, <1>12,
     <1>13, <1>14
  DEF Next, Step

\* A run crashes on a null pointer only if another process changed the file
\* under it, whatever else goes wrong.
THEOREM CrashImpliesInterference == Spec => []CrashNeedsInterference
<1>1. EveryoneLoadsAgain => CrashNeedsInterference
  BY DEF EveryoneLoadsAgain, LoadsAgain, CrashNeedsInterference
<1> QED
  BY <1>1, InitTypeOK, NextTypeOK, InitLoadsAgain, NextLoadsAgain, PTL DEF Spec

-------------------------------------------------------------------------------
(***************************************************************************)
(* What a run may rely on as long as nobody else changes the file.         *)
(***************************************************************************)

\* main's active profile is the one in the file, whether it was loaded once or,
\* after a setup, twice.
FreshSession(q) ==
  pc[q] \in {"check", "dispatch"} /\ ~touched[q] =>
    ActiveProfile(session[q]) = ActiveProfile(Settings(file))

\* A command begins only with a key that the server accepts.
KeyAccepted(q) ==
  /\ pc[q] = "dispatch" => ActiveProfile(session[q]).key \in ServerKeys
  /\ pc[q] = "open" /\ ~touched[q] => ActiveProfile(Settings(file)).key \in ServerKeys

\* Between its load and its write an update carries what it loaded, changed as
\* its command says.
Carries(q) ==
  pc[q] \in {"open", "write"} =>
    /\ IsUpdate(cmd[q]) /\ Readable(cmd[q]) /\ Accepted(cmd[q])
    /\ ~touched[q] => /\ Loads(base[q])
                      /\ cfg[q] = Assign(Settings(base[q]), cmd[q])

\* What SuccessMeansStored says of one process.
Reported(q) ==
  /\ pc[q] = "done" /\ IsUpdate(cmd[q]) /\ ret[q] = "SUCCESS" /\ ~touched[q]
  /\ Storable(cmd[q], file)
  /\ ChecksSave(cmd[q]) \/ "open_fails" \notin Faults
  => ("short_write" \in Faults /\ file = Torn) \/ Stored(cmd[q])

Undisturbed(q) == FreshSession(q) /\ KeyAccepted(q) /\ Carries(q) /\ Reported(q)

EveryoneUndisturbed == \A q \in Procs : Undisturbed(q)

LEMMA InitUndisturbed == Init => EveryoneUndisturbed
BY DEF Init, EveryoneUndisturbed, Undisturbed, FreshSession, KeyAccepted, Carries,
       Reported

\* The document an undisturbed update writes is the loaded one as it changed it.
LEMMA WrittenUpdateIsStored ==
  ASSUME TypeOK, NEW q \in Procs, Carries(q), pc[q] = "write", ~touched[q]
  PROVE  /\ Settings(Saved(cfg[q])) = Updated(base[q], cmd[q])
         /\ cfg[q] = Assign(Settings(base[q]), cmd[q])
         /\ base[q] \in File /\ Loads(base[q])
         /\ IsCommand(cmd[q]) /\ IsUpdate(cmd[q])
BY DEF Carries, Updated, TypeOK

\* After the setup main's second load, behind what the first one left, finds the
\* profile that a fresh load finds.
LEMMA ReloadIsFresh ==
  ASSUME TypeOK, NEW q \in Procs, LoadsAgain(q), pc[q] = "reload", ~touched[q],
         Load(session[q], file).ret = "SUCCESS"
  PROVE  ActiveProfile(Load(session[q], file).cfg) = ActiveProfile(Settings(file))
<1>1. file = Saved(cfg[q]) /\ HasActive(cfg[q])
  BY TornDoesNotLoad DEF LoadsAgain
<1>2. PICK s, c : s = session[q] /\ c = cfg[q]
  OBVIOUS
<1>3. /\ WellFormed(s) /\ WellFormed(c)
      /\ \E i \in DOMAIN c.profiles : c.profiles[i].name = c.profile_name
  BY <1>1, <1>2 DEF TypeOK, HasActive
<1>4. ActiveProfile(Load(s, Saved(c)).cfg) = c.profiles[Len(c.profiles)]
  BY <1>3, SavedAfterRest
<1>5. Settings(Saved(c)) = [c EXCEPT !.current = Len(c.profiles)]
  BY <1>3, SavedConfigLoads DEF Settings
<1>6. ActiveProfile(Settings(Saved(c))) = c.profiles[Len(c.profiles)]
  BY <1>3, <1>5 DEF ActiveProfile, WellFormed, Config
<1> QED
  BY <1>1, <1>2, <1>4, <1>6

LEMMA NextUndisturbed ==
  TypeOK /\ EveryoneLoadsAgain /\ EveryoneUndisturbed /\ [Next]_vars
    => EveryoneUndisturbed'
<1> SUFFICES ASSUME TypeOK, EveryoneLoadsAgain, EveryoneUndisturbed, [Next]_vars,
                    NEW q \in Procs
             PROVE  Undisturbed(q)'
  BY DEF EveryoneUndisturbed
<1> USE DEF Undisturbed
<1>0. LoadsAgain(q) /\ Undisturbed(q)
  BY DEF EveryoneLoadsAgain, EveryoneUndisturbed
<1>1. CASE UNCHANGED vars
  BY <1>0, <1>1 DEF vars, FreshSession, KeyAccepted, Carries, Reported, Stored
<1>2. ASSUME NEW p \in Procs, p # q,
             Start(p) \/ Step(p) \/ EndOfInput(p) \/ Spin(p) \/ Crash(p)
      PROVE  Undisturbed(q)'
  <2>1. /\ pc'[q] = pc[q] /\ cmd'[q] = cmd[q] /\ ret'[q] = ret[q]
        /\ session'[q] = session[q] /\ cfg'[q] = cfg[q] /\ base'[q] = base[q]
        /\ touched[q] => touched'[q]
        /\ pc[q] # "idle" /\ ~touched'[q] => file' = file
    BY <1>2, StepOfAnother
  <2>2. FreshSession(q)' /\ KeyAccepted(q)' /\ Carries(q)'
    BY <1>0, <2>1 DEF FreshSession, KeyAccepted, Carries
  <2>3. Reported(q)'
    BY <1>0, <2>1 DEF Reported, Stored
  <2> QED
    BY <2>2, <2>3
\* A step of q that leaves none of the positions the invariant speaks of.
<1>3. ASSUME pc'[q] \notin {"check", "dispatch", "open", "write", "done"}
      PROVE  Undisturbed(q)'
  BY <1>3 DEF FreshSession, KeyAccepted, Carries, Reported
\* A step of q that ends with an error.
<1>4. ASSUME NEW r, r # "SUCCESS", pc'[q] = "done", ret'[q] = r
      PROVE  Undisturbed(q)'
  BY <1>4 DEF FreshSession, KeyAccepted, Carries, Reported
<1>5. CASE Start(q)
  BY <1>3, <1>5 DEF Start, TypeOK
<1>6. CASE LoadSession(q)
  <2>1. pc[q] = "load" /\ session[q] = NewConfig
    BY <1>0, <1>6 DEF LoadSession, Goto, LoadsAgain
  <2>2. CASE Load(NewConfig, file).ret = "SUCCESS"
    <3>1. pc'[q] = "check" /\ session'[q] = Settings(file) /\ file' = file
      BY <1>6, <2>1, <2>2 DEF LoadSession, Goto, Settings, TypeOK
    <3> QED
      BY <3>1 DEF FreshSession, KeyAccepted, Carries, Reported
  <2>3. CASE Load(NewConfig, file).ret # "SUCCESS"
    <3>1. pc'[q] = "answer"
      BY <1>6, <2>1, <2>3 DEF LoadSession, Goto, TypeOK
    <3> QED
      BY <1>3, <3>1
  <2> QED
    BY <2>2, <2>3
<1>7. CASE AnswerSetup(q) \/ EndOfInput(q)
  BY <1>3, <1>7 DEF AnswerSetup, EndOfInput, Goto, TypeOK
<1>8. CASE ReloadSession(q)
  <2> DEFINE loaded == Load(session[q], file)
  <2>1. CASE loaded.ret # "SUCCESS"
    <3>1. Return(q, "reload", loaded.ret)
      BY <1>8, <2>1 DEF ReloadSession
    <3>2. pc'[q] = "done" /\ ret'[q] = loaded.ret
      BY <3>1 DEF Return, Goto, TypeOK
    <3> QED
      BY <1>4, <2>1, <3>2
  <2>2. CASE loaded.ret = "SUCCESS"
    <3>1. /\ pc[q] = "reload" /\ pc'[q] = "check" /\ session'[q] = loaded.cfg
          /\ file' = file /\ touched' = touched
      BY <1>8, <2>2 DEF ReloadSession, Return, Goto, TypeOK
    <3>2. ~touched[q] => ActiveProfile(loaded.cfg) = ActiveProfile(Settings(file))
      BY <1>0, <2>2, <3>1, ReloadIsFresh
    <3> HIDE DEF loaded
    <3> QED
      BY <3>1, <3>2 DEF FreshSession, KeyAccepted, Carries, Reported
  <2> QED
    BY <2>1, <2>2
<1>9. CASE CheckUser(q)
  <2>1. CASE /\ Goto(q, "check", "dispatch")
             /\ ActiveProfile(session[q]).key \in ServerKeys
             /\ UNCHANGED <<session, cfg, ret, base>>
    <3>1. /\ pc[q] = "check" /\ pc'[q] = "dispatch" /\ session' = session
          /\ file' = file /\ touched' = touched
      BY <1>9, <2>1 DEF CheckUser, Goto, TypeOK
    <3> QED
      BY <1>0, <2>1, <3>1 DEF FreshSession, KeyAccepted, Carries, Reported
  <2>2. CASE Return(q, "check", "FAILURE")
    <3>1. pc'[q] = "done" /\ ret'[q] = "FAILURE"
      BY <2>2 DEF Return, Goto, TypeOK
    <3> QED
      BY <1>4, <3>1
  <2> QED
    BY <1>9, <2>1, <2>2 DEF CheckUser
<1>10. CASE Dispatch(q)
  <2> DEFINE loaded == IF cmd[q].op \in PlainOps
                       THEN [ret |-> "SUCCESS", cfg |-> NewConfig]
                       ELSE CommandLoad(q)
             handled == Handle(cmd[q], loaded)
  <2>1. /\ WellFormed(loaded.cfg) /\ loaded.ret \in Result
        /\ loaded.ret = "SUCCESS" => cmd[q].op \in PlainOps \/ loaded.cfg.current # 0
    BY CommandLoadType, NewConfigType DEF Result
  <2>2. IsCommand(cmd[q])
    BY DEF TypeOK
  <2>3. IsUpdate(cmd[q]) => loaded.cfg = Settings(file)
    BY DEF IsUpdate, CommandLoad, Settings
  <2>4. /\ pc[q] = "dispatch" /\ pc'[q] = handled.next /\ ret'[q] = handled.ret
        /\ touched' = touched /\ file' = file /\ cmd' = cmd
        /\ handled.next = "open" => cfg'[q] = handled.cfg /\ base'[q] = file
    BY <1>10 DEF Dispatch, Goto, TypeOK
  <2> HIDE DEF loaded
  <2>5. /\ handled.next \in {"done", "segfault", "open"}
        /\ handled.next = "open" => /\ IsUpdate(cmd[q]) /\ Readable(cmd[q])
                                    /\ Accepted(cmd[q])
                                    /\ handled.cfg = Assign(loaded.cfg, cmd[q])
        /\ handled.next = "done" /\ IsUpdate(cmd[q]) => handled.ret # "SUCCESS"
    BY <2>1, <2>2, HandleType, HandleEffect
  <2> HIDE DEF handled
  <2>6. CASE handled.next = "open"
    <3>1. FreshSession(q)' /\ Reported(q)'
      BY <2>4, <2>6 DEF FreshSession, Reported
    <3>2. KeyAccepted(q)'
      BY <1>0, <2>4, <2>6 DEF FreshSession, KeyAccepted
    <3>3. ~touched[q] => Loads(file)
      BY <1>0, <2>4 DEF LoadsAgain
    <3>4. Carries(q)'
      BY <2>3, <2>4, <2>5, <2>6, <3>3 DEF Carries
    <3> QED
      BY <3>1, <3>2, <3>4
  <2>7. CASE handled.next = "done"
    BY <2>4, <2>5, <2>7 DEF FreshSession, KeyAccepted, Carries, Reported
  <2>8. CASE handled.next = "segfault"
    BY <1>3, <2>4, <2>8
  <2> QED
    BY <2>5, <2>6, <2>7, <2>8
<1>11. CASE OpenFile(q)
  <2>1. /\ pc[q] \in Opening /\ pc'[q] = IF pc[q] = "open" THEN "write" ELSE "setup write"
        /\ touched'[q] = touched[q] /\ cmd' = cmd /\ cfg' = cfg /\ base' = base
    BY <1>11 DEF OpenFile, Change, TypeOK
  <2> QED
    BY <1>0, <2>1 DEF Opening, FreshSession, KeyAccepted, Carries, Reported
<1>12. CASE OpenFails(q)
  <2>1. /\ "open_fails" \in Faults /\ pc'[q] = "done" /\ cmd' = cmd
        /\ ret'[q] = IF pc[q] = "open" /\ ~ChecksSave(cmd[q]) THEN "SUCCESS" ELSE "FAILURE"
    BY <1>12 DEF OpenFails, Return, Goto, TypeOK
  <2> QED
    BY <2>1 DEF FreshSession, KeyAccepted, Carries, Reported
<1>13. CASE WriteFile(q) \/ ShortWrite(q)
  <2>1. PICK text \in {Torn, Saved(cfg[q])} :
          /\ Save(q, text)
          /\ text = Saved(cfg[q]) \/ ("short_write" \in Faults /\ text = Torn)
    BY <1>13 DEF WriteFile, ShortWrite
  <2>2. CASE Goto(q, "setup write", "reload")
    BY <1>3, <2>2 DEF Goto, TypeOK
  <2>3. CASE pc[q] = "write" /\ Return(q, "write", "SUCCESS")
    <3>1. /\ pc'[q] = "done" /\ cmd' = cmd /\ file' = text /\ touched'[q] = touched[q]
      BY <2>1, <2>3 DEF Save, Change, Return, Goto, TypeOK
    <3>2. ASSUME ~touched[q], text = Saved(cfg[q]), Storable(cmd[q], text)
          PROVE  Stored(cmd[q])'
      <4>1. /\ Settings(text) = Updated(base[q], cmd[q])
            /\ text = Saved(Assign(Settings(base[q]), cmd[q]))
            /\ base[q] \in File /\ Loads(base[q])
            /\ IsCommand(cmd[q]) /\ IsUpdate(cmd[q])
        BY <1>0, <2>3, <3>2, WrittenUpdateIsStored
      <4>2. Printed(Settings(text), [op |-> cmd[q].op, args |-> <<>>])
              = ArgumentValue(cmd[q])
        BY <3>2, <4>1, UpdateStored DEF Storable
      <4>3. Loads(text)
        BY <3>2, <4>1, UpdateLoads
      <4> QED
        BY <3>1, <4>2, <4>3 DEF Stored
    <3>3. Reported(q)'
      BY <2>1, <3>1, <3>2 DEF Reported
    <3> QED
      BY <3>1, <3>3 DEF FreshSession, KeyAccepted, Carries
  <2> QED
    BY <2>1, <2>2, <2>3 DEF Save
<1>14. CASE Crash(q)
  BY <1>3, <1>14 DEF Crash, TypeOK
<1>15. CASE Spin(q)
  BY <1>1, <1>15 DEF Spin
<1> QED
  BY <1>1, <1>2, <1>5, <1>6, <1>7, <1>8, <1>9, <1>10, <1>11, <1>12, <1>13, <1>14,
     <1>15
  DEF Next, Step

LEMMA UndisturbedHolds ==
  Spec => []TypeOK /\ []EveryoneLoadsAgain /\ []EveryoneUndisturbed
BY InitTypeOK, NextTypeOK, InitLoadsAgain, NextLoadsAgain, InitUndisturbed,
   NextUndisturbed, PTL DEF Spec

\* The profile whose URL and key main uses is the one that the file names, also
\* after a setup, when main loads a second time into an object that is not empty.
THEOREM SessionStaysFresh == Spec => []SessionIsFresh
<1>1. EveryoneLoadsAgain /\ EveryoneUndisturbed => SessionIsFresh
  BY DEF EveryoneLoadsAgain, LoadsAgain, EveryoneUndisturbed, Undisturbed,
         FreshSession, SessionIsFresh
<1> QED
  BY <1>1, UndisturbedHolds, PTL

\* A storable update that reports success is what the next program loads, unless
\* another run wrote the file or the write was cut short; of the handlers that do
\* not test the result of save only as long as the file can be opened.
THEOREM SuccessIsStored == Spec => []SuccessMeansStored
<1>1. EveryoneUndisturbed => SuccessMeansStored
  BY DEF EveryoneUndisturbed, Undisturbed, Reported, SuccessMeansStored
<1> QED
  BY <1>1, UndisturbedHolds, PTL

\* What an undisturbed update other than that of the browser writes differs from
\* what it loaded in the setting it names, of the active profile, and in nothing
\* else; if it is storable, the next program reads it.
THEOREM UpdatesAreLocal == Spec => UpdateIsLocal
<1> DEFINE Local(p) ==
      Updates(p) /\ ~touched[p] /\ cmd[p].op # "browser" =>
       /\ Storable(cmd[p], file') => Stored(cmd[p])'
       /\ \A op \in ProgramOps \cup {"profile", "name"} \cup ProfileOps :
            op # cmd[p].op => SettingsOf(file', op) = SettingsOf(base[p], op)
       /\ cmd[p].op \in ProfileOps =>
            \A i \in DOMAIN Settings(base[p]).profiles :
              i # Settings(base[p]).current =>
                Settings(file').profiles[i] = Settings(base[p]).profiles[i]
<1>1. ASSUME TypeOK, EveryoneUndisturbed, Next, NEW q \in Procs,
             Updates(q), ~touched[q], cmd[q].op # "browser"
      PROVE  Local(q)
  <2>1. pc[q] = "write" /\ pc'[q] = "done" /\ file' # Torn
    BY <1>1 DEF Updates
  <2>2. WriteFile(q)
    <3>1. ASSUME NEW p \in Procs, p # q,
                 Start(p) \/ Step(p) \/ EndOfInput(p) \/ Spin(p) \/ Crash(p)
          PROVE  FALSE
      BY <1>1, <2>1, <3>1, StepOfAnother
    <3>2. Start(q) \/ Step(q) \/ EndOfInput(q) \/ Spin(q) \/ Crash(q)
      BY <1>1, <3>1 DEF Next
    <3>3. ~Start(q) /\ ~EndOfInput(q) /\ ~Spin(q) /\ ~Crash(q)
      BY <1>1, <2>1 DEF Start, Ended, EndOfInput, Spin, Crash, Goto, TypeOK
    <3>4. /\ ~LoadSession(q) /\ ~AnswerSetup(q) /\ ~ReloadSession(q)
          /\ ~CheckUser(q) /\ ~Dispatch(q)
      BY <2>1 DEF LoadSession, AnswerSetup, ReloadSession, CheckUser, Dispatch,
                  Return, Goto
    <3>5. ~OpenFile(q) /\ ~OpenFails(q) /\ ~ShortWrite(q)
      BY <2>1 DEF OpenFile, OpenFails, Opening, ShortWrite, Save, Change
    <3> QED
      BY <3>2, <3>3, <3>4, <3>5 DEF Step
  <2>3. file' = Saved(cfg[q]) /\ cmd' = cmd
    BY <2>2 DEF WriteFile, Save, Change
  <2>4. /\ Settings(Saved(cfg[q])) = Updated(base[q], cmd[q])
        /\ cfg[q] = Assign(Settings(base[q]), cmd[q])
        /\ base[q] \in File /\ Loads(base[q])
        /\ IsCommand(cmd[q]) /\ IsUpdate(cmd[q])
    BY <1>1, <2>1, WrittenUpdateIsStored DEF EveryoneUndisturbed, Undisturbed
  <2>5. PICK text, u : text = base[q] /\ u = cmd[q]
    OBVIOUS
  <2>6. /\ Printed(Updated(text, u), [op |-> u.op, args |-> <<>>]) = ArgumentValue(u)
        /\ \A op \in ProgramOps \cup {"profile", "name"} \cup ProfileOps :
             op # u.op =>
               SettingOf(Updated(text, u), op) = SettingOf(Settings(text), op)
        /\ u.op \in ProfileOps =>
             \A i \in DOMAIN Settings(text).profiles :
               i # Settings(text).current =>
                 Updated(text, u).profiles[i] = Settings(text).profiles[i]
    BY <1>1, <2>4, <2>5, UpdateStored
  <2>7. Settings(file') = Updated(text, u) /\ file' = Saved(Assign(Settings(text), u))
    BY <2>3, <2>4, <2>5
  <2>8. Storable(u, file') => Loads(file')
    BY <2>4, <2>5, <2>7, UpdateLoads
  <2>9. Storable(cmd[q], file') => Stored(cmd[q])'
    BY <2>3, <2>5, <2>6, <2>7, <2>8 DEF Stored
  <2> QED
    BY <2>3, <2>5, <2>6, <2>7, <2>9 DEF SettingsOf
<1>2. TypeOK /\ EveryoneUndisturbed /\ [Next]_vars => [\A p \in Procs : Local(p)]_vars
  BY <1>1
<1> QED
  BY <1>2, UndisturbedHolds, PTL DEF Spec, UpdateIsLocal

\* The program never opens the file for writing while the key of its active
\* profile is one that the server does not accept, except in the setup.
THEOREM RejectedKeysStay == Spec => RejectedKeyStays
<1>1. EveryoneUndisturbed =>
        \A p \in Procs : pc[p] = "open" /\ pc'[p] = "write" /\ ~touched[p] =>
          ActiveProfile(Settings(file)).key \in ServerKeys
  BY DEF EveryoneUndisturbed, Undisturbed, KeyAccepted
<1> QED
  BY <1>1, UndisturbedHolds, PTL DEF Spec, RejectedKeyStays

-------------------------------------------------------------------------------
(***************************************************************************)
(* Profiles with different names.                                          *)
(***************************************************************************)

UniqueNames(profiles) ==
  \A i, j \in DOMAIN profiles : profiles[i].name = profiles[j].name => i = j

\* The file and every object that is on its way into it.
NamesStayUnique ==
  /\ UniqueNames(Settings(file).profiles)
  /\ \A p \in Procs : pc[p] \in Opening \cup Writing => UniqueNames(cfg[p].profiles)

LEMMA NoSettingsUnique ==
  ASSUME NEW text \in {NoFile, Torn}
  PROVE  UniqueNames(Settings(text).profiles)
<1>1. Settings(text) = NewConfig
  BY ConfigFileAssumption DEF Settings, Load
<1> QED
  BY <1>1 DEF UniqueNames, NewConfig

LEMMA SavedUnique ==
  ASSUME NEW c, WellFormed(c), UniqueNames(c.profiles)
  PROVE  UniqueNames(Settings(Saved(c)).profiles)
<1>1. PICK n : Settings(Saved(c)) = [c EXCEPT !.current = n]
  <2>1. CASE \E i \in DOMAIN c.profiles : c.profiles[i].name = c.profile_name
    BY <2>1, SavedSettings DEF Settings
  <2>2. CASE ~ \E i \in DOMAIN c.profiles : c.profiles[i].name = c.profile_name
    BY <2>2, SavedSettings DEF Settings
  <2> QED
    BY <2>1, <2>2
<1>2. Settings(Saved(c)).profiles = c.profiles
  BY <1>1 DEF WellFormed, Config
<1> QED
  BY <1>2

LEMMA AssignUnique ==
  ASSUME NEW c, WellFormed(c), UniqueNames(c.profiles),
         NEW u, IsCommand(u), IsUpdate(u), u.op \in ProfileOps => c.current # 0
  PROVE  UniqueNames(Assign(c, u).profiles)
<1>1. CASE u.op \in ProgramOps
  <2>1. PICK v \in Programs : Assign(c, u) = [c EXCEPT !.editor = v]
    BY <1>1, AssignProgram
  <2>2. Assign(c, u).profiles = c.profiles
    BY <2>1 DEF WellFormed, Config
  <2> QED
    BY <2>2
<1>2. CASE u.op = "profile"
  <2>1. PICK n : Assign(c, u) = [c EXCEPT !.profile_name = ArgumentValue(u),
                                          !.current = n]
    BY <1>2, AssignName, Zenon
  <2>2. Assign(c, u).profiles = c.profiles
    BY <2>1 DEF WellFormed, Config
  <2> QED
    BY <2>2
<1>3. CASE u.op \in ProfileOps
  <2>1. PICK new \in Profile : /\ Assign(c, u) = [c EXCEPT !.profiles[c.current] = new]
                               /\ new.name = ActiveProfile(c).name
    BY <1>3, AssignActive
  <2>2. /\ DOMAIN Assign(c, u).profiles = DOMAIN c.profiles
        /\ \A i \in DOMAIN c.profiles :
             Assign(c, u).profiles[i].name = c.profiles[i].name
    BY <1>3, <2>1 DEF WellFormed, Config, ActiveProfile
  <2> QED
    BY <2>2 DEF UniqueNames
<1> QED
  BY <1>1, <1>2, <1>3, ArgumentType

LEMMA SetupUnique ==
  ASSUME NEW a
  PROVE  UniqueNames(Setup(a).profiles)
BY DEF UniqueNames, Setup

LEMMA InitUnique ==
  ASSUME \A text \in InitFiles : DistinctNames(text)
  PROVE  Init => NamesStayUnique
<1> SUFFICES ASSUME Init PROVE NamesStayUnique
  OBVIOUS
<1>1. file \in InitFiles /\ \A p \in Procs : pc[p] = "idle"
  BY DEF Init
<1>2. UniqueNames(Settings(file).profiles)
  <2>1. CASE file \in {NoFile, Torn}
    BY <2>1, NoSettingsUnique
  <2>2. CASE file \notin {NoFile, Torn}
    BY <1>1, <2>2 DEF DistinctNames, UniqueNames
  <2> QED
    BY <2>1, <2>2
<1> QED
  BY <1>1, <1>2 DEF NamesStayUnique, Opening, Writing

LEMMA NextUnique == TypeOK /\ NamesStayUnique /\ [Next]_vars => NamesStayUnique'
<1> SUFFICES ASSUME TypeOK, NamesStayUnique, [Next]_vars PROVE NamesStayUnique'
  OBVIOUS
<1> DEFINE Unique(q) == pc[q] \in Opening \cup Writing => UniqueNames(cfg[q].profiles)
<1>0. \A q \in Procs : Unique(q)
  BY DEF NamesStayUnique
<1>1. CASE UNCHANGED vars
  BY <1>1 DEF vars, NamesStayUnique
<1>2. ASSUME NEW p \in Procs,
             Start(p) \/ Step(p) \/ EndOfInput(p) \/ Spin(p) \/ Crash(p),
             UniqueNames(Settings(file').profiles),
             Unique(p)'
      PROVE  NamesStayUnique'
  <2>1. ASSUME NEW q \in Procs, q # p PROVE Unique(q)'
    BY <1>0, <1>2, <2>1, StepOfAnother
  <2> QED
    BY <1>2, <2>1 DEF NamesStayUnique
<1>3. UniqueNames(Settings(file).profiles)
  BY DEF NamesStayUnique
<1>4. ASSUME NEW p \in Procs, Start(p) PROVE NamesStayUnique'
  BY <1>2, <1>3, <1>4 DEF Start, Opening, Writing, TypeOK
<1>5. ASSUME NEW p \in Procs, LoadSession(p) PROVE NamesStayUnique'
  <2>1. pc'[p] \in {"check", "answer"} /\ file' = file
    BY <1>5 DEF LoadSession, Goto, TypeOK
  <2> QED
    BY <1>2, <1>3, <1>5, <2>1 DEF Opening, Writing, Step
<1>6. ASSUME NEW p \in Procs, AnswerSetup(p) PROVE NamesStayUnique'
  <2>1. PICK a : cfg' = [cfg EXCEPT ![p] = Setup(a)]
    BY <1>6 DEF AnswerSetup
  <2>2. cfg'[p] = Setup(a) /\ file' = file
    BY <1>6, <2>1 DEF AnswerSetup, TypeOK
  <2> QED
    BY <1>2, <1>3, <1>6, <2>2, SetupUnique DEF Step
<1>7. ASSUME NEW p \in Procs, ReloadSession(p) \/ CheckUser(p) \/ OpenFails(p)
                              \/ EndOfInput(p) \/ Spin(p) \/ Crash(p)
      PROVE NamesStayUnique'
  <2>1. file' = file
    BY <1>7 DEF ReloadSession, CheckUser, OpenFails, EndOfInput, Spin, Crash, vars
  <2>2. pc'[p] \in {"check", "dispatch", "done", "spinning", "idle"}
    BY <1>7 DEF ReloadSession, CheckUser, OpenFails, EndOfInput, Spin, Crash,
                Return, Goto, vars, TypeOK
  <2> QED
    BY <1>2, <1>3, <1>7, <2>1, <2>2 DEF Opening, Writing, Step
<1>8. ASSUME NEW p \in Procs, Dispatch(p) PROVE NamesStayUnique'
  <2> DEFINE loaded == IF cmd[p].op \in PlainOps
                       THEN [ret |-> "SUCCESS", cfg |-> NewConfig]
                       ELSE CommandLoad(p)
             handled == Handle(cmd[p], loaded)
  <2>1. IsCommand(cmd[p]) /\ file \in File
    BY DEF TypeOK
  <2>2. IsUpdate(cmd[p]) => loaded.cfg = Settings(file) /\ WellFormed(loaded.cfg)
    BY CommandLoadType DEF IsUpdate, CommandLoad, Settings
  <2>3. /\ pc'[p] = handled.next /\ file' = file
        /\ handled.next = "open" => cfg'[p] = handled.cfg
    BY <1>8 DEF Dispatch, Goto, TypeOK
  <2>4. handled.next \in {"done", "segfault", "open"}
    <3>1. /\ WellFormed(loaded.cfg) /\ loaded.ret \in Result
          /\ loaded.ret = "SUCCESS" => cmd[p].op \in PlainOps \/ loaded.cfg.current # 0
      BY CommandLoadType, NewConfigType DEF Result
    <3> HIDE DEF loaded
    <3> QED
      BY <2>1, <3>1, HandleType
  <2> HIDE DEF loaded
  <2>5. handled.next = "open" =>
          /\ IsUpdate(cmd[p])
          /\ cmd[p].op \in ProfileOps => loaded.cfg.current # 0
          /\ handled.cfg = Assign(loaded.cfg, cmd[p])
    BY <2>1, HandleEffect
  <2> HIDE DEF handled
  <2>6. handled.next = "open" => UniqueNames(handled.cfg.profiles)
    BY <1>3, <2>1, <2>2, <2>5, AssignUnique
  <2> QED
    BY <1>2, <1>3, <1>8, <2>3, <2>4, <2>6 DEF Opening, Writing, Step
<1>9. ASSUME NEW p \in Procs, OpenFile(p) PROVE NamesStayUnique'
  <2>1. /\ pc[p] \in Opening /\ cfg' = cfg /\ file' = Torn
    BY <1>9 DEF OpenFile, Change
  <2>2. UniqueNames(Settings(file').profiles)
    BY <2>1, NoSettingsUnique
  <2> QED
    BY <1>0, <1>2, <1>9, <2>1, <2>2 DEF Step
<1>10. ASSUME NEW p \in Procs, WriteFile(p) \/ ShortWrite(p) PROVE NamesStayUnique'
  <2>1. PICK text \in {Torn, Saved(cfg[p])} : Save(p, text)
    BY <1>10 DEF WriteFile, ShortWrite
  <2>2. /\ file' = text /\ pc[p] \in Writing /\ pc'[p] \in {"done", "reload"}
    BY <2>1 DEF Save, Change, Return, Goto, Writing, TypeOK
  <2>3. WellFormed(cfg[p]) /\ UniqueNames(cfg[p].profiles)
    BY <1>0, <2>2 DEF TypeOK
  <2>4. UniqueNames(Settings(file').profiles)
    BY <2>1, <2>2, <2>3, NoSettingsUnique, SavedUnique
  <2> QED
    BY <1>2, <1>10, <2>2, <2>4 DEF Opening, Writing, Step
<1> QED
  BY <1>1, <1>4, <1>5, <1>6, <1>7, <1>8, <1>9, <1>10 DEF Next, Step

\* If the file did not name two profiles alike at first, it never does, however
\* many runs write it: nothing that was loaded twice is ever saved.
THEOREM ProfilesStayDistinct ==
  ASSUME \A text \in InitFiles : DistinctNames(text)
  PROVE  Spec => []NoDuplicateProfiles
<1>1. Init => NamesStayUnique
  BY InitUnique
<1>2. NamesStayUnique => NoDuplicateProfiles
  BY DEF NamesStayUnique, NoDuplicateProfiles, DistinctNames, UniqueNames
<1> QED
  BY <1>1, <1>2, InitTypeOK, NextTypeOK, NextUnique, PTL DEF Spec
===============================================================================
