------------------------ MODULE ConfigRefinement_proofs ------------------------
(***************************************************************************)
(* Proof that ConfigSession, run by one user, implements ConfigStore: each *)
(* write of a save is a Put or a Setup of the store, a write or a run that *)
(* is cut off in the middle of a save is a Lose, and every other step      *)
(* leaves the settings that the file stands for as they are.               *)
(***************************************************************************)
EXTENDS ConfigRefinement, ConfigSession_proofs

-------------------------------------------------------------------------------
(***************************************************************************)
(* The settings a text stands for.                                         *)
(***************************************************************************)

\* ConfigStore's Usable, of settings that are not those of the current state.
UsableSettings(s) == s # Unset /\ s.profile \in DOMAIN s.profiles

LEMMA ProfileSettingsType ==
  ASSUME NEW profile \in Profile
  PROVE  ProfileSettingsOf(profile) \in
           [ProfileOps -> Names \cup Url \cup Keys \cup Port \cup BOOLEAN]
BY DEF ProfileSettingsOf, ProfileSetting, ProfileOps, SslOps, Profile

LEMMA SettingsInType ==
  ASSUME NEW c, WellFormed(c)
  PROVE  SettingsIn(c) \in SettingsRecord /\ SettingsIn(c) # Unset
<1> DEFINE names == {c.profiles[i].name : i \in DOMAIN c.profiles}
           Values == Names \cup Url \cup Keys \cup Port \cup BOOLEAN
           profiles == SettingsIn(c).profiles
<1>1. c.profiles \in Seq(Profile)
  BY DEF WellFormed, Config
<1>2. names \in SUBSET Names
  <2>1. \A profile \in Profile : profile.name \in Names
    BY DEF Profile
  <2>2. \A i \in DOMAIN c.profiles : c.profiles[i] \in Profile
    BY <1>1
  <2> QED
    BY <2>1, <2>2
<1>3. profiles \in [names -> [ProfileOps -> Values]]
  <2>1. ASSUME NEW name \in names
        PROVE  ProfileSettingsOf(c.profiles[CHOOSE i \in DOMAIN c.profiles :
                                              c.profiles[i].name = name])
                 \in [ProfileOps -> Values]
    <3>1. PICK k : k = CHOOSE i \in DOMAIN c.profiles : c.profiles[i].name = name
      OBVIOUS
    <3>2. k \in DOMAIN c.profiles
      BY <3>1
    <3>3. c.profiles[k] \in Profile
      BY <1>1, <3>2
    <3> QED
      BY <3>1, <3>3, ProfileSettingsType
  <2>2. profiles = [name \in names |->
                      ProfileSettingsOf(c.profiles[CHOOSE i \in DOMAIN c.profiles :
                                                     c.profiles[i].name = name])]
    BY DEF SettingsIn
  <2> HIDE DEF names, profiles, Values
  <2> QED
    BY <2>1, <2>2
<1>4. SettingsIn(c) \in SettingsRecord
  <2>1. SettingsIn(c) = [browser |-> c.browser, editor |-> c.editor,
                         profile |-> c.profile_name, profiles |-> profiles]
    BY DEF SettingsIn
  <2>2. profiles \in UNION {[n -> [ProfileOps -> Values]] : n \in SUBSET Names}
    BY <1>2, <1>3
  <2>3. c.browser \in Programs /\ c.editor \in Programs /\ c.profile_name \in Names
    BY DEF WellFormed, Config
  <2> HIDE DEF profiles, names
  <2> QED
    BY <2>1, <2>2, <2>3 DEF SettingsRecord
<1> QED
  BY <1>4, ConfigRefinementAssumption

\* A text can be used by the store exactly if a program that starts on it loads it.
LEMMA UsableWhenItLoads ==
  ASSUME NEW text \in File
  PROVE  /\ Loads(text) => /\ Abstract(text) = SettingsIn(Settings(text))
                           /\ UsableSettings(Abstract(text))
         /\ ~Loads(text) => ~UsableSettings(Abstract(text))
<1> DEFINE c == Settings(text)
<1>1. CASE Loads(text)
  <2>1. Abstract(text) = SettingsIn(c)
    BY <1>1, LoadType, NewConfigType DEF Loads, Abstract
  <2>2. /\ WellFormed(c)
        /\ \E i \in DOMAIN c.profiles : c.profiles[i].name = c.profile_name
    BY <1>1, LoadedSettings DEF Settings
  <2> HIDE DEF c
  <2>3. SettingsIn(c) # Unset
    BY <2>2, SettingsInType
  <2>4. SettingsIn(c).profile \in DOMAIN SettingsIn(c).profiles
    BY <2>2 DEF SettingsIn
  <2> QED
    BY <1>1, <2>1, <2>3, <2>4 DEF UsableSettings, c
<1>2. CASE text \in {NoFile, Torn} \/ ~ReadsAll(text)
  <2>1. ~Loads(text)
    BY <1>2, LoadType, NewConfigType DEF Loads
  <2>2. Abstract(text) = Unset
    BY <1>2 DEF Abstract
  <2> QED
    BY <2>1, <2>2 DEF UsableSettings
<1>3. CASE text \notin {NoFile, Torn} /\ ReadsAll(text) /\ ~Loads(text)
  <2> DEFINE read == ReadInto(NewConfig, text)
  <2>1. /\ Load(NewConfig, text).cfg = read
        /\ Load(NewConfig, text).ret = "SUCCESS" <=> read.current # 0
    BY <1>3 DEF Load
  <2>2. read.current = 0
    BY <1>3, <2>1 DEF Loads
  <2>3. WellFormed(read)
    BY <2>1, LoadType, NewConfigType
  <2>4. /\ read.current = IF \E i \in DOMAIN read.profiles :
                                read.profiles[i].name = read.profile_name
                          THEN Len(read.profiles) ELSE NewConfig.current
    BY <1>3 DEF ReadInto, ReadsAll, ReadsArray
  <2>5. Abstract(text) = SettingsIn(read)
    BY <1>3, <2>1 DEF Abstract, Settings
  <2> HIDE DEF read
  <2>6. ~ \E i \in DOMAIN read.profiles : read.profiles[i].name = read.profile_name
    BY <2>2, <2>3, <2>4 DEF WellFormed, Config
  <2>7. SettingsIn(read).profile \notin DOMAIN SettingsIn(read).profiles
    BY <2>6 DEF SettingsIn
  <2> QED
    BY <1>3, <2>5, <2>7 DEF UsableSettings
<1> QED
  BY <1>1, <1>2, <1>3

LEMMA AbstractSaved ==
  ASSUME NEW c, WellFormed(c)
  PROVE  Abstract(Saved(c)) = SettingsIn(Settings(Saved(c)))
BY SavedType DEF Abstract

LEMMA OneProfileSettings ==
  ASSUME NEW c, WellFormed(c), Len(c.profiles) = 1
  PROVE  SettingsIn(c) =
           [browser |-> c.browser, editor |-> c.editor, profile |-> c.profile_name,
            profiles |-> [name \in {c.profiles[1].name} |->
                            ProfileSettingsOf(c.profiles[1])]]
<1>1. DOMAIN c.profiles = {1}
  BY DEF WellFormed, Config
<1>2. {c.profiles[i].name : i \in DOMAIN c.profiles} = {c.profiles[1].name}
  BY <1>1
<1>3. (CHOOSE i \in DOMAIN c.profiles : c.profiles[i].name = c.profiles[1].name) = 1
  BY <1>1
<1>4. [name \in {c.profiles[i].name : i \in DOMAIN c.profiles} |->
         ProfileSettingsOf(c.profiles[CHOOSE i \in DOMAIN c.profiles :
                                        c.profiles[i].name = name])] =
      [name \in {c.profiles[1].name} |-> ProfileSettingsOf(c.profiles[1])]
  BY <1>2, <1>3
<1> QED
  BY <1>4 DEF SettingsIn

-------------------------------------------------------------------------------
(***************************************************************************)
(* What a write does to the settings.                                      *)
(***************************************************************************)

LEMMA PutProgram ==
  ASSUME NEW text \in File, Loads(text), Len(Settings(text).profiles) = 1,
         NEW u, IsCommand(u), IsUpdate(u), u.op \in ProgramOps
  PROVE  /\ WellFormed(Updated(text, u)) /\ Len(Updated(text, u).profiles) = 1
         /\ SettingsIn(Updated(text, u)) =
              [SettingsIn(Settings(text)) EXCEPT !["editor"] = ArgumentValue(u)]
<1> DEFINE c == Settings(text)
           d == Updated(text, u)
<1>1. WellFormed(c) /\ Len(c.profiles) = 1
  BY LoadedSettings DEF Settings
<1>2. PICK v \in Programs : v = ArgumentValue(u) /\ d = [c EXCEPT !.editor = v]
  BY UpdatedProgram
<1> HIDE DEF c, d
<1>3. /\ WellFormed(d) /\ d.browser = c.browser /\ d.editor = v
      /\ d.profile_name = c.profile_name /\ d.profiles = c.profiles
  BY <1>1, <1>2 DEF WellFormed, Config
<1>4. PICK m : m = [name \in {c.profiles[1].name} |-> ProfileSettingsOf(c.profiles[1])]
  OBVIOUS
<1>5. SettingsIn(c) = [browser |-> c.browser, editor |-> c.editor,
                       profile |-> c.profile_name, profiles |-> m]
  BY <1>1, <1>4, OneProfileSettings
<1>6. SettingsIn(d) = [browser |-> c.browser, editor |-> v,
                       profile |-> c.profile_name, profiles |-> m]
  BY <1>1, <1>3, <1>4, OneProfileSettings
<1>7. SettingsIn(d) = [SettingsIn(c) EXCEPT !["editor"] = v]
  BY <1>5, <1>6
<1> QED
  BY <1>1, <1>2, <1>3, <1>7 DEF c, d

LEMMA PutName ==
  ASSUME NEW text \in File, Loads(text), Len(Settings(text).profiles) = 1,
         NEW u, IsCommand(u), IsUpdate(u), u.op = "profile"
  PROVE  /\ WellFormed(Updated(text, u)) /\ Len(Updated(text, u).profiles) = 1
         /\ SettingsIn(Updated(text, u)) =
              [SettingsIn(Settings(text)) EXCEPT !["profile"] = ArgumentValue(u)]
<1> DEFINE c == Settings(text)
           d == Updated(text, u)
<1>1. WellFormed(c) /\ Len(c.profiles) = 1
  BY LoadedSettings DEF Settings
<1>2. PICK v \in Names : v = ArgumentValue(u)
  BY UpdatedName
<1>3. \E n \in 0 .. Len(c.profiles) :
        d = [c EXCEPT !.profile_name = ArgumentValue(u), !.current = n]
  BY UpdatedName, Zenon
<1> HIDE DEF c, d
<1>4. PICK n \in 0 .. 1 : d = [c EXCEPT !.profile_name = v, !.current = n]
  BY <1>1, <1>2, <1>3
<1>5. /\ WellFormed(d) /\ d.browser = c.browser /\ d.editor = c.editor
      /\ d.profile_name = v /\ d.profiles = c.profiles
  <2>1. d = [browser |-> c.browser, editor |-> c.editor, profile_name |-> v,
             profiles |-> c.profiles, current |-> n]
    BY <1>1, <1>4 DEF WellFormed, Config
  <2>2. n \in Nat
    OBVIOUS
  <2> QED
    BY <1>1, <2>1, <2>2 DEF WellFormed, Config
<1>6. PICK m : m = [name \in {c.profiles[1].name} |-> ProfileSettingsOf(c.profiles[1])]
  OBVIOUS
<1>7. SettingsIn(c) = [browser |-> c.browser, editor |-> c.editor,
                       profile |-> c.profile_name, profiles |-> m]
  BY <1>1, <1>6, OneProfileSettings
<1>8. SettingsIn(d) = [browser |-> c.browser, editor |-> c.editor,
                       profile |-> v, profiles |-> m]
  BY <1>1, <1>5, <1>6, OneProfileSettings
<1>9. SettingsIn(d) = [SettingsIn(c) EXCEPT !["profile"] = v]
  BY <1>7, <1>8
<1> QED
  BY <1>1, <1>2, <1>5, <1>9 DEF c, d

LEMMA PutActive ==
  ASSUME NEW text \in File, Loads(text), Len(Settings(text).profiles) = 1,
         NEW u, IsCommand(u), IsUpdate(u), u.op \in ProfileOps
  PROVE  /\ WellFormed(Updated(text, u)) /\ Len(Updated(text, u).profiles) = 1
         /\ SettingsIn(Updated(text, u)) =
              [SettingsIn(Settings(text)) EXCEPT
                 !.profiles[SettingsIn(Settings(text)).profile][u.op] = ArgumentValue(u)]
<1> DEFINE c == Settings(text)
           d == Updated(text, u)
           v == ArgumentValue(u)
           Rest(new, old) ==
             \A op \in ProfileOps :
               ProfileSetting(new, op) = IF op = u.op THEN v ELSE ProfileSetting(old, op)
<1>1. /\ WellFormed(c) /\ Len(c.profiles) = 1 /\ c.current = 1
      /\ \E i \in DOMAIN c.profiles : c.profiles[i].name = c.profile_name
  BY LoadedSettings DEF Settings
<1>2. PICK new \in Profile : /\ d = [c EXCEPT !.profiles[c.current] = new]
                             /\ new.name = ActiveProfile(c).name
                             /\ Rest(new, ActiveProfile(c))
  BY UpdatedActive
<1> HIDE DEF c, d, v
<1>3. PICK old \in Profile : old = c.profiles[1]
  BY <1>1 DEF WellFormed, Config
<1>4. /\ WellFormed(d) /\ Len(d.profiles) = 1 /\ d.profiles[1] = new
      /\ d.browser = c.browser /\ d.editor = c.editor
      /\ d.profile_name = c.profile_name
  <2>1. WellFormed(d)
    BY <1>1, <1>2, SetActiveType
  <2> QED
    BY <1>1, <1>2, <2>1 DEF WellFormed, Config
<1>5. new.name = old.name /\ Rest(new, old) /\ c.profile_name = old.name
  <2>1. c.profile_name = old.name
    BY <1>1, <1>3 DEF WellFormed, Config
  <2> HIDE DEF Rest
  <2> QED
    BY <1>1, <1>2, <1>3, <2>1 DEF ActiveProfile
<1>6. ProfileSettingsOf(new) = [ProfileSettingsOf(old) EXCEPT ![u.op] = v]
  BY <1>5 DEF ProfileSettingsOf
<1>7. SettingsIn(c) = [browser |-> c.browser, editor |-> c.editor,
                       profile |-> c.profile_name,
                       profiles |-> [name \in {old.name} |-> ProfileSettingsOf(old)]]
  BY <1>1, <1>3, OneProfileSettings
<1>8. SettingsIn(d) = [browser |-> c.browser, editor |-> c.editor,
                       profile |-> c.profile_name,
                       profiles |-> [name \in {old.name} |-> ProfileSettingsOf(new)]]
  BY <1>4, <1>5, OneProfileSettings
<1>9. SettingsIn(d) = [SettingsIn(c) EXCEPT !.profiles[SettingsIn(c).profile][u.op] = v]
  BY <1>5, <1>6, <1>7, <1>8
<1> QED
  BY <1>4, <1>9 DEF c, d, v

\* The setup stores the settings it was given, as far as NoSslAsked goes.
LEMMA SetupStored ==
  ASSUME NEW a \in Answers, NoSslAsked
  PROVE  /\ WellFormed(Settings(Saved(Setup(a))))
         /\ Len(Settings(Saved(Setup(a))).profiles) = 1
         /\ SettingsIn(Settings(Saved(Setup(a)))) = Intended(a)
<1> DEFINE c == Setup(a)
           d == Settings(Saved(Setup(a)))
<1>1. /\ WellFormed(c)
      /\ \E i \in DOMAIN c.profiles : c.profiles[i].name = c.profile_name
      /\ a \in Answer
  BY SetupType, ConfigSessionAssumption
<1>2. d = [c EXCEPT !.current = Len(c.profiles)]
  BY <1>1, SavedConfigLoads DEF Settings
<1>3. /\ c.browser = a.browser /\ c.editor = a.editor /\ c.profile_name = a.name
      /\ c.profiles = <<SetupProfile(a)>>
  BY DEF Setup
<1> HIDE DEF c
<1>4. Len(c.profiles) = 1 /\ c.profiles[1] = SetupProfile(a)
  BY <1>3
<1> HIDE DEF d
<1>5. /\ WellFormed(d) /\ d.browser = a.browser /\ d.editor = a.editor
      /\ d.profile_name = a.name /\ Len(d.profiles) = 1
      /\ d.profiles[1] = SetupProfile(a)
  BY <1>1, <1>2, <1>3, <1>4 DEF WellFormed, Config
<1>6. SetupProfile(a) = IntendedProfile(a) /\ SetupProfile(a).name = a.name
  BY <1>1 DEF NoSslAsked, SetupProfile, IntendedProfile, Answer
<1>7. SettingsIn(d) = Intended(a)
  BY <1>5, <1>6, OneProfileSettings DEF Intended
<1> QED
  BY <1>5, <1>7 DEF c, d

-------------------------------------------------------------------------------
(***************************************************************************)
(* The invariant of a single user: the file is what the process found, up  *)
(* to the moment it truncates it.                                          *)
(***************************************************************************)

Alone ==
  /\ ~touched[User]
  /\ pc[User] # "idle" => cmd[User] \in Commands
  /\ pc[User] \in {"answer"} \cup Opening => file = base[User]
  /\ pc[User] \in Writing => file = Torn
  /\ pc[User] \in {"answer", "setup open", "setup write"} => ~Loads(base[User])
  /\ pc[User] \in {"setup open", "setup write"} =>
       \E a \in Answers : cfg[User] = Setup(a)
  /\ OneProfile(file) /\ OneProfile(base[User])

LEMMA OneUser == User \in Procs /\ Procs = {User}
BY ConfigRefinementAssumption DEF User

\* There is nothing to load from a text that is no document.
LEMMA NothingToLoad == ~Loads(NoFile) /\ ~Loads(Torn)
BY ConfigFileAssumption DEF Loads, Load

LEMMA InitAlone == OneProfileFiles => (Init => Alone)
<1> SUFFICES ASSUME OneProfileFiles, Init PROVE Alone
  OBVIOUS
<1>1. OneProfile(file) /\ OneProfile(NoFile)
  BY NothingToLoad DEF Init, OneProfileFiles, OneProfile
<1> QED
  BY <1>1, OneUser DEF Init, Alone, Opening, Writing

\* The text that an undisturbed update or a setup writes.
LEMMA WrittenText ==
  ASSUME NoSslAsked, TypeOK, EveryoneUndisturbed, Alone, pc[User] \in Writing
  PROVE  /\ WellFormed(Settings(Saved(cfg[User])))
         /\ Len(Settings(Saved(cfg[User])).profiles) = 1
         /\ Abstract(Saved(cfg[User])) = SettingsIn(Settings(Saved(cfg[User])))
<1>1. PICK c : c = cfg[User] /\ WellFormed(c)
  BY OneUser DEF TypeOK
<1>2. Abstract(Saved(c)) = SettingsIn(Settings(Saved(c)))
  BY <1>1, AbstractSaved
<1>3. CASE pc[User] = "setup write"
  <2>1. PICK a \in Answers : c = Setup(a)
    BY <1>1, <1>3 DEF Alone
  <2> QED
    BY <1>1, <1>2, <2>1, SetupStored
<1>4. CASE pc[User] = "write"
  <2>1. PICK text, u : text = base[User] /\ u = cmd[User]
    OBVIOUS
  <2>2. /\ Settings(Saved(c)) = Updated(text, u)
        /\ text \in File /\ Loads(text) /\ IsCommand(u) /\ IsUpdate(u)
    BY <1>1, <1>4, <2>1, OneUser, WrittenUpdateIsStored
    DEF EveryoneUndisturbed, Undisturbed, Alone
  <2>3. Len(Settings(text).profiles) = 1
    BY <2>1, <2>2 DEF Alone, OneProfile
  <2>4. WellFormed(Updated(text, u)) /\ Len(Updated(text, u).profiles) = 1
    BY <2>2, <2>3, PutProgram, PutName, PutActive, ArgumentType
  <2> QED
    BY <1>1, <1>2, <2>2, <2>4
<1> QED
  BY <1>3, <1>4 DEF Writing

LEMMA NextAlone ==
  NoSslAsked /\ TypeOK /\ EveryoneLoadsAgain /\ EveryoneUndisturbed /\ Alone
    /\ [Next]_vars => Alone'
<1> SUFFICES ASSUME NoSslAsked, TypeOK, EveryoneLoadsAgain, EveryoneUndisturbed,
                    Alone, [Next]_vars
             PROVE  Alone'
  OBVIOUS
<1> USE OneUser
<1>0. OneProfile(NoFile) /\ OneProfile(Torn)
  BY NothingToLoad DEF OneProfile
<1>1. CASE UNCHANGED vars
  BY <1>1 DEF vars, Alone, OneProfile
<1>2. CASE Start(User)
  BY <1>2 DEF Start, Ended, Alone, Opening, Writing, OneProfile, TypeOK
<1>3. CASE LoadSession(User)
  <2>1. session[User] = NewConfig /\ pc[User] = "load"
    BY <1>3 DEF LoadSession, Goto, EveryoneLoadsAgain, LoadsAgain
  <2>2. /\ pc'[User] = IF Loads(file) THEN "check" ELSE "answer"
        /\ base'[User] = file /\ file' = file /\ cmd' = cmd /\ touched' = touched
    BY <1>3, <2>1 DEF LoadSession, Goto, Loads, TypeOK
  <2> QED
    BY <2>1, <2>2 DEF Alone, Opening, Writing, OneProfile
<1>4. CASE AnswerSetup(User)
  <2>1. PICK a \in Answers : cfg' = [cfg EXCEPT ![User] = Setup(a)]
    BY <1>4 DEF AnswerSetup
  <2>2. /\ pc[User] = "answer" /\ pc'[User] = "setup open" /\ cfg'[User] = Setup(a)
        /\ UNCHANGED <<file, cmd, base, touched>>
    BY <1>4, <2>1 DEF AnswerSetup, Goto, TypeOK
  <2> QED
    BY <2>2 DEF Alone, Opening, Writing, OneProfile
\* Steps to a position of which the invariant says little.
<1>5. ASSUME pc'[User] \notin {"answer"} \cup Opening \cup Writing,
             touched'[User] = FALSE, cmd' = cmd, pc[User] # "idle",
             OneProfile(file'), OneProfile(base'[User])
      PROVE  Alone'
  <2>1. pc'[User] # "idle" => cmd'[User] \in Commands
    BY <1>5 DEF Alone
  <2>2. pc'[User] \notin {"answer", "setup open", "open", "setup write", "write"}
    BY <1>5 DEF Opening, Writing
  <2> QED
    BY <1>5, <2>1, <2>2 DEF Alone, Opening, Writing
<1>6. CASE ReloadSession(User)
  <2>1. /\ pc[User] # "idle" /\ pc'[User] \in {"check", "done"}
        /\ UNCHANGED <<file, cmd, touched>>
        /\ base'[User] \in {file, NoFile}
    BY <1>6 DEF ReloadSession, Return, Goto, Exit, TypeOK
  <2>2. OneProfile(file') /\ OneProfile(base'[User])
    BY <1>0, <2>1 DEF Alone, OneProfile
  <2> QED
    BY <1>5, <2>1, <2>2 DEF Alone, Opening, Writing
<1>7. CASE CheckUser(User) \/ OpenFails(User) \/ EndOfInput(User)
  <2>1. /\ pc[User] # "idle" /\ pc'[User] \in {"dispatch", "done", "spinning"}
        /\ UNCHANGED <<file, cmd, touched>>
        /\ base'[User] \in {base[User], NoFile}
    BY <1>7 DEF CheckUser, OpenFails, EndOfInput, Opening, Return, Goto, Exit, TypeOK
  <2>2. OneProfile(file') /\ OneProfile(base'[User])
    BY <1>0, <2>1 DEF Alone, OneProfile
  <2> QED
    BY <1>5, <2>1, <2>2 DEF Alone, Opening, Writing
<1>8. CASE Dispatch(User)
  <2>1. /\ pc[User] = "dispatch"
        /\ UNCHANGED <<file, cmd, touched>>
        /\ base'[User] \in {file, NoFile}
        /\ pc'[User] = "open" => base'[User] = file
        /\ pc'[User] \in {"done", "segfault", "open"}
    <3> DEFINE loaded == IF cmd[User].op \in PlainOps
                         THEN [ret |-> "SUCCESS", cfg |-> NewConfig]
                         ELSE CommandLoad(User)
               handled == Handle(cmd[User], loaded)
    <3>1. /\ WellFormed(loaded.cfg) /\ loaded.ret \in Result
          /\ loaded.ret = "SUCCESS" =>
               cmd[User].op \in PlainOps \/ loaded.cfg.current # 0
      BY CommandLoadType, NewConfigType DEF Result
    <3>2. IsCommand(cmd[User])
      BY DEF TypeOK
    <3>3. /\ Goto(User, "dispatch", handled.next)
          /\ UNCHANGED <<file, cmd, touched>>
          /\ \/ handled.next # "open" /\ Exit(User)
             \/ handled.next = "open" /\ base' = [base EXCEPT ![User] = file]
      BY <1>8 DEF Dispatch
    <3> HIDE DEF loaded
    <3>4. handled.next \in {"done", "segfault", "open"}
      BY <3>1, <3>2, HandleType
    <3> HIDE DEF handled
    <3> QED
      BY <3>3, <3>4 DEF Goto, Exit, TypeOK
  <2>2. OneProfile(file') /\ OneProfile(base'[User])
    BY <1>0, <2>1 DEF Alone, OneProfile
  <2> QED
    BY <2>1, <2>2 DEF Alone, Opening, Writing
<1>9. CASE OpenFile(User)
  <2>1. /\ pc[User] \in Opening /\ file' = Torn
        /\ pc'[User] = IF pc[User] = "open" THEN "write" ELSE "setup write"
        /\ touched'[User] = touched[User] /\ UNCHANGED <<cmd, cfg, base>>
    BY <1>9 DEF OpenFile, Change, TypeOK
  <2>2. OneProfile(file') /\ OneProfile(base'[User])
    BY <1>0, <2>1 DEF Alone, OneProfile
  <2> QED
    BY <2>1, <2>2 DEF Alone, Opening, Writing
<1>10. CASE WriteFile(User) \/ ShortWrite(User)
  <2>1. PICK text \in {Torn, Saved(cfg[User])} : Save(User, text)
    BY <1>10 DEF WriteFile, ShortWrite
  <2>2. /\ pc[User] \in Writing /\ pc'[User] \in {"done", "reload"}
        /\ file' = text /\ cmd' = cmd /\ touched'[User] = touched[User]
        /\ base'[User] \in {base[User], NoFile}
    BY <2>1 DEF Save, Change, Return, Goto, Exit, Writing, TypeOK
  <2>3. OneProfile(file')
    BY <1>0, <2>1, <2>2, WrittenText DEF OneProfile
  <2>4. OneProfile(base'[User])
    BY <1>0, <2>2 DEF Alone, OneProfile
  <2> QED
    BY <1>5, <2>2, <2>3, <2>4 DEF Alone, Opening, Writing
<1>11. CASE Crash(User)
  <2>1. /\ pc'[User] = "idle" /\ touched'[User] = FALSE /\ UNCHANGED <<file, cmd>>
        /\ base'[User] = NoFile
    BY <1>11 DEF Crash, Exit, TypeOK
  <2>2. OneProfile(file') /\ OneProfile(base'[User])
    BY <1>0, <2>1 DEF Alone, OneProfile
  <2> QED
    BY <2>1, <2>2 DEF Alone, Opening, Writing
<1>12. CASE Spin(User)
  BY <1>1, <1>12 DEF Spin
<1> QED
  BY <1>1, <1>2, <1>3, <1>4, <1>6, <1>7, <1>8, <1>9, <1>10, <1>11, <1>12
  DEF Next, Step

-------------------------------------------------------------------------------
(***************************************************************************)
(* The refinement.                                                         *)
(***************************************************************************)

\* An update that the server's check let through is among the values that the
\* store may be given.
LEMMA ValueOfUpdate ==
  ASSUME NEW u \in Commands, IsCommand(u), IsUpdate(u), Readable(u), Accepted(u)
  PROVE  /\ u.op \in Ops \ PlainOps
         /\ ArgumentValue(u) \in {ArgumentValue(c) : c \in Given(u.op)}
BY DEF Given, IsUpdate, IsCommand

\* The write of an update is a Put.
LEMMA UpdateIsPut ==
  ASSUME NoSslAsked, NoBrowserSet, TypeOK, EveryoneUndisturbed, Alone, pc[User] = "write",
         Abstract(VisibleText)' = Abstract(Saved(cfg[User]))
  PROVE  Store!Next
<1>1. PICK text, u : text = base[User] /\ u = cmd[User]
  OBVIOUS
<1>2. /\ text \in File /\ Loads(text) /\ Len(Settings(text).profiles) = 1
      /\ Settings(Saved(cfg[User])) = Updated(text, u)
      /\ u \in Commands /\ IsCommand(u) /\ IsUpdate(u) /\ Readable(u) /\ Accepted(u)
  BY <1>1, OneUser, WrittenUpdateIsStored
  DEF EveryoneUndisturbed, Undisturbed, Carries, Alone, OneProfile
<1>3. PICK s, t : /\ s = SettingsIn(Settings(text)) /\ t = SettingsIn(Updated(text, u))
  OBVIOUS
<1>4. Abstract(VisibleText) = s /\ UsableSettings(s)
  BY <1>1, <1>2, <1>3, UsableWhenItLoads DEF VisibleText, Writing
<1>5. Abstract(VisibleText)' = t
  BY <1>2, <1>3, WrittenText DEF Writing
<1>6. PICK op, v : op = u.op /\ v = ArgumentValue(u)
  OBVIOUS
<1>7. op \in Ops \ PlainOps /\ v \in {ArgumentValue(c) : c \in Given(op)}
  BY <1>2, <1>6, ValueOfUpdate
<1>8. \/ op \in ProfileOps /\ t = [s EXCEPT !.profiles[s.profile][op] = v]
      \/ op \notin ProfileOps /\ t = [s EXCEPT ![op] = v]
  <2>1. CASE u.op \in ProgramOps
    <3>1. op = "editor" /\ op \notin ProfileOps
      BY <1>2, <1>6, <2>1 DEF NoBrowserSet, ProgramOps, ProfileOps, SslOps
    <3> QED
      BY <1>2, <1>3, <1>6, <2>1, <3>1, PutProgram
  <2>2. CASE u.op = "profile"
    <3>1. op = "profile" /\ op \notin ProfileOps
      BY <1>6, <2>2 DEF ProfileOps, SslOps
    <3> QED
      BY <1>2, <1>3, <1>6, <2>2, <3>1, PutName
  <2>3. CASE u.op \in ProfileOps
    BY <1>2, <1>3, <1>6, <2>3, PutActive
  <2> QED
    BY <1>2, <2>1, <2>2, <2>3, ArgumentType
<1>9. Store!Put(op, v)
  BY <1>4, <1>5, <1>8 DEF Store!Put, Store!Usable, UsableSettings
<1> QED
  BY <1>7, <1>9 DEF Store!Next

\* The write of a setup is a Setup.
LEMMA SetupIsSetup ==
  ASSUME NoSslAsked, TypeOK, EveryoneUndisturbed, Alone, pc[User] = "setup write",
         Abstract(VisibleText)' = Abstract(Saved(cfg[User]))
  PROVE  Store!Next
<1>1. PICK a \in Answers : cfg[User] = Setup(a)
  BY DEF Alone
<1>2. Abstract(VisibleText)' = Intended(a)
  BY <1>1, SetupStored, WrittenText DEF Writing
<1>3. ~UsableSettings(Abstract(VisibleText))
  <2>1. base[User] \in File /\ ~Loads(base[User])
    BY OneUser DEF TypeOK, Alone
  <2> QED
    BY <2>1, UsableWhenItLoads DEF VisibleText, Writing
<1> QED
  BY <1>2, <1>3 DEF Store!Next, Store!Setup, Store!Usable, UsableSettings

\* Whatever ends a save before its whole text is written loses the settings.
LEMMA CutOffIsLose ==
  ASSUME Faults \cap {"crash", "short_write"} # {}, Abstract(VisibleText)' = Unset
  PROVE  Store!Next
BY DEF Store!Next, Store!Lose

LEMMA TornIsUnset == Abstract(Torn) = Unset
BY DEF Abstract

LEMMA StepRefines ==
  NoSslAsked /\ NoBrowserSet /\ TypeOK /\ EveryoneUndisturbed /\ Alone /\ [Next]_vars
    => [Store!Next]_(Abstract(VisibleText))
<1> SUFFICES ASSUME NoSslAsked, NoBrowserSet, TypeOK, EveryoneUndisturbed, Alone, [Next]_vars
             PROVE  Store!Next \/ Abstract(VisibleText)' = Abstract(VisibleText)
  OBVIOUS
<1> USE OneUser
<1>1. CASE UNCHANGED vars
  BY <1>1 DEF vars, VisibleText
<1>2. ASSUME file' = file, pc[User] \notin Writing, pc'[User] \notin Writing
      PROVE  Abstract(VisibleText)' = Abstract(VisibleText)
  BY <1>2 DEF VisibleText
<1>3. CASE \/ Start(User) \/ LoadSession(User) \/ AnswerSetup(User)
           \/ ReloadSession(User) \/ CheckUser(User) \/ OpenFails(User)
           \/ EndOfInput(User)
  <2>1. /\ file' = file
        /\ pc'[User] \in {"load", "check", "answer", "setup open", "dispatch",
                          "done", "spinning"}
        /\ pc[User] \notin Writing
    BY <1>3 DEF Start, Ended, LoadSession, AnswerSetup, ReloadSession, CheckUser,
                OpenFails, Opening, EndOfInput, Return, Goto, Writing, TypeOK
  <2> QED
    BY <1>2, <2>1 DEF Writing
<1>4. CASE Dispatch(User)
  <2>1. pc[User] = "dispatch" /\ file' = file /\ pc'[User] \notin Writing
    <3> DEFINE loaded == IF cmd[User].op \in PlainOps
                         THEN [ret |-> "SUCCESS", cfg |-> NewConfig]
                         ELSE CommandLoad(User)
               handled == Handle(cmd[User], loaded)
    <3>1. /\ WellFormed(loaded.cfg) /\ loaded.ret \in Result
          /\ loaded.ret = "SUCCESS" =>
               cmd[User].op \in PlainOps \/ loaded.cfg.current # 0
      BY CommandLoadType, NewConfigType DEF Result
    <3>2. IsCommand(cmd[User])
      BY DEF TypeOK
    <3>3. Goto(User, "dispatch", handled.next) /\ file' = file
      BY <1>4 DEF Dispatch
    <3> HIDE DEF loaded
    <3>4. handled.next \in {"done", "segfault", "open"}
      BY <3>1, <3>2, HandleType
    <3> HIDE DEF handled
    <3> QED
      BY <3>3, <3>4 DEF Goto, Writing, TypeOK
  <2> QED
    BY <1>2, <2>1 DEF Writing
<1>5. CASE OpenFile(User)
  <2>1. /\ pc[User] \in Opening /\ pc'[User] \in Writing /\ base' = base
        /\ file = base[User] /\ pc[User] \notin Writing
    BY <1>5 DEF OpenFile, Opening, Writing, Alone, TypeOK
  <2> QED
    BY <2>1 DEF VisibleText
<1>6. ASSUME NEW text, Save(User, text)
      PROVE  Abstract(VisibleText)' = Abstract(text) /\ pc[User] \in Writing
  <2>1. /\ pc[User] \in Writing /\ pc'[User] \in {"done", "reload"} /\ file' = text
    BY <1>6 DEF Save, Change, Return, Goto, Writing, TypeOK
  <2> QED
    BY <2>1 DEF VisibleText, Writing
<1>7. CASE WriteFile(User)
  <2>1. /\ Abstract(VisibleText)' = Abstract(Saved(cfg[User]))
        /\ pc[User] \in Writing
    BY <1>6, <1>7 DEF WriteFile
  <2> QED
    BY <2>1, UpdateIsPut, SetupIsSetup DEF Writing
<1>8. CASE ShortWrite(User)
  <2>1. "short_write" \in Faults /\ Abstract(VisibleText)' = Abstract(Torn)
    BY <1>6, <1>8 DEF ShortWrite
  <2> QED
    BY <2>1, TornIsUnset, CutOffIsLose
<1>9. CASE Crash(User)
  <2>1. "crash" \in Faults /\ pc'[User] = "idle" /\ file' = file
    BY <1>9 DEF Crash, TypeOK
  <2>2. CASE pc[User] \notin Writing
    BY <1>2, <2>1, <2>2 DEF Writing
  <2>3. CASE pc[User] \in Writing
    <3>1. Abstract(VisibleText)' = Abstract(Torn)
      BY <2>1, <2>3 DEF VisibleText, Writing, Alone
    <3> QED
      BY <2>1, <3>1, TornIsUnset, CutOffIsLose
  <2> QED
    BY <2>2, <2>3
<1>10. CASE Spin(User)
  BY <1>1, <1>10 DEF Spin
<1> QED
  BY <1>1, <1>3, <1>4, <1>5, <1>7, <1>8, <1>9, <1>10 DEF Next, Step

LEMMA InitRefines == Init => Store!Init
<1> SUFFICES ASSUME Init PROVE Store!Init
  OBVIOUS
<1>1. file \in InitFiles /\ VisibleText = file
  BY OneUser DEF Init, VisibleText, Writing
<1> QED
  BY <1>1 DEF Store!Init

\* One user at a time sees a store in which every command replaces one setting in
\* one step and a cut-off save loses everything at once: the truncation and the
\* write that config::save consists of never show a mixture.
THEOREM ImplementsStore ==
  ASSUME NoSslAsked, OneProfileFiles, NoBrowserSet
  PROVE  Spec => StoreSpec
<1>1. Init => Alone
  BY InitAlone
<1>2. TypeOK /\ EveryoneLoadsAgain /\ EveryoneUndisturbed /\ Alone /\ [Next]_vars
        => Alone'
  BY NextAlone
<1>3. TypeOK /\ EveryoneUndisturbed /\ Alone /\ [Next]_vars
        => [Store!Next]_(Abstract(VisibleText))
  BY StepRefines
<1> QED
  BY <1>1, <1>2, <1>3, InitRefines, UndisturbedHolds, PTL DEF Spec, StoreSpec, Store!Spec
===============================================================================
