--------------------------- MODULE ConfigRefinement ---------------------------
(***************************************************************************)
(* One process at a time implements ConfigStore: the truncation and the    *)
(* write of a save, between which the file cannot be read, are one step.   *)
(***************************************************************************)
EXTENDS ConfigSession

CONSTANT Unset   \* what ConfigStore calls a store that cannot be read

\* What the settings of a text look like to ConfigStore.
SettingsRecord ==
  LET Values == Names \cup Url \cup Keys \cup Port \cup BOOLEAN
  IN  [browser : Programs, editor : Programs, profile : Names,
       profiles : UNION {[names -> [ProfileOps -> Values]] : names \in SUBSET Names}]

ASSUME ConfigRefinementAssumption ==
  /\ \E p \in Procs : Procs = {p}
  /\ Unset \notin SettingsRecord

User == CHOOSE p \in Procs : TRUE

\* One profile as a function of the commands that set its members.
ProfileSettingsOf(profile) == [op \in ProfileOps |-> ProfileSetting(profile, op)]

SettingsIn(c) ==
  [browser |-> c.browser, editor |-> c.editor, profile |-> c.profile_name,
   profiles |->
     [name \in {c.profiles[i].name : i \in DOMAIN c.profiles} |->
        ProfileSettingsOf(c.profiles[CHOOSE i \in DOMAIN c.profiles :
                                       c.profiles[i].name = name])]]

\* A text that config::load gives up on before its end holds no settings.
Abstract(text) ==
  IF text \in {NoFile, Torn} \/ ~ReadsAll(text) THEN Unset
  ELSE SettingsIn(Settings(text))

\* The settings that a user who gives these answers means.
IntendedProfile(a) ==
  [name |-> a.name, url |-> a.url, key |-> a.key, port |-> a.port % PortModulus,
   use_ssl |-> a.use_ssl, verify_ssl |-> a.verify_ssl]

Intended(a) ==
  [browser |-> a.browser, editor |-> a.editor, profile |-> a.name,
   profiles |-> [name \in {a.name} |-> ProfileSettingsOf(IntendedProfile(a))]]

\* The commands that give a setting a value.
Given(op) ==
  {c \in Commands : c.op = op /\ IsUpdate(c) /\ Readable(c) /\ Accepted(c)}

\* The file before the truncation stands for the file during the save.
VisibleText == IF pc[User] \in Writing THEN base[User] ELSE file

Store == INSTANCE ConfigStore WITH
  settings <- Abstract(VisibleText),
  ProfileSettings <- ProfileOps,
  Values <- [op \in Ops \ PlainOps |-> {ArgumentValue(c) : c \in Given(op)}],
  Setups <- {Intended(a) : a \in Answers},
  InitSettings <- {Abstract(text) : text \in InitFiles},
  Durable <- Faults \cap {"crash", "short_write"} = {}

\* The program, run by one user at a time, implements the store.
StoreSpec == Store!Spec

\* What it takes: the setup is not asked for SSL, for it stores the answer to the
\* second SSL question in the member of the first (config.cpp 175), ...
NoSslAsked == \A a \in Answers : ~a.use_ssl /\ ~a.verify_ssl

\* ... a file holds one profile, for `current' is the last profile of a file
\* that holds more, whichever is named as the active one (config.cpp 155), ...
OneProfile(text) == Loads(text) => Len(Settings(text).profiles) = 1
OneProfileFiles == \A text \in InitFiles : OneProfile(text)

\* ... and nobody sets the browser by a command, which sets the editor (config.cpp 288).
NoBrowserSet == \A c \in Commands : c.op = "browser" => ~IsUpdate(c)
===============================================================================
