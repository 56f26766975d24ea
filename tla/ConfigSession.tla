---------------------------- MODULE ConfigSession -----------------------------
(***************************************************************************)
(* Runs of the program that share one configuration file: main's load      *)
(* (src/source/redmine.cpp), the interactive setup when it fails, the      *)
(* check of the user's key, and a `redmine config' command that loads the  *)
(* file again, changes it and saves it (src/source/config.cpp).            *)
(*                                                                         *)
(* Several processes run at once and take turns at each system call: the   *)
(* open for reading together with the read of the whole file, the open for *)
(* writing, which truncates it, and the write of the new text, which       *)
(* happens when the stream is destroyed.  Nothing locks the file.          *)
(* json::read ignores what follows the root value, so the text of a writer *)
(* whose document is shorter than the one below it reads as that writer's  *)
(* document.                                                               *)
(***************************************************************************)
EXTENDS ConfigCommands

CONSTANTS
  Procs,         \* processes, each of which runs the program again and again
  Commands,      \* the command lines that are typed
  Answers,       \* the answers that are given to the interactive setup
  InitFiles,     \* what the file may hold at first
  ServerKeys,    \* the API keys that the server accepts
  Faults         \* what may go wrong, of FaultKinds

\* open_fails: an open for writing fails (the file is read-only, a full disk);
\* short_write: the write at the end of save is cut short; crash: the process is
\* killed; server_fails: the server does not answer a request it could answer.
FaultKinds == {"open_fails", "short_write", "crash", "server_fails"}

ASSUME ConfigSessionAssumption ==
  /\ \A c \in Commands : IsCommand(c)
  /\ Answers \subseteq Answer
  /\ InitFiles \subseteq File
  /\ ServerKeys \subseteq Keys
  /\ Faults \subseteq FaultKinds

VARIABLES
  file,     \* the configuration file
  pc,       \* where each process is
  cmd,      \* its command line
  session,  \* main's config object
  cfg,      \* the object of the setup or of the command
  ret,      \* the result of the function that returned last
  \* History, read by the properties only:
  base,     \* the file as the process's last load found it
  touched   \* another process has changed the file since the process started

vars  == <<file, pc, cmd, session, cfg, ret, base, touched>>

Label == {"idle", "load", "answer", "setup open", "setup write", "reload",
          "check", "dispatch", "open", "write", "done", "segfault", "spinning"}

Opening == {"setup open", "open"}
Writing == {"setup write", "write"}
Ended   == {"idle", "done", "segfault"}

-------------------------------------------------------------------------------
Init ==
  /\ file \in InitFiles
  /\ pc = [p \in Procs |-> "idle"]
  /\ cmd = [p \in Procs |-> [op |-> "help", args |-> <<>>]]
  /\ session = [p \in Procs |-> NewConfig]
  /\ cfg = [p \in Procs |-> NewConfig]
  /\ ret = [p \in Procs |-> "SUCCESS"]
  /\ base = [p \in Procs |-> NoFile]
  /\ touched = [p \in Procs |-> FALSE]

Goto(p, from, to) == pc[p] = from /\ pc' = [pc EXCEPT ![p] = to]

\* The process is gone, and its memory with it.
Exit(p) ==
  /\ session' = [session EXCEPT ![p] = NewConfig]
  /\ cfg' = [cfg EXCEPT ![p] = NewConfig]
  /\ base' = [base EXCEPT ![p] = NoFile]

Return(p, from, r) ==
  Goto(p, from, "done") /\ ret' = [ret EXCEPT ![p] = r] /\ Exit(p)

\* The file changes by a step of p.
Change(p, text) ==
  /\ file' = text
  /\ touched' = [q \in Procs |-> touched[q] \/ (q # p /\ pc[q] # "idle")]

\* A user types a command line.
Start(p) ==
  /\ pc[p] \in Ended
  /\ pc' = [pc EXCEPT ![p] = "load"]
  /\ \E c \in Commands : cmd' = [cmd EXCEPT ![p] = c]
  /\ ret' = [ret EXCEPT ![p] = "SUCCESS"]
  /\ touched' = [touched EXCEPT ![p] = FALSE]
  /\ UNCHANGED <<file, session, cfg, base>>

\* main: config.load; if it fails, config_interactive asks its questions.
LoadSession(p) ==
  LET loaded == Load(session[p], file)
  IN  /\ Goto(p, "load", IF loaded.ret = "SUCCESS" THEN "check" ELSE "answer")
      /\ session' = [session EXCEPT ![p] = loaded.cfg]
      /\ base' = [base EXCEPT ![p] = file]
      /\ UNCHANGED <<file, cmd, cfg, ret, touched>>

AnswerSetup(p) ==
  /\ Goto(p, "answer", "setup open")
  /\ \E a \in Answers : cfg' = [cfg EXCEPT ![p] = Setup(a)]
  /\ UNCHANGED <<file, cmd, session, ret, base, touched>>

\* The input ends during the questions: get_answer_bool finds neither answer in
\* the empty line that getline leaves, and asks for ever.
EndOfInput(p) ==
  /\ Goto(p, "answer", "spinning")
  /\ UNCHANGED <<file, cmd, session, cfg, ret, base, touched>>

Spin(p) == pc[p] = "spinning" /\ UNCHANGED vars

\* Mutant: main does not look at the result of the second load.
ReloadSessionUnchecked(p) ==
  /\ Goto(p, "reload", "check")
  /\ session' = [session EXCEPT ![p] = Load(session[p], file).cfg]
  /\ base' = [base EXCEPT ![p] = file]
  /\ UNCHANGED <<file, cmd, cfg, ret, touched>>

\* main: the second config.load, into the object that the first one left.
ReloadSession(p) ==
  LET loaded == Load(session[p], file)
  IN  /\ \/ /\ loaded.ret # "SUCCESS"
            /\ Return(p, "reload", loaded.ret)
         \/ /\ loaded.ret = "SUCCESS"
            /\ Goto(p, "reload", "check")
            /\ session' = [session EXCEPT ![p] = loaded.cfg]
            /\ base' = [base EXCEPT ![p] = file]
            /\ UNCHANGED <<cfg, ret>>
      /\ UNCHANGED <<file, cmd, touched>>

\* Mutant: config commands do not wait for the check.
CheckUserSkips(p) ==
  /\ Goto(p, "check", "dispatch")
  /\ UNCHANGED <<file, cmd, session, cfg, ret, base, touched>>

\* main: user.get with the active profile's key.  Whatever the action is, the
\* program ends here unless the server accepts it.
CheckUser(p) ==
  /\ \/ /\ Goto(p, "check", "dispatch")
        /\ ActiveProfile(session[p]).key \in ServerKeys
        /\ UNCHANGED <<session, cfg, ret, base>>
     \/ /\ pc[p] = "check"
        /\ \/ ActiveProfile(session[p]).key \notin ServerKeys
           \/ "server_fails" \in Faults
        /\ Return(p, "check", "FAILURE")
  /\ UNCHANGED <<file, cmd, touched>>

\* Mutant: the handler loads into the object that main loaded into.
CommandLoadAgain(p) == Load(session[p], file)

\* The load with which a handler begins: into an object of its own.
CommandLoad(p) == Load(NewConfig, file)

\* action::config and the handler it calls, up to the handler's save.
Dispatch(p) ==
  LET loaded == IF cmd[p].op \in PlainOps THEN [ret |-> "SUCCESS", cfg |-> NewConfig]
                                          ELSE CommandLoad(p)
      handled == Handle(cmd[p], loaded)
  IN  /\ Goto(p, "dispatch", handled.next)
      /\ ret' = [ret EXCEPT ![p] = handled.ret]
      /\ \/ handled.next # "open" /\ Exit(p)
         \/ /\ handled.next = "open"
            /\ cfg' = [cfg EXCEPT ![p] = handled.cfg]
            /\ base' = [base EXCEPT ![p] = file]
            /\ UNCHANGED session
      /\ UNCHANGED <<file, cmd, touched>>

\* config::save: the constructor of the ofstream truncates the file.
OpenFile(p) ==
  /\ pc[p] \in Opening
  /\ pc' = [pc EXCEPT ![p] = IF @ = "open" THEN "write" ELSE "setup write"]
  /\ Change(p, Torn)
  /\ UNCHANGED <<cmd, session, cfg, ret, base>>

\* save returns FAILURE; two handlers do not look.
OpenFails(p) ==
  /\ "open_fails" \in Faults
  /\ pc[p] \in Opening
  /\ Return(p, pc[p], IF pc[p] = "open" /\ ~ChecksSave(cmd[p])
                      THEN "SUCCESS" ELSE "FAILURE")
  /\ UNCHANGED <<file, cmd, touched>>

\* config::save: the document is written, or the part that fits, and save
\* returns SUCCESS in both cases.
Save(p, text) ==
  /\ \/ pc[p] = "write" /\ Return(p, "write", "SUCCESS")
     \/ Goto(p, "setup write", "reload") /\ UNCHANGED <<session, cfg, ret, base>>
  /\ Change(p, text)
  /\ UNCHANGED cmd

WriteFile(p)  == Save(p, Saved(cfg[p]))
ShortWrite(p) == "short_write" \in Faults /\ Save(p, Torn)

\* The process is killed; what its stream had buffered is lost.
Crash(p) ==
  /\ "crash" \in Faults
  /\ pc[p] \notin Ended
  /\ pc' = [pc EXCEPT ![p] = "idle"]
  /\ touched' = [touched EXCEPT ![p] = FALSE]
  /\ Exit(p)
  /\ UNCHANGED <<file, cmd, ret>>

\* What the process does by itself once it was started.
Step(p) ==
  \/ LoadSession(p) \/ AnswerSetup(p) \/ ReloadSession(p)
  \/ CheckUser(p) \/ Dispatch(p)
  \/ OpenFile(p) \/ OpenFails(p) \/ WriteFile(p) \/ ShortWrite(p)

Next ==
  \E p \in Procs : Start(p) \/ Step(p) \/ EndOfInput(p) \/ Spin(p) \/ Crash(p)

Spec == Init /\ [][Next]_vars

\* A process that runs is scheduled, and the user who was asked answers.
Fairness == \A p \in Procs : WF_vars(Step(p))
FairSpec == Spec /\ Fairness

-------------------------------------------------------------------------------
(***************************************************************************)
(* Properties.                                                             *)
(***************************************************************************)

\* Every variable has its type, and every object's pointer is null or within its
\* profiles.
TypeOK ==
  /\ file \in File
  /\ pc \in [Procs -> Label]
  /\ DOMAIN cmd = Procs /\ \A p \in Procs : IsCommand(cmd[p])
  /\ DOMAIN session = Procs /\ \A p \in Procs : WellFormed(session[p])
  /\ DOMAIN cfg = Procs /\ \A p \in Procs : WellFormed(cfg[p])
  /\ ret \in [Procs -> Result]
  /\ base \in [Procs -> File]
  /\ touched \in [Procs -> BOOLEAN]

\* What a program that starts now makes of a text.
Settings(text) == Load(NewConfig, text).cfg

\* main never uses a null `current', and no command dereferences one unless
\* another process changed the file under it: the command's own load, whose
\* result it ignores, repeats a load of main that succeeded.
CrashNeedsInterference ==
  \A p \in Procs :
    /\ pc[p] = "segfault" => touched[p]
    /\ pc[p] = "check" => session[p].current # 0

\* Why: the inductive strengthening of CrashNeedsInterference.  A process that
\* nobody disturbed finds the file it wrote in the setup, which loads if it was
\* written at all, and what main could load the command can load too.
HasActive(c) == \E i \in DOMAIN c.profiles : c.profiles[i].name = c.profile_name

LoadsAgain(p) ==
  /\ pc[p] \in Ended \cup {"load"} => session[p] = NewConfig
  /\ pc[p] \in {"setup open", "setup write"} => HasActive(cfg[p])
  /\ pc[p] = "reload" /\ ~touched[p] =>
       file = Torn \/ (file = Saved(cfg[p]) /\ HasActive(cfg[p]))
  /\ pc[p] = "check" => session[p].current # 0
  /\ pc[p] \in {"check", "dispatch"} /\ ~touched[p] => Loads(file)
  /\ pc[p] = "segfault" => touched[p]

EveryoneLoadsAgain == \A p \in Procs : LoadsAgain(p)

\* The profile main works with is the one a fresh load finds, although after a
\* setup main loads a second time into the object that the failed first load
\* has left profiles and members in.
SessionIsFresh ==
  \A p \in Procs :
    pc[p] \in {"check", "dispatch"} /\ ~touched[p] =>
      /\ Loads(file)
      /\ ActiveProfile(session[p]) = ActiveProfile(Settings(file))

\* The value an update was given, as a query of it prints it.
ArgumentValue(c) ==
  CASE c.op = "url"     -> DropSlash(c.args[1])
    [] c.op = "port"    -> ToPort(c.args[1])
    [] c.op \in SslOps  -> ToBool(c.args[1])
    [] OTHER            -> c.args[1]

\* A program that starts now loads the file, and a query of what c sets prints
\* c's argument.
Stored(c) ==
  /\ Loads(file)
  /\ Printed(Settings(file), [op |-> c.op, args |-> <<>>]) = ArgumentValue(c)

\* The updates that can be stored.  `config browser' cannot: its handler assigns
\* to the editor (config.cpp 288).  A profile's name can if a profile has it:
\* config_profile takes every name, and a text whose profile_name no profile has
\* does not load (337, 158).
Storable(c, text) ==
  /\ c.op # "browser"
  /\ c.op = "profile" =>
       \E i \in DOMAIN Settings(text).profiles : Settings(text).profiles[i].name = c.args[1]

\* A storable update that returns SUCCESS, and whose file nobody else wrote, is
\* what the next program reads, unless its write was cut short, which save does
\* not notice.  Where the file may not open for writing only the handlers that
\* test the result of save promise it: config_use_ssl and config_verify_ssl
\* report success all the same (441, 464).
SuccessMeansStored ==
  \A p \in Procs :
    /\ pc[p] = "done" /\ IsUpdate(cmd[p]) /\ ret[p] = "SUCCESS" /\ ~touched[p]
    /\ Storable(cmd[p], file)
    /\ ChecksSave(cmd[p]) \/ "open_fails" \notin Faults
    => ("short_write" \in Faults /\ file = Torn) \/ Stored(cmd[p])

\* The settings of a text, each under the command that sets it; one profile
\* setting per profile.
ProfileSetting(profile, op) ==
  CASE op = "name"       -> profile.name
    [] op = "url"        -> profile.url
    [] op = "key"        -> profile.key
    [] op = "port"       -> profile.port
    [] op = "use-ssl"    -> profile.use_ssl
    [] op = "verify-ssl" -> profile.verify_ssl

SettingOf(c, op) ==
  CASE op = "browser" -> c.browser
    [] op = "editor"  -> c.editor
    [] op = "profile" -> c.profile_name
    [] OTHER -> [i \in DOMAIN c.profiles |-> ProfileSetting(c.profiles[i], op)]

SettingsOf(text, op) == SettingOf(Settings(text), op)

\* The end of an update by p: the write that follows the open of its save.
Updates(p) == pc[p] = "write" /\ pc'[p] = "done" /\ file' # Torn

\* An update that was not disturbed changes no setting but the one it names, of
\* the active profile and of no other: what save writes is the whole object, read
\* by an earlier load, and must carry everything else over.  A storable one is
\* then what the next program reads, use-ssl and verify-ssl included once their
\* file could be opened.  `config browser' is left out: it leaves the browser as
\* it is and changes the editor (config.cpp 288).
UpdateIsLocal ==
  [][\A p \in Procs : Updates(p) /\ ~touched[p] /\ cmd[p].op # "browser" =>
       /\ Storable(cmd[p], file') => Stored(cmd[p])'
       /\ \A op \in ProgramOps \cup {"profile", "name"} \cup ProfileOps :
            op # cmd[p].op => SettingsOf(file', op) = SettingsOf(base[p], op)
       /\ cmd[p].op \in ProfileOps =>
            \A i \in DOMAIN Settings(base[p]).profiles :
              i # Settings(base[p]).current =>
                Settings(file').profiles[i] = Settings(base[p]).profiles[i]]_vars

\* As long as the server does not accept the key of the active profile in the
\* file, no command of an undisturbed run opens the file for writing: the
\* program cannot replace such a key (redmine.cpp 81).
RejectedKeyStays ==
  [][\A p \in Procs : pc[p] = "open" /\ pc'[p] = "write" /\ ~touched[p] =>
       ActiveProfile(Settings(file)).key \in ServerKeys]_vars

\* No document ever names two profiles alike if the first one did not: what a
\* process saves never holds the profiles of two loads.
DistinctNames(text) ==
  text \in {NoFile, Torn} \/
    \A i, j \in DOMAIN Settings(text).profiles :
      Settings(text).profiles[i].name = Settings(text).profiles[j].name => i = j
NoDuplicateProfiles == DistinctNames(file)

\* Liveness: once a run has begun, the file becomes one that loads, by the
\* setup when it was none, unless the run is killed or its input ends.
Repaired ==
  \A p \in Procs : pc[p] = "load" ~> (Loads(file) \/ pc[p] \in {"idle", "spinning"})
===============================================================================
