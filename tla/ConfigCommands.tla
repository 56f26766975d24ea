---------------------------- MODULE ConfigCommands ----------------------------
(***************************************************************************)
(* The `redmine config' commands (action::config and its config_* handlers *)
(* in src/source/config.cpp) as functions of the object that the handler   *)
(* has just loaded, and the object that the interactive setup builds.      *)
(*                                                                         *)
(* A handler is split where the process touches the file: Handle is        *)
(* everything between its load and its save, and says whether it gets as   *)
(* far as the save.                                                        *)
(***************************************************************************)
EXTENDS ConfigFile

\* An argument that strtoul reads: the number it starts with and whether the
\* text ends there.
PortText == [value : Nat, whole : BOOLEAN]
BoolText == {"true", "false", "neither"}

ProgramOps == {"browser", "editor"}
SslOps     == {"use-ssl", "verify-ssl"}
ProfileOps == {"url", "key", "port"} \cup SslOps
\* The rest of the program: `help' stands for -h and for no action at all, `other'
\* for the actions that do not touch the configuration, `usage' for a
\* `redmine config' without arguments and `invalid' for one with an unknown word.
PlainOps == {"help", "other", "usage", "invalid", "new"}

Ops == ProgramOps \cup {"profile"} \cup ProfileOps \cup PlainOps

ArgumentOf(op) ==
  CASE op \in ProgramOps -> Programs
    [] op = "url"        -> Url
    [] op = "key"        -> Keys
    [] op = "port"       -> PortText
    [] op \in SslOps     -> BoolText
    [] OTHER             -> Names

IsCommand(cmd) ==
  /\ DOMAIN cmd = {"op", "args"}
  /\ cmd.op \in Ops
  /\ cmd.args \in Seq(ArgumentOf(cmd.op))

IsQuery(cmd) == cmd.op \notin PlainOps /\ cmd.args = <<>>

\* config_verify_ssl is the one handler that ignores further arguments.
IsUpdate(cmd) ==
  /\ cmd.op \notin PlainOps
  /\ Len(cmd.args) = 1 \/ (cmd.op = "verify-ssl" /\ Len(cmd.args) > 1)

\* Mutant: config_key forgets to test it.
ChecksSaveButNotKey(cmd) == cmd.op \notin SslOps \cup {"key"}

\* The updates whose handler tests the result of save.
ChecksSave(cmd) == cmd.op \notin SslOps

\* The result a handler that touches no file returns.
PlainResult(cmd) ==
  CASE cmd.op = "help"    -> "SUCCESS"
    [] cmd.op = "other"   -> "SUCCESS"
    [] cmd.op = "usage"   -> "FAILURE"
    [] cmd.op = "new"     -> IF Len(cmd.args) = 1 THEN "SUCCESS" ELSE "FAILURE"
    [] cmd.op \in SslOps  -> "FAILURE"
    [] OTHER              -> "INVALID_ARGUMENT"

-------------------------------------------------------------------------------
\* Conversions of arguments.

DropSlash(url) == IF url.slashes > 0 THEN [url EXCEPT !.slashes = @ - 1] ELSE url
ToLong(text)   == text.value   \* mutant: the port keeps the width of strtoul
ToPort(text)   == text.value % PortModulus
ToBool(text)   == text = "true"

Readable(cmd) == cmd.op \in SslOps => cmd.args[1] # "neither"
Accepted(cmd) == cmd.op = "port" => cmd.args[1].whole

\* What the handlers assign to the loaded object.  config_browser stores its
\* argument in `editor'.
Assign(cfg, cmd) ==
  LET arg == cmd.args[1]
      Active(field, v) == [cfg EXCEPT !.profiles[cfg.current][field] = v]
  IN  CASE cmd.op \in ProgramOps -> [cfg EXCEPT !.editor = arg]
        [] cmd.op = "profile" ->
             [cfg EXCEPT !.profile_name = arg,
                         !.current = LastNamed(cfg.profiles, arg, @)]
        [] cmd.op = "url"        -> Active("url", DropSlash(arg))
        [] cmd.op = "key"        -> Active("key", arg)
        [] cmd.op = "port"       -> Active("port", ToPort(arg))
        [] cmd.op = "use-ssl"    -> Active("use_ssl", ToBool(arg))
        [] cmd.op = "verify-ssl" -> Active("verify_ssl", ToBool(arg))

\* The value that is printed, by a query or after an update.  After an update
\* config_verify_ssl prints `use_ssl', and config_browser the browser.
Printed(cfg, cmd) ==
  CASE cmd.op = "browser"    -> cfg.browser
    [] cmd.op = "editor"     -> cfg.editor
    [] cmd.op = "profile"    -> cfg.profile_name
    [] cmd.op = "url"        -> ActiveProfile(cfg).url
    [] cmd.op = "key"        -> ActiveProfile(cfg).key
    [] cmd.op = "port"       -> ActiveProfile(cfg).port
    [] cmd.op = "use-ssl"    -> ActiveProfile(cfg).use_ssl
    [] cmd.op = "verify-ssl" -> IF IsUpdate(cmd) THEN ActiveProfile(cfg).use_ssl
                                                 ELSE ActiveProfile(cfg).verify_ssl

\* A query that could not load: three handlers replace the result.
QueryError(cmd, ret) ==
  CASE cmd.op \in ProgramOps \cup {"profile"} -> "FAILURE"
    [] cmd.op = "url" -> "INVALID_CONFIG"
    [] OTHER -> ret

\* From a handler's load to its save: where it goes next, with which object
\* and which result.  Updates ignore whether the load succeeded, and those of
\* the active profile follow the `current' pointer it left.
Handle(cmd, loaded) ==
  LET cfg == loaded.cfg
      Stop(r) == [next |-> "done", cfg |-> cfg, ret |-> r]
  IN  CASE IsQuery(cmd) ->
             Stop(IF loaded.ret = "SUCCESS" THEN "SUCCESS"
                                            ELSE QueryError(cmd, loaded.ret))
        [] IsUpdate(cmd) /\ ~Readable(cmd) -> Stop("FAILURE")
        [] IsUpdate(cmd) /\ Readable(cmd) /\ cmd.op \in ProfileOps /\ cfg.current = 0 ->
             [next |-> "segfault", cfg |-> cfg, ret |-> "FAILURE"]
        [] IsUpdate(cmd) /\ Readable(cmd) /\ (cmd.op \in ProfileOps => cfg.current # 0) ->
             [next |-> IF Accepted(cmd) THEN "open" ELSE "done",
              cfg |-> Assign(cfg, cmd),
              ret |-> IF Accepted(cmd) THEN "SUCCESS" ELSE "INVALID_ARGUMENT"]
        [] OTHER -> Stop(PlainResult(cmd))

-------------------------------------------------------------------------------
\* config_interactive: the answers in the order they are asked for, and the
\* object built of them.  Both SSL answers go to use_ssl.

Answer == [name : Names, key : Keys, url : Url, port : Nat, use_ssl : BOOLEAN,
           verify_ssl : BOOLEAN, editor : Programs, browser : Programs]

SetupProfile(a) == [name |-> a.name, url |-> a.url, key |-> a.key,
                    port |-> a.port % PortModulus,
                    use_ssl |-> a.verify_ssl, verify_ssl |-> FALSE]

\* Mutants: the setup does not make its profile the active one; it forgets the
\* browser.
SetupUnnamed(a) ==
  [NewConfig EXCEPT !.profiles = <<SetupProfile(a)>>, !.editor = a.editor,
                    !.browser = a.browser]
SetupNoBrowser(a) ==
  [NewConfig EXCEPT !.profile_name = a.name, !.profiles = <<SetupProfile(a)>>,
                    !.editor = a.editor]

Setup(a) ==
  [browser |-> a.browser, editor |-> a.editor, profile_name |-> a.name,
   profiles |-> <<SetupProfile(a)>>, current |-> NewConfig.current]
===============================================================================
