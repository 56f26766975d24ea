---------------------------- MODULE MCConfigClaims ----------------------------
(* Constants of the runs of ConfigClaims. *)
EXTENDS MCConfigSession, ConfigClaims

KeyCommands     == {Cmd("key", <<"good">>)}
HelpCommands    == {Cmd("help", <<>>)}
BrowserCommands == {Cmd("browser", <<>>)} \cup BrowserUpdates
FirstActive     == {[Two EXCEPT !.profile_name = "work"]}
===============================================================================
