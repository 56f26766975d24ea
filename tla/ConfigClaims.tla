----------------------------- MODULE ConfigClaims -----------------------------
(***************************************************************************)
(* What comments and messages of src/source/config.cpp and                 *)
(* src/include/config.h say of the configuration and the code does not do. *)
(* Each claim is refuted by a run of its own.                              *)
(***************************************************************************)
EXTENDS ConfigSession

\* config.h:44 "Save this config object to the config file.": when save returns
\* SUCCESS, the object is in the file.
SaveSaves ==
  \A p \in Procs :
    pc[p] = "done" /\ IsUpdate(cmd[p]) /\ ret[p] = "SUCCESS" /\ ~touched[p] => file # Torn

\* config.cpp:160 "profile_name '%s' does not name a valid profile.": the profile
\* that main goes on with is the one that profile_name names.
ActiveIsNamed ==
  \A p \in Procs :
    pc[p] = "check" => ActiveProfile(session[p]).name = session[p].profile_name

\* config.cpp:192 "browser [<path>]", next to "editor [<path>]", and 291 "using
\* browser %s": a path given to `config browser' is the browser that the next
\* `config browser' prints.
BrowserIsStored ==
  \A p \in Procs :
    pc[p] = "done" /\ cmd[p].op = "browser" /\ IsUpdate(cmd[p]) /\ ret[p] = "SUCCESS"
      /\ ~touched[p] => Stored(cmd[p])
===============================================================================
