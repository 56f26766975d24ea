--------------------------- MODULE MCConfigSession ----------------------------
(* Constants of the runs of ConfigSession. *)
EXTENDS ConfigSession, TLC

MCSymmetry == Permutations(Procs)

MCNames == {"default", "work"}
MCHosts == {"h"}
MCKeys == {"good", "bad"}
MCPrograms == {"", "vim", "emacs"}

MCUrls == {[host |-> "h", slashes |-> n] : n \in 0 .. 2}

-------------------------------------------------------------------------------
\* Files.

Home == [name |-> "default", url |-> [host |-> "h", slashes |-> 0],
         key |-> "good", port |-> 1, use_ssl |-> FALSE, verify_ssl |-> FALSE]
Work == [Home EXCEPT !.name = "work", !.port = 2, !.use_ssl = TRUE]

Plain == [browser |-> "", editor |-> "vim", profile_name |-> "default",
          profiles |-> <<Home>>]
Two == [Plain EXCEPT !.profiles = <<Work, Home>>, !.browser = "emacs"]

\* Documents that were edited by hand.
Sparse == [Plain EXCEPT !.browser = Missing, !.editor = Missing,
                        !.profiles = <<[Home EXCEPT !.use_ssl = Missing,
                                                    !.verify_ssl = TRUE]>>]
HalfRead == [Two EXCEPT !.profiles = <<Home, [Work EXCEPT !.port = Mistyped]>>]
Stray == [Plain EXCEPT !.profile_name = "work"]
Rejected == [Plain EXCEPT !.profiles = <<[Home EXCEPT !.key = "bad"]>>]
NoEditor == [Plain EXCEPT !.editor = Mistyped]
NoArray == [Plain EXCEPT !.profiles = Missing]
NoName == [Plain EXCEPT !.profile_name = Missing]

OneFile == {Plain}
AllFiles == {NoFile, Torn, Plain, Two, Sparse, HalfRead, Stray, Rejected,
             NoEditor, NoArray, NoName}
PairFiles == {Two, HalfRead}
SingleFiles == {NoFile, Torn, Plain, Sparse, Stray, Rejected, NoEditor}

-------------------------------------------------------------------------------
\* Command lines.

Cmd(op, args) == [op |-> op, args |-> args]

Queries == {Cmd(op, <<>>) : op \in ProgramOps \cup {"profile"} \cup ProfileOps}
PortArgs == {[value |-> 5, whole |-> TRUE], [value |-> 2, whole |-> FALSE]}
PlainCommands ==
  {Cmd("help", <<>>), Cmd("other", <<>>), Cmd("usage", <<>>), Cmd("invalid", <<>>),
   Cmd("new", <<>>), Cmd("new", <<"work">>), Cmd("key", <<"good", "bad">>)}

EditorUpdates == {Cmd("editor", <<"emacs">>), Cmd("editor", <<"vim">>)}
BrowserUpdates == {Cmd("browser", <<"emacs">>)}
ProfileUpdates == {Cmd("profile", <<"default">>)}
UrlUpdates == {Cmd("url", <<u>>) : u \in MCUrls}
KeyUpdates == {Cmd("key", <<"good">>), Cmd("key", <<"bad">>)}
PortUpdates == {Cmd("port", <<a>>) : a \in PortArgs}
SslUpdates == {Cmd(op, <<b>>) : op \in SslOps, b \in BoolText}
                \cup {Cmd("verify-ssl", <<"true", "false">>)}

CheckedUpdates == EditorUpdates \cup BrowserUpdates \cup ProfileUpdates \cup
                  UrlUpdates \cup KeyUpdates \cup PortUpdates
RenamingUpdates == {Cmd("profile", <<"work">>)}
StoreCommands == {Cmd("help", <<>>), Cmd("editor", <<"emacs">>),
                  Cmd("browser", <<>>), Cmd("key", <<"bad">>),
                  Cmd("url", <<[host |-> "h", slashes |-> 2]>>),
                  Cmd("port", <<[value |-> 5, whole |-> TRUE]>>),
                  Cmd("port", <<[value |-> 0, whole |-> FALSE]>>),
                  Cmd("verify-ssl", <<"true">>)} \cup RenamingUpdates
SoloCommands == Queries \cup PlainCommands \cup CheckedUpdates \cup
                RenamingUpdates \cup SslUpdates
PairCommands == {Cmd("editor", <<"emacs">>), Cmd("verify-ssl", <<"true">>),
                 Cmd("url", <<[host |-> "h", slashes |-> 2]>>)}

-------------------------------------------------------------------------------
\* Answers to the setup.

Entered == [name |-> "default", key |-> "good", url |-> [host |-> "h", slashes |-> 1],
            port |-> 4, use_ssl |-> TRUE, verify_ssl |-> FALSE, editor |-> "vim",
            browser |-> "emacs"]
MCAnswers == {Entered, [Entered EXCEPT !.name = "work", !.verify_ssl = TRUE]}
OneAnswer == {Entered}
NoSslAnswers == {[Entered EXCEPT !.use_ssl = FALSE],
                 [Entered EXCEPT !.use_ssl = FALSE, !.name = "work"]}
===============================================================================
