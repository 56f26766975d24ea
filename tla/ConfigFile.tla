------------------------------ MODULE ConfigFile ------------------------------
(***************************************************************************)
(* The configuration file ~/.redmine.json as the document it holds, the    *)
(* redmine::config object it is read into, and the two conversions between *)
(* them: config::load and config::save (src/source/config.cpp).            *)
(*                                                                         *)
(* A document is what json::read makes of the file's text.  Two texts are  *)
(* told apart from documents: NoFile, a path that cannot be opened, and    *)
(* Torn, a text whose root is not an object with members.  A file that was *)
(* truncated and not yet (or only partly) written is Torn: json::read      *)
(* returns the empty object for every proper prefix of an object, and a    *)
(* null value for the empty text.                                          *)
(***************************************************************************)
EXTENDS Naturals, Sequences

CONSTANTS
  Names,          \* profile names
  Hosts,          \* what is left of a URL without its trailing slashes
  Keys,           \* API keys
  Programs,       \* paths of browsers and editors
  PortModulus,    \* ports are uint32_t: 2^32 in the code
  DefaultName,    \* "default"
  DefaultEditor,  \* editor_path()
  NoProgram,      \* the empty string a std::string starts with
  NoFile, Torn,   \* the two texts that are no document
  Missing,        \* a member the document does not have
  Mistyped        \* a member of a JSON type that load does not expect

\* The result codes of redmine.h these components return.
Result == {"SUCCESS", "FAILURE", "INVALID_CONFIG", "INVALID_ARGUMENT"}

Port == 0 .. (PortModulus - 1)
Url == [host : Hosts, slashes : Nat]

-------------------------------------------------------------------------------
\* redmine::config::profile and redmine::config.  The pointer `current' is the
\* index of the profile it points to, 0 for nullptr.

Profile == [name : Names, url : Url, key : Keys, port : Port,
            use_ssl : BOOLEAN, verify_ssl : BOOLEAN]

Config == [browser : Programs, editor : Programs, profile_name : Names,
           profiles : Seq(Profile), current : Nat]

\* The pointer is null or within the vector.
WellFormed(c) == c \in Config /\ c.current \in 0 .. Len(c.profiles)

\* The default constructor.
NewConfig ==
  [browser |-> NoProgram, editor |-> DefaultEditor,
   profile_name |-> DefaultName, profiles |-> <<>>, current |-> 0]

\* The last profile called `name', or `otherwise' when there is none.
LastNamed(profiles, name, otherwise) ==
  LET named == {i \in DOMAIN profiles : profiles[i].name = name}
  IN  IF named = {} THEN otherwise
      ELSE CHOOSE i \in named : \A j \in named : j <= i

-------------------------------------------------------------------------------
\* Documents.

Member(S) == {Missing, Mistyped} \cup S

ProfileMember == [name : Member(Names), url : Member(Url), key : Member(Keys),
                  port : Member(Port), use_ssl : Member(BOOLEAN),
                  verify_ssl : Member(BOOLEAN)]

Document == [browser : Member(Programs), editor : Member(Programs),
             profile_name : Member(Names),
             profiles : Member(Seq(ProfileMember))]

File == {NoFile, Torn} \cup Document

\* What is written down as missing or mistyped is no value of any member.
ASSUME ConfigFileAssumption ==
  /\ PortModulus \in Nat \ {0}
  /\ DefaultName \in Names
  /\ {DefaultEditor, NoProgram} \subseteq Programs
  /\ \A v \in {Missing, Mistyped} :
       /\ v \notin Names /\ v \notin Keys /\ v \notin Programs /\ v \notin Url
       /\ v \notin Port /\ v \notin BOOLEAN /\ v \notin Seq(ProfileMember)
  /\ NoFile \notin Document /\ Torn \notin Document /\ NoFile # Torn

\* CHECK_JSON_PTR for the members that must be there, CHECK_JSON_TYPE under an
\* `if' for those that may be left out.
Required(member) == member \notin {Missing, Mistyped}
Optional(member) == member # Mistyped
OrElse(member, default) == IF member = Missing THEN default ELSE member

-------------------------------------------------------------------------------
\* config::load: the members in the order they are read.  Each test returns
\* FAILURE, and what was read before it stays in the object.

ReadsBrowser(doc) == Optional(doc.browser)
ReadsEditor(doc)  == ReadsBrowser(doc) /\ Optional(doc.editor)
ReadsName(doc)    == ReadsEditor(doc) /\ Required(doc.profile_name)
ReadsArray(doc)   == ReadsName(doc) /\ Required(doc.profiles)

ReadsProfile(member) ==
  /\ \A f \in {"name", "url", "key", "port"} : Required(member[f])
  /\ \A f \in {"use_ssl", "verify_ssl"} : Optional(member[f])

ProfileOf(member) ==
  [member EXCEPT !.use_ssl = OrElse(member.use_ssl, FALSE),
                 !.verify_ssl = OrElse(member.verify_ssl, FALSE)]

\* How many elements are pushed before the first one that does not read.
ReadableCount(members) ==
  LET readable == {n \in 0 .. Len(members) :
                     \A i \in 1 .. n : ReadsProfile(members[i])}
  IN  CHOOSE n \in readable : \A m \in readable : m <= n

ProfilesIn(doc) ==
  IF ReadsArray(doc)
  THEN [i \in 1 .. ReadableCount(doc.profiles) |-> ProfileOf(doc.profiles[i])]
  ELSE <<>>

ReadsAll(doc) ==
  ReadsArray(doc) /\ ReadableCount(doc.profiles) = Len(doc.profiles)

\* Mutant: `current' is the first profile of the active name.
ReadIntoFirst(cfg, doc) ==
  LET profiles == cfg.profiles \o ProfilesIn(doc)
      named    == {i \in DOMAIN profiles : profiles[i].name = doc.profile_name}
  IN  IF ReadsAll(doc)
      THEN [browser |-> OrElse(doc.browser, cfg.browser),
            editor |-> OrElse(doc.editor, cfg.editor),
            profile_name |-> doc.profile_name, profiles |-> profiles,
            current |-> IF named = {} THEN cfg.current
                        ELSE CHOOSE i \in named : \A j \in named : i <= j]
      ELSE [cfg EXCEPT !.profiles = profiles]

\* The object after the members of `doc' were read into `cfg'.  The profiles
\* go after the ones that were there, and `current' becomes the LAST profile of
\* the vector as soon as any profile has the active name.
ReadInto(cfg, doc) ==
  LET name     == IF ReadsName(doc) THEN doc.profile_name ELSE cfg.profile_name
      profiles == cfg.profiles \o ProfilesIn(doc)
      found    == /\ ReadsAll(doc)
                  /\ \E i \in DOMAIN profiles : profiles[i].name = name
  IN  [browser |-> IF ReadsBrowser(doc) THEN OrElse(doc.browser, cfg.browser)
                                        ELSE cfg.browser,
       editor |-> IF ReadsEditor(doc) THEN OrElse(doc.editor, cfg.editor)
                                      ELSE cfg.editor,
       profile_name |-> name,
       profiles |-> profiles,
       current |-> IF found THEN Len(profiles) ELSE cfg.current]

Load(cfg, file) ==
  CASE file = NoFile -> [ret |-> "INVALID_CONFIG", cfg |-> cfg]
    [] file = Torn   -> [ret |-> "FAILURE", cfg |-> cfg]
    [] OTHER ->
         LET read == ReadInto(cfg, file)
         IN  [ret |-> IF ReadsAll(file) /\ read.current # 0
                      THEN "SUCCESS" ELSE "FAILURE",
              cfg |-> read]

\* Mutants: save leaves out a member.
SavedWithoutEditor(cfg) ==
  [browser |-> cfg.browser, editor |-> Missing, profile_name |-> cfg.profile_name,
   profiles |-> cfg.profiles]
SavedWithoutBrowser(cfg) ==
  [browser |-> Missing, editor |-> cfg.editor, profile_name |-> cfg.profile_name,
   profiles |-> cfg.profiles]

\* config::save: the document written for an object.
Saved(cfg) == [browser |-> cfg.browser, editor |-> cfg.editor,
               profile_name |-> cfg.profile_name, profiles |-> cfg.profiles]

\* What a program that starts on this file finds.
Loads(file) == Load(NewConfig, file).ret = "SUCCESS"
ActiveProfile(cfg) == cfg.profiles[cfg.current]
===============================================================================
