--------------------------- MODULE ConfigFile_proofs ---------------------------
(***************************************************************************)
(* Lemmas about load and save: what config::load makes of a text is a      *)
(* config whose `current' is one of its profiles, and a saved config that  *)
(* has its active profile loads.                                           *)
(***************************************************************************)
EXTENDS ConfigFile, SequenceTheorems, WellFoundedInduction, TLAPS

-------------------------------------------------------------------------------
\* Every nonempty set of numbers up to a bound has a greatest element: the
\* CHOOSEs of ReadableCount and LastNamed have something to choose.
LEMMA MaximumExists ==
  ASSUME NEW n \in Nat, NEW S \in SUBSET (0 .. n), S # {}
  PROVE  \E i \in S : \A j \in S : j <= i
<1> DEFINE T == {n - i : i \in S}
<1>1. T \subseteq Nat /\ T # {}
  <2>1. \A i \in S : i \in Nat /\ n - i \in Nat
    OBVIOUS
  <2>2. PICK i \in S : TRUE
    OBVIOUS
  <2>3. n - i \in T
    OBVIOUS
  <2> QED
    BY <2>1, <2>3
<1>2. PICK x \in T : \A y \in T : ~ (<<y, x>> \in OpToRel(<, Nat))
  BY <1>1, NatLessThanWellFounded, WFMin, Zenon
<1>3. \A y \in T : ~ (y < x)
  BY <1>1, <1>2 DEF OpToRel
<1>4. PICK i \in S : x = n - i
  OBVIOUS
<1>5. \A j \in S : j <= i
  BY <1>3, <1>4
<1> QED
  BY <1>5

\* A config is well formed when its pointer is null or within its vector; the
\* typing lemmas say that load and save keep to it.
LEMMA ReadableCountBounds ==
  ASSUME NEW members, Len(members) \in Nat
  PROVE  /\ ReadableCount(members) \in 0 .. Len(members)
         /\ \A i \in 1 .. ReadableCount(members) : ReadsProfile(members[i])
         /\ (\A i \in 1 .. Len(members) : ReadsProfile(members[i]))
              => ReadableCount(members) = Len(members)
<1> DEFINE readable == {n \in 0 .. Len(members) :
                          \A i \in 1 .. n : ReadsProfile(members[i])}
<1>1. 0 \in readable
  OBVIOUS
<1>2. \E n \in readable : \A m \in readable : m <= n
  <2>1. readable \in SUBSET (0 .. Len(members)) /\ readable # {}
    BY <1>1
  <2> HIDE DEF readable
  <2> QED
    BY <2>1, MaximumExists
<1>3. /\ ReadableCount(members) \in readable
      /\ \A m \in readable : m <= ReadableCount(members)
  BY <1>2, Zenon DEF ReadableCount
<1>4. ASSUME \A i \in 1 .. Len(members) : ReadsProfile(members[i])
      PROVE  ReadableCount(members) = Len(members)
  <2>1. Len(members) \in readable
    BY <1>4
  <2> QED
    BY <1>3, <2>1
<1> QED
  BY <1>3, <1>4

LEMMA ProfileOfType ==
  ASSUME NEW member \in ProfileMember, ReadsProfile(member)
  PROVE  ProfileOf(member) \in Profile
BY DEF ProfileMember, ReadsProfile, Required, Optional, Member, ProfileOf, OrElse,
       Profile

LEMMA ProfilesInType ==
  ASSUME NEW doc \in Document
  PROVE  ProfilesIn(doc) \in Seq(Profile)
<1>1. CASE ~ReadsArray(doc)
  BY <1>1 DEF ProfilesIn
<1>2. CASE ReadsArray(doc)
  <2>1. doc.profiles \in Seq(ProfileMember)
    BY <1>2 DEF ReadsArray, Required, Document, Member
  <2>2. /\ ReadableCount(doc.profiles) \in 0 .. Len(doc.profiles)
        /\ \A i \in 1 .. ReadableCount(doc.profiles) : ReadsProfile(doc.profiles[i])
    BY <2>1, ReadableCountBounds
  <2>3. \A i \in 1 .. ReadableCount(doc.profiles) : doc.profiles[i] \in ProfileMember
    BY <2>1, <2>2
  <2>4. \A i \in 1 .. ReadableCount(doc.profiles) : ProfileOf(doc.profiles[i]) \in Profile
    BY <2>2, <2>3, ProfileOfType
  <2> QED
    BY <1>2, <2>2, <2>4 DEF ProfilesIn
<1> QED
  BY <1>1, <1>2

LEMMA NewConfigType == WellFormed(NewConfig)
BY ConfigFileAssumption DEF NewConfig, WellFormed, Config

\* config::load keeps the object well formed, and when it returns SUCCESS the
\* pointer is not null.
LEMMA LoadType ==
  ASSUME NEW c, WellFormed(c), NEW text \in File
  PROVE  /\ WellFormed(Load(c, text).cfg)
         /\ Load(c, text).ret \in Result
         /\ Load(c, text).ret = "SUCCESS" =>
              /\ text \in Document /\ text \notin {NoFile, Torn}
              /\ ReadsAll(text)
              /\ Load(c, text).cfg.current # 0
<1>1. CASE text \in {NoFile, Torn}
  BY <1>1, ConfigFileAssumption DEF Load, Result
<1>2. CASE text \notin {NoFile, Torn}
  <2> DEFINE read == ReadInto(c, text)
  <2>1. text \in Document
    BY <1>2 DEF File
  <2>2. ProfilesIn(text) \in Seq(Profile)
    BY <2>1, ProfilesInType
  <2>3. c.profiles \in Seq(Profile) /\ c.current \in 0 .. Len(c.profiles)
    BY DEF WellFormed, Config
  <2>4. /\ c.profiles \o ProfilesIn(text) \in Seq(Profile)
        /\ Len(c.profiles \o ProfilesIn(text)) = Len(c.profiles) + Len(ProfilesIn(text))
        /\ Len(c.profiles) \in Nat /\ Len(ProfilesIn(text)) \in Nat
    BY <2>2, <2>3
  <2>5. read.browser \in Programs /\ read.editor \in Programs
    BY <2>1 DEF ReadInto, Document, Member, ReadsBrowser, ReadsEditor, Optional, OrElse,
                WellFormed, Config
  <2>6. read.profile_name \in Names
    BY <2>1 DEF ReadInto, Document, Member, ReadsName, Required, WellFormed, Config
  <2>7. read.profiles \in Seq(Profile) /\ read.current \in 0 .. Len(read.profiles)
    BY <2>3, <2>4 DEF ReadInto
  <2>8. WellFormed(read)
    <3>1. read = [browser |-> read.browser, editor |-> read.editor,
                  profile_name |-> read.profile_name, profiles |-> read.profiles,
                  current |-> read.current]
      BY DEF ReadInto
    <3>2. read.current \in Nat
      BY <2>4, <2>7 DEF ReadInto
    <3> HIDE DEF read
    <3> QED
      BY <2>5, <2>6, <2>7, <3>1, <3>2 DEF WellFormed, Config
  <2>9. Load(c, text) = [ret |-> IF ReadsAll(text) /\ read.current # 0
                                 THEN "SUCCESS" ELSE "FAILURE",
                         cfg |-> read]
    BY <1>2 DEF Load
  <2> HIDE DEF read
  <2> QED
    BY <1>2, <2>1, <2>8, <2>9 DEF Result
<1> QED
  BY <1>1, <1>2

\* What is saved is a document in which every member is there and well typed.
LEMMA SavedType ==
  ASSUME NEW c, WellFormed(c)
  PROVE  /\ Saved(c) \in Document
         /\ Saved(c) \notin {NoFile, Torn}
         /\ ReadsAll(Saved(c))
         /\ ProfilesIn(Saved(c)) = c.profiles
<1>1. c.profiles \in Seq(Profile)
  BY DEF WellFormed, Config
<1>2. \A i \in 1 .. Len(c.profiles) :
        /\ c.profiles[i] \in Profile
        /\ c.profiles[i] \in ProfileMember
        /\ ReadsProfile(c.profiles[i])
        /\ ProfileOf(c.profiles[i]) = c.profiles[i]
  <2> SUFFICES ASSUME NEW profile \in Profile
               PROVE  /\ profile \in ProfileMember
                      /\ ReadsProfile(profile)
                      /\ ProfileOf(profile) = profile
    BY <1>1
  <2>1. profile \in ProfileMember
    BY DEF Profile, ProfileMember, Member
  <2>2. ReadsProfile(profile)
    <3>1. /\ profile.name \in Names /\ profile.url \in Url /\ profile.key \in Keys
          /\ profile.port \in Port /\ profile.use_ssl \in BOOLEAN
          /\ profile.verify_ssl \in BOOLEAN
      BY DEF Profile
    <3> QED
      BY <3>1, ConfigFileAssumption DEF ReadsProfile, Required, Optional
  <2>3. ProfileOf(profile) = profile
    <3>1. profile.use_ssl # Missing /\ profile.verify_ssl # Missing
      <4>1. profile.use_ssl \in BOOLEAN /\ profile.verify_ssl \in BOOLEAN
        BY DEF Profile
      <4> QED
        BY <4>1, ConfigFileAssumption
    <3> QED
      BY <3>1 DEF ProfileOf, OrElse, Profile
  <2> QED
    BY <2>1, <2>2, <2>3
<1>3. c.profiles \in Seq(ProfileMember)
  BY <1>1, <1>2
<1>4. Saved(c) \in Document
  BY <1>3 DEF Saved, Document, Member, WellFormed, Config
<1>5. ReadsArray(Saved(c))
  <2>1. c.browser \in Programs /\ c.editor \in Programs /\ c.profile_name \in Names
    BY DEF WellFormed, Config
  <2> QED
    BY <2>1, <1>3, ConfigFileAssumption
    DEF ReadsArray, ReadsName, ReadsEditor, ReadsBrowser, Required, Optional, Saved
<1>6. ReadableCount(c.profiles) = Len(c.profiles)
  BY <1>1, <1>2, ReadableCountBounds
<1>7. ProfilesIn(Saved(c)) = c.profiles
  <2>1. ProfilesIn(Saved(c)) = [i \in 1 .. Len(c.profiles) |-> ProfileOf(c.profiles[i])]
    BY <1>5, <1>6 DEF ProfilesIn, Saved
  <2>2. ProfilesIn(Saved(c)) = [i \in 1 .. Len(c.profiles) |-> c.profiles[i]]
    BY <2>1, <1>2, Zenon
  <2> QED
    BY <2>2, <1>1
<1> QED
  BY <1>4, <1>5, <1>6, <1>7, ConfigFileAssumption DEF ReadsAll, Saved

\* What a program that starts now finds of a saved object: everything, with
\* `current' at the last profile if some profile has the active name.
LEMMA SavedSettings ==
  ASSUME NEW c, WellFormed(c)
  PROVE  LET found == \E i \in DOMAIN c.profiles : c.profiles[i].name = c.profile_name
         IN  /\ Load(NewConfig, Saved(c)).cfg =
                  [c EXCEPT !.current = IF found THEN Len(c.profiles) ELSE 0]
             /\ Loads(Saved(c)) <=> found
<1> DEFINE read == ReadInto(NewConfig, Saved(c))
           found == \E i \in DOMAIN c.profiles : c.profiles[i].name = c.profile_name
<1>1. /\ Saved(c) \notin {NoFile, Torn}
      /\ ReadsAll(Saved(c))
      /\ ProfilesIn(Saved(c)) = c.profiles
  BY SavedType
<1>2. c.profiles \in Seq(Profile) /\ DOMAIN c.profiles = 1 .. Len(c.profiles)
  BY DEF WellFormed, Config
<1>3. NewConfig.profiles \o ProfilesIn(Saved(c)) = c.profiles
  BY <1>1, <1>2, EmptySeq, ConcatEmptySeq DEF NewConfig
<1>4. c.browser # Missing /\ c.editor # Missing
  BY ConfigFileAssumption DEF WellFormed, Config
<1>5. read = [browser |-> c.browser, editor |-> c.editor,
              profile_name |-> c.profile_name, profiles |-> c.profiles,
              current |-> IF found THEN Len(c.profiles) ELSE 0]
  BY <1>1, <1>3, <1>4
  DEF ReadInto, ReadsAll, ReadsArray, ReadsName, ReadsEditor, ReadsBrowser, OrElse,
      Saved, NewConfig
<1>6. found => Len(c.profiles) # 0 /\ Len(c.profiles) \in Nat
  BY <1>2
<1>7. Load(NewConfig, Saved(c)) = [ret |-> IF found THEN "SUCCESS" ELSE "FAILURE",
                                   cfg |-> read]
  <2>1. Load(NewConfig, Saved(c)) = [ret |-> IF ReadsAll(Saved(c)) /\ read.current # 0
                                             THEN "SUCCESS" ELSE "FAILURE",
                                     cfg |-> read]
    BY <1>1 DEF Load
  <2>2. read.current # 0 <=> found
    BY <1>5, <1>6
  <2> HIDE DEF read, found
  <2> QED
    BY <1>1, <2>1, <2>2
<1>8. read = [c EXCEPT !.current = IF found THEN Len(c.profiles) ELSE 0]
  BY <1>5 DEF WellFormed, Config
<1> HIDE DEF read, found
<1>9. Loads(Saved(c)) <=> found
  BY <1>7 DEF Loads
<1>10. Load(NewConfig, Saved(c)).cfg =
         [c EXCEPT !.current = IF found THEN Len(c.profiles) ELSE 0]
  BY <1>7, <1>8
<1> QED
  BY <1>9, <1>10 DEF found

\* The round trip: a saved object in which some profile has the active name
\* loads again, as it was, with `current' at its last profile.
THEOREM SavedConfigLoads ==
  ASSUME NEW c, WellFormed(c),
         \E i \in DOMAIN c.profiles : c.profiles[i].name = c.profile_name
  PROVE  /\ Loads(Saved(c))
         /\ Load(NewConfig, Saved(c)).cfg = [c EXCEPT !.current = Len(c.profiles)]
BY SavedSettings

\* What a text that loads is read into: the active name is that of a profile,
\* and `current' the last profile.
LEMMA LoadedSettings ==
  ASSUME NEW text \in File, Loads(text)
  PROVE  LET c == Load(NewConfig, text).cfg
         IN  /\ WellFormed(c)
             /\ c.current = Len(c.profiles) /\ c.current # 0
             /\ \E i \in DOMAIN c.profiles : c.profiles[i].name = c.profile_name
<1> DEFINE c == Load(NewConfig, text).cfg
<1>1. /\ WellFormed(c) /\ c.current # 0 /\ text \notin {NoFile, Torn}
      /\ ReadsAll(text)
  BY LoadType, NewConfigType DEF Loads
<1>2. c = ReadInto(NewConfig, text)
  BY <1>1 DEF Load
<1>3. \/ /\ c.current = Len(c.profiles)
         /\ \E i \in DOMAIN c.profiles : c.profiles[i].name = c.profile_name
      \/ c.current = NewConfig.current
  BY <1>1, <1>2 DEF ReadInto, ReadsAll, ReadsArray
<1> HIDE DEF c
<1>4. NewConfig.current = 0
  BY DEF NewConfig
<1>5. /\ c.current = Len(c.profiles)
      /\ \E i \in DOMAIN c.profiles : c.profiles[i].name = c.profile_name
  BY <1>1, <1>3, <1>4
<1> QED
  BY <1>1, <1>5 DEF c

\* A concatenation ends with its second part.
LEMMA ConcatTail ==
  ASSUME NEW a \in Seq(Profile), NEW b \in Seq(Profile), DOMAIN b # {}
  PROVE  /\ Len(a \o b) \in DOMAIN (a \o b)
         /\ (a \o b)[Len(a \o b)] = b[Len(b)]
         /\ \A i \in DOMAIN b : \E j \in DOMAIN (a \o b) : (a \o b)[j] = b[i]
<1>1. PICK m \in Nat, n \in Nat : m = Len(a) /\ n = Len(b)
  OBVIOUS
<1>2. /\ a \o b \in Seq(Profile) /\ Len(a \o b) = m + n
      /\ \A i \in 1 .. m + n : (a \o b)[i] = IF i <= m THEN a[i] ELSE b[i - m]
  BY <1>1, ConcatProperties
<1>3. DOMAIN (a \o b) = 1 .. m + n /\ DOMAIN b = 1 .. n
  BY <1>1, <1>2
<1>4. ASSUME NEW i \in 1 .. n PROVE m + i \in 1 .. m + n /\ (a \o b)[m + i] = b[i]
  <2>1. m + i \in 1 .. m + n /\ ~(m + i <= m) /\ m + i - m = i
    OBVIOUS
  <2> HIDE <1>4
  <2> QED
    BY <1>2, <2>1
<1>5. n \in 1 .. n
  BY <1>3
<1> QED
  BY <1>1, <1>2, <1>3, <1>4, <1>5

\* A second load, into an object that a first one left, ends at the last
\* profile of what was saved in between.
LEMMA SavedAfterRest ==
  ASSUME NEW s, WellFormed(s), NEW c, WellFormed(c),
         \E i \in DOMAIN c.profiles : c.profiles[i].name = c.profile_name
  PROVE  ActiveProfile(Load(s, Saved(c)).cfg) = c.profiles[Len(c.profiles)]
<1> DEFINE read == ReadInto(s, Saved(c))
           all == s.profiles \o c.profiles
<1>1. /\ Saved(c) \notin {NoFile, Torn}
      /\ ReadsAll(Saved(c))
      /\ ProfilesIn(Saved(c)) = c.profiles
  BY SavedType
<1>2. /\ c.profiles \in Seq(Profile) /\ s.profiles \in Seq(Profile)
      /\ DOMAIN c.profiles = 1 .. Len(c.profiles)
      /\ Len(c.profiles) \in Nat /\ Len(s.profiles) \in Nat
  BY DEF WellFormed, Config
<1>3. /\ Len(all) \in DOMAIN all
      /\ all[Len(all)] = c.profiles[Len(c.profiles)]
      /\ \A i \in DOMAIN c.profiles :
           \E j \in DOMAIN all : all[j] = c.profiles[i]
  <2>1. DOMAIN c.profiles # {}
    OBVIOUS
  <2> QED
    BY <1>2, <2>1, ConcatTail
<1>4. \E i \in DOMAIN all : all[i].name = c.profile_name
  <2> HIDE DEF all
  <2> QED
    BY <1>3
<1>5. read.profiles = all /\ read.current = Len(all)
  BY <1>1, <1>4 DEF ReadInto, ReadsAll, ReadsArray, Saved
<1>6. Load(s, Saved(c)).cfg = read
  BY <1>1 DEF Load
<1> HIDE DEF read, all
<1> QED
  BY <1>3, <1>5, <1>6 DEF ActiveProfile
===============================================================================
