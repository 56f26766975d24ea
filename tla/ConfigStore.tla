----------------------------- MODULE ConfigStore ------------------------------
(***************************************************************************)
(* What the configuration file promises to somebody who runs one command   *)
(* at a time: a store of settings in which a command replaces one setting  *)
(* by the value it was given, in one step, and in which the setup replaces *)
(* everything when there is nothing to work with.  If the store is not     *)
(* durable, a command that is cut off may lose everything at once, but     *)
(* never leaves a mixture of old and new settings.                         *)
(***************************************************************************)
CONSTANTS
  ProfileSettings,  \* the settings that each profile has
  Values,           \* for each setting, the values it may be given
  Setups,           \* the complete settings that the setup is given
  InitSettings,     \* what the store may hold at first
  Durable,          \* a command is never cut off
  Unset             \* nothing that can be read

VARIABLE settings   \* Unset or [browser, editor, profile, profiles]: profiles
                    \* maps the names of the profiles to their settings, and
                    \* profile is the name of the active one.

Usable == settings # Unset /\ settings.profile \in DOMAIN settings.profiles

Init == settings \in InitSettings

Put(setting, value) ==
  /\ Usable
  /\ \/ /\ setting \in ProfileSettings
        /\ settings' = [settings EXCEPT !.profiles[settings.profile][setting] = value]
     \/ /\ setting \notin ProfileSettings
        /\ settings' = [settings EXCEPT ![setting] = value]

Setup == ~Usable /\ settings' \in Setups

Lose == ~Durable /\ settings' = Unset

Next ==
  \/ \E setting \in DOMAIN Values : \E value \in Values[setting] : Put(setting, value)
  \/ Setup
  \/ Lose

Spec == Init /\ [][Next]_settings
===============================================================================
