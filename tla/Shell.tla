--------------------------------- MODULE Shell ---------------------------------
(***************************************************************************)
(* The root model (internal/tui/tui.go): which surface a key goes to, the  *)
(* Settings pane it owns, and what it tells its tabs of the focus and of   *)
(* the keybinding profile.  A tab is whether it captures its keys and      *)
(* whether it believes it has the focus; what it does with a key is in the *)
(* module of that tab.  The strip's chords are in module Launch.           *)
(***************************************************************************)
EXTENDS Settings

Tab == {"feed", "workflows", "storage"}
Surface == Tab \cup {"root", "strip"}
TabAt(i) == IF i = 0 THEN "feed" ELSE IF i = 1 THEN "workflows" ELSE "storage"

VARIABLES
  active,    \* the index of the focused tab
  told,      \* each tab: SetActive's last word to it, and CapturesInput
  profile,   \* the keybinding profile each surface answers
  leaving,   \* NavigateToRuns, sent by the Workflows tab and not received yet
  quit

shellVars == <<settingsVars, active, told, profile, leaving, quit>>

FreshShell(p) ==
  /\ active' = 0 /\ leaving' = FALSE /\ quit' = FALSE
  /\ told' = [t \in Tab |-> [active |-> t = "feed", captures |-> FALSE]]
  /\ profile' = [s \in Surface |-> p.cfg.selector]

ShellInit ==
  /\ SettingsInit
  /\ active = 0 /\ leaving = FALSE /\ quit = FALSE
  /\ told = [t \in Tab |-> [active |-> t = "feed", captures |-> FALSE]]
  /\ profile = [s \in Surface |-> prefs.cfg.selector]

ShellTypeOK ==
  /\ SettingsTypeOK
  /\ active \in 0..2 /\ leaving \in BOOLEAN /\ quit \in BOOLEAN
  /\ \A s \in Surface : profile[s] \subseteq Selections

\* applyProfile: what the pane holds goes to the root, the strip and every tab.
Profiled(p) == [s \in Surface |-> p.cfg.selector]

\* switchTab: the tab that loses the focus is told, and the one that gains it.
SwitchTab(i) ==
  /\ active' = i
  /\ told' = [t \in Tab |->
       [active |-> IF t = TabAt(i) THEN TRUE ELSE IF t = TabAt(active) THEN FALSE ELSE told[t].active,
        captures |-> told[t].captures]]

\* handleKey, in its order: the interrupt; the open Settings pane, which has
\* every other key; the tab that captures; the global keys; the tab.
Interrupt == quit' = TRUE /\ UNCHANGED <<settingsVars, active, told, profile, leaving>>
SettingsKey ==
  /\ prefs.open
  /\ SettingsPaneKey /\ profile' = Profiled(prefs')
  /\ UNCHANGED <<disk, stored, active, told, leaving, quit>>
GlobalKey ==
  /\ ~prefs.open /\ ~told[TabAt(active)].captures
  /\ \/ \E i \in (0..2) \ {active} : SwitchTab(i) /\ UNCHANGED <<settingsVars, profile, leaving, quit>>
     \/ OpenSettings /\ UNCHANGED <<disk, saving, stored, byHand, active, told, profile, leaving, quit>>
TabKey ==
  /\ ~prefs.open
  /\ \/ told' = [told EXCEPT ![TabAt(active)].captures = ~@] /\ UNCHANGED leaving
     \/ active = 1 /\ ~told["workflows"].captures /\ leaving' = TRUE /\ UNCHANGED told
  /\ UNCHANGED <<settingsVars, active, profile, quit>>
ShellKey ==
  ~quit /\ saving = {} /\ (Interrupt \/ SettingsKey \/ GlobalKey \/ TabKey)

\* showRuns, whenever the message is received: over an open pane, or a tab that
\* began to capture meanwhile, as well.  And Save, on the update loop.
ShowRuns ==
  /\ leaving /\ saving = {} /\ leaving' = FALSE
  /\ IF active = 0 THEN UNCHANGED <<active, told>> ELSE SwitchTab(0)
  /\ UNCHANGED <<settingsVars, profile, quit>>
ShellLand ==
  ~quit /\ (ShowRuns \/ (SaveEnds /\ UNCHANGED <<active, told, profile, leaving, quit>>))

ShellWorld ==
  \/ HandEdit /\ UNCHANGED <<active, told, profile, leaving, quit>>
  \/ Relaunch /\ FreshShell(prefs')

\* Whatever the order of keys and messages, one tab has the focus and every
\* surface answers the profile of the Settings pane (settings R5, R17): none is
\* left with the launch profile, or believing it is focused still.
OneFocusOneProfile ==
  /\ \A t \in Tab : told[t].active <=> t = TabAt(active)
  /\ \A s \in Surface : profile[s] = prefs.cfg.selector

\* The two together: what the pane shows is on disk and in force everywhere.
SettingsTakeEffect == SettingsReachDisk /\ OneFocusOneProfile
=============================================================================
