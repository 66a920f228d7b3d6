-------------------------------- MODULE Settings --------------------------------
(***************************************************************************)
(* The configuration file and the Settings pane over it (internal/config,  *)
(* internal/tui/settings).  The pane edits the running instance's copy and *)
(* writes back the keys that changed since the last write that succeeded,  *)
(* into whatever the file has become; a person edits the same file by      *)
(* hand, at any moment, the one between Save's read and its rename         *)
(* included.                                                               *)
(*   One key stands for each kind of setting: a selector, a bounded number,*)
(* a list of repositories, and the launch filter, a mapping of axes.  What *)
(* a node of the file holds is a set: of one member for a scalar, else of  *)
(* the entries or axes.                                                    *)
(***************************************************************************)
EXTENDS Naturals, FiniteSets

CONSTANTS
  Files,     \* what config.yml may be found as, or be made by hand
  Flags,     \* the launch flag over the selector: {}, or {its value}
  Ceiling    \* the number's upper bound

Setting == {"selector", "number", "repos", "filter"}
Selections == {"standard", "vim"}      \* what a selector cycles through
Default == [selector |-> {"standard"}, number |-> {1}, repos |-> {}, filter |-> {}]
Axes == {"branch"}                  \* the axes that parse; "misfiled" is a Conclusion
                                    \* under status, any other is not known here
Absent == [is |-> "absent", v |-> {}]
Node(v) == [is |-> "value", v |-> v]

ASSUME SettingsAssumption ==
  /\ Flags \subseteq Selections /\ Cardinality(Flags) <= 1 /\ Ceiling \in Nat \ {0}
  /\ \A f \in Files : DOMAIN f.node = Setting
  /\ \A f \in Files :
       \/ f.kind \in {"missing", "unreadable", "broken"} /\ \A k \in Setting : f.node[k] = Absent
       \/ f.kind = "mapping" /\ \A k \in Setting : f.node[k].is # "value" => f.node[k].v = {}

VARIABLES
  disk,     \* config.yml: its kind and, of a mapping, its nodes
  prefs,    \* the pane's Model
  saving,   \* what Save is about to rename into place, none or one
  stored,   \* history: the settings written since the launch
  byHand    \* history: the settings written by hand since they were last read

settingsVars == <<disk, prefs, saving, stored, byHand>>

-----------------------------------------------------------------------------
\* resolveFile: each key from its own node.  One of the wrong type, or naming
\* nothing there is, is the default; a number is clamped; of a list and of a
\* filter the entries that parse are kept.
WithinCeiling(n) == IF n > Ceiling THEN Ceiling ELSE n
ResolveKey(file, k) ==
  LET n == file.node[k]
  IN  IF file.kind # "mapping" \/ n.is # "value" THEN Default[k]
      ELSE CASE k = "selector" -> (IF n.v \subseteq Selections THEN n.v ELSE Default[k])
             [] k = "number" -> {WithinCeiling(i) : i \in n.v}
             [] k = "repos" -> n.v \ {"malformed"}
             [] k = "filter" -> n.v \cap Axes

\* Load: the flag is above the file, and is not of it.
Load(file) ==
  [k \in Setting |-> IF k = "selector" /\ Flags # {} THEN Flags ELSE ResolveKey(file, k)]

Launched(file) ==
  [cfg |-> Load(file), initial |-> Load(file), open |-> FALSE, row |-> "selector",
   editing |-> FALSE, saveErr |-> FALSE]

SettingsInit ==
  /\ disk \in Files /\ prefs = Launched(disk)
  /\ saving = {} /\ stored = {} /\ byHand = {}

SettingsTypeOK ==
  /\ disk.kind \in {"missing", "unreadable", "broken", "mapping"} /\ DOMAIN disk.node = Setting
  /\ prefs.cfg.selector \subseteq Selections /\ prefs.cfg.filter \subseteq Axes
  /\ \A n \in prefs.cfg.number : ~(n > Ceiling)
  /\ prefs.row \in Setting /\ Cardinality(saving) <= 1
  /\ stored \cup byHand \subseteq Setting

\* changedKeys and applyChanges: the settings that differ from the baseline and
\* no other node, and of the filter's mapping the axes this version knows.
Changed(p) == {k \in Setting : p.cfg[k] # p.initial[k]}
Edited(n, k, v) ==
  Node(IF k = "filter" /\ n.is = "value" THEN (n.v \ (Axes \cup {"misfiled"})) \cup v ELSE v)
ApplyChanges(file, p) ==
  [kind |-> "mapping",
   node |-> [k \in Setting |-> IF k \in Changed(p) THEN Edited(file.node[k], k, p.cfg[k])
                               ELSE file.node[k]]]

\* persist and Save: nothing changed is nothing to write, and a file that is no
\* mapping is not written over.
Persist(p) ==
  CASE Changed(p) = {} ->
         prefs' = [p EXCEPT !.saveErr = FALSE] /\ UNCHANGED <<saving, byHand>>
    [] Changed(p) # {} /\ disk.kind \in {"unreadable", "broken"} ->
         prefs' = [p EXCEPT !.saveErr = TRUE] /\ UNCHANGED <<saving, byHand>>
    [] OTHER -> /\ prefs' = p
                /\ saving' = {[file |-> ApplyChanges(disk, p), keys |-> Changed(p),
                               past |-> byHand \ Changed(p), raced |-> FALSE]}
                /\ UNCHANGED byHand

\* writeFileAtomic's rename, or an error before it; the baseline is what is known
\* to be on disk.
AdvanceAnyway(p) == p.cfg      \* mutant
Baseline(p) == p.initial
SaveEnds ==
  /\ \E s \in saving :
       \/ /\ disk' = s.file /\ stored' = stored \cup s.keys /\ byHand' = s.past
          /\ prefs' = [prefs EXCEPT !.initial = prefs.cfg, !.saveErr = FALSE]
       \/ /\ prefs' = [prefs EXCEPT !.initial = Baseline(prefs), !.saveErr = TRUE]
          /\ UNCHANGED <<disk, stored, byHand>>
  /\ saving' = {}

-----------------------------------------------------------------------------
\* The keys: open and close, move, cycle a selector, begin, cancel and commit an
\* edit, whose list keeps the entries that parse and whose filter is adopted
\* whole or not at all.
Typed(k) == CASE k = "number" -> {{WithinCeiling(n)} : n \in 0..(Ceiling + 1)}
              [] k = "repos" -> SUBSET {"a"}
              [] k = "filter" -> SUBSET Axes
              [] OTHER -> {}
NextChoice(v) == CHOOSE c \in SUBSET Selections : Cardinality(c) = 1 /\ c # v

CycleKey ==
  /\ prefs.row = "selector"
  /\ Persist([prefs EXCEPT !.cfg.selector = NextChoice(@)])
CommitKey ==
  \/ prefs' = [prefs EXCEPT !.editing = FALSE] /\ UNCHANGED <<saving, byHand>>
  \/ \E v \in Typed(prefs.row) : Persist([prefs EXCEPT !.cfg[prefs.row] = v, !.editing = FALSE])
SettingsPaneKey ==
  IF prefs.editing THEN CommitKey
  ELSE \/ CycleKey
       \/ /\ \/ \E k \in Setting \ {prefs.row} : prefs' = [prefs EXCEPT !.row = k]
             \/ prefs.row # "selector" /\ prefs' = [prefs EXCEPT !.editing = TRUE]
             \/ prefs' = [prefs EXCEPT !.open = FALSE]
          /\ UNCHANGED <<saving, byHand>>
OpenSettings == prefs' = [prefs EXCEPT !.open = TRUE, !.row = "selector", !.saveErr = FALSE]

\* By hand: the file is written over, or taken away.
HandEdit ==
  /\ disk' \in Files \ {disk}
  /\ byHand' = byHand \cup {k \in Setting : disk'.node[k] # disk.node[k] \/ disk'.kind # disk.kind}
  /\ saving' = {[file |-> s.file, keys |-> s.keys, past |-> s.past, raced |-> TRUE] : s \in saving}
  /\ UNCHANGED <<prefs, stored>>
\* The process is killed, or quits, and is launched again.
Relaunch ==
  /\ prefs' = Launched(disk) /\ saving' = {} /\ stored' = {} /\ byHand' = {}
  /\ UNCHANGED disk

-----------------------------------------------------------------------------
\* What is in the file is what the pane takes it for: a setting nobody wrote by
\* hand since is read back as the baseline has it, however many writes failed in
\* between; and a write leaves every node alone whose setting was not changed in
\* the pane, a launch flag and a rejected value among them, and every axis it
\* does not know (settings R4, R17).
SettingsReachDisk ==
  /\ \A k \in Setting \ byHand :
       k # "selector" \/ Flags = {} \/ k \in stored => ResolveKey(disk, k) = prefs.initial[k]
  /\ \A s \in saving : ~s.raced =>
       /\ \A k \in Setting : s.file.node[k] # disk.node[k] => prefs.cfg[k] # prefs.initial[k]
       /\ disk.node.filter.v \ (Axes \cup {"misfiled"}) \subseteq s.file.node.filter.v
=============================================================================
