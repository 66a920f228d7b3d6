------------------------------ MODULE TabsProofs ------------------------------
(***************************************************************************)
(* Proofs about the tabs, in visits of any length: the dispatch form, the  *)
(* Workflows tab, the Settings pane under the root model and the Storage   *)
(* tab, for every set of Workflows, refs and texts, any schema of inputs,  *)
(* any objects to reclaim, any number of equal reads out at once, whatever *)
(* config.yml is found as or made by hand; and about the panes the Feed    *)
(* opens over its list, for every set of Runs and number of Jobs, any logs *)
(* and any folding and searching of them, and answers in any order.        *)
(***************************************************************************)
EXTENDS Tabs, Panes, FiniteSetTheorems, WellFoundedInduction, TLAPS

\* The form is a record, of whatever values.
Shaped ==
  form = [open |-> form.open, wf |-> form.wf, ref |-> form.ref, home |-> form.home,
          refs |-> form.refs, asked |-> form.asked, of |-> form.of,
          loading |-> form.loading, loadErr |-> form.loadErr, value |-> form.value,
          row |-> form.row, editing |-> form.editing, shows |-> form.shows]

\* The guard's records against the POSTs and the Runs: a record in flight is one
\* POST that is out, and a record that is away leaves a Run only where an answer
\* was lost.
Counted(iss, pst, crt, lst) ==
  /\ iss \in [Sending -> {"none", "inflight", "done"}]
  /\ pst \in [Sending -> Nat] /\ crt \in [Sending -> Nat] /\ lst \in [Sending -> Nat]
  /\ \A k \in Sending : pst[k] = IF iss[k] = "inflight" THEN 1 ELSE 0
  /\ \A k \in Sending : crt[k] + pst[k] <= lst[k] + (IF iss[k] = "none" THEN 0 ELSE 1)

Guarded == Counted(issued, posts, created, lost)

\* What the form names as its outcome is of the Workflow it is about.
Owned == \A k \in form.shows : k[1] = form.wf

FormInv == Shaped /\ Guarded /\ Owned

\* What a step may put in the form: inputs only of the ref it is on.
Arrives ==
  form'.of # form.of /\ form'.of # NoForm =>
    /\ form'.of[2] = form'.ref /\ ~form'.loading
    /\ Fits(form'.of, form'.value) \/ form'.value = Schema[form'.of].default

\* A form goes from one shape to the next with its outcomes and its inputs.
KeepsForm == Shaped' /\ Owned' /\ Arrives

-----------------------------------------------------------------------------
\* What is remembered fills a form where it fits, else the default does.
LEMMA InitialValueFits ==
  ASSUME NEW of, NEW remembered
  PROVE  Fits(of, InitialValue(of, remembered))
           \/ InitialValue(of, remembered) = Schema[of].default
<1>1. CASE \E v \in remembered : Fits(of, v)
  <2>1. Fits(of, CHOOSE v \in remembered : Fits(of, v))  BY <1>1
  <2>. HIDE DEF Fits
  <2>. QED BY <1>1, <2>1 DEF InitialValue
<1>2. CASE ~(\E v \in remembered : Fits(of, v))
  BY <1>2, Zenon DEF InitialValue
<1>. QED BY <1>1, <1>2

\* A form that is not open is empty.
LEMMA ClosedIsShaped ==
  DispatchInit => FormInv
<1>. SUFFICES ASSUME DispatchInit  PROVE FormInv  OBVIOUS
<1>1. Shaped /\ Owned  BY DEF DispatchInit, ClosedForm, Shaped, Owned
<1>2. Guarded  BY DEF DispatchInit, Guarded, Counted
<1>. QED BY <1>1, <1>2 DEF FormInv

\* A form that opens has no inputs and no outcomes yet.
LEMMA OpenKeeps ==
  ASSUME NEW w, NEW named, OpenForm(w, named)
  PROVE  KeepsForm /\ UNCHANGED <<issued, posts, created, lost>>
<1>1. form' = [ClosedForm EXCEPT !.open = TRUE, !.wf = w, !.ref = named, !.home = named,
                                 !.loading = TRUE]
      /\ UNCHANGED <<issued, posts, created, lost>>
  BY DEF OpenForm, outside
<1>2. /\ Shaped' /\ form'.shows = {} /\ form'.of = NoForm
  BY <1>1 DEF ClosedForm, Shaped
<1>. QED BY <1>1, <1>2 DEF KeepsForm, Owned, Arrives

\* A key of the form changes neither its inputs' ref nor its outcomes.
LEMMA KeyKeeps ==
  ASSUME FormInv, FormKey
  PROVE  KeepsForm
<1>1. /\ Shaped' /\ form'.of = form.of
      /\ form'.shows = form.shows /\ form'.wf = form.wf
  <2>. USE DEF FormInv, Shaped
  <2>1. CASE CloseForm  BY <2>1 DEF CloseForm
  <2>2. CASE UNCHANGED form  BY <2>2
  <2>3. CASE CycleRef
    BY <2>3 DEF CycleRef
  <2>4. CASE InputKey \/ CycleInput \/ MoveRowCursor
    BY <2>4 DEF InputKey, CycleInput, MoveRowCursor
  <2>. QED BY <2>1, <2>2, <2>3, <2>4 DEF FormKey
<1>. QED BY <1>1 DEF KeepsForm, Arrives, Owned, FormInv

\* The one key that touches the guard sends only what has no record.
LEMMA KeyGuards ==
  ASSUME FormInv, FormKey
  PROVE  Guarded'
<1>1. CASE UNCHANGED <<issued, posts, created, lost>>
  BY <1>1 DEF FormInv, Guarded, Counted
<1>2. CASE SubmitDispatch /\ UNCHANGED <<created, lost>>
  <2>. DEFINE k == DispatchTarget(form)
  <2>1. /\ issued[k] = "none" /\ issued' = [issued EXCEPT ![k] = "inflight"]
        /\ posts' = [posts EXCEPT ![k] = @ + 1] /\ UNCHANGED <<created, lost>>
    BY <1>2 DEF SubmitDispatch
  <2>. HIDE DEF k
  <2>2. /\ issued' = [x \in Sending |-> IF x = k THEN "inflight" ELSE issued[x]]
        /\ posts' = [x \in Sending |-> IF x = k THEN posts[x] + 1 ELSE posts[x]]
    BY <2>1 DEF FormInv, Guarded, Counted
  <2>3. \A x \in Sending : posts[x] \in Nat
    BY DEF FormInv, Guarded, Counted
  <2>4. /\ issued' \in [Sending -> {"none", "inflight", "done"}]
        /\ posts' \in [Sending -> Nat]
    BY <2>2, <2>3 DEF FormInv, Guarded, Counted
  <2>5. ASSUME NEW x \in Sending
        PROVE  /\ posts'[x] = IF issued'[x] = "inflight" THEN 1 ELSE 0
               /\ created[x] + posts'[x] <= lost[x] + (IF issued'[x] = "none" THEN 0 ELSE 1)
    <3>1. CASE x = k
      BY <2>1, <2>2, <3>1 DEF FormInv, Guarded, Counted
    <3>2. CASE x # k
      <4>1. issued'[x] = issued[x] /\ posts'[x] = posts[x]  BY <2>2, <3>2
      <4>. QED BY <4>1 DEF FormInv, Guarded, Counted
    <3>. QED BY <3>1, <3>2
  <2>. QED BY <2>1, <2>4, <2>5 DEF FormInv, Guarded, Counted
<1>. QED BY <1>1, <1>2 DEF FormKey, outside

-----------------------------------------------------------------------------
\* A ref that is resolved for a form brings no inputs with it.
LEMMA RefResolvesKeeps ==
  ASSUME FormInv, NEW w, RefResolves(w)
  PROVE  KeepsForm /\ UNCHANGED <<issued, posts, created, lost>>
<1>1. /\ Shaped' /\ form'.of = form.of
      /\ form'.shows = form.shows /\ form'.wf = form.wf
      /\ UNCHANGED <<issued, posts, created, lost>>
  BY DEF RefResolves, FormInv, Shaped, outside
<1>. QED BY <1>1 DEF KeepsForm, Arrives, Owned, FormInv

\* Nor do the refs its repository has.
LEMMA RefsLandKeeps ==
  ASSUME FormInv, NEW w, RefsLand(w)
  PROVE  KeepsForm /\ UNCHANGED <<issued, posts, created, lost>>
<1>1. /\ Shaped' /\ form'.of = form.of
      /\ form'.shows = form.shows /\ form'.wf = form.wf
      /\ UNCHANGED <<issued, posts, created, lost>>
  BY DEF RefsLand, FormInv, Shaped, outside
<1>. QED BY <1>1 DEF KeepsForm, Arrives, Owned, FormInv

\* A YAML lands in the form that is on its ref, and nowhere else.
LEMMA YAMLLandsKeeps ==
  ASSUME FormInv, NEW w, NEW r, YAMLLands(w, r)
  PROVE  KeepsForm /\ UNCHANGED <<issued, posts, created, lost>>
<1>. DEFINE filled == [form EXCEPT !.loading = FALSE, !.loadErr = FALSE, !.of = <<w, r>>, !.row = 0,
                          !.value = InitialValue(<<w, r>>, doc[form.wf])]
            failed == [form EXCEPT !.loading = FALSE, !.loadErr = TRUE]
<1>1. UNCHANGED <<issued, posts, created, lost>>  BY DEF YAMLLands, outside
<1>2. \/ UNCHANGED form
      \/ form.ref = r /\ form' = failed
      \/ form.ref = r /\ form' = filled
  BY Zenon DEF YAMLLands, ForItsRef
<1>3. CASE UNCHANGED form
  BY <1>1, <1>3 DEF KeepsForm, Arrives, Owned, FormInv, Shaped
<1>4. CASE form' = failed
  <2>1. Shaped' /\ form'.of = form.of /\ form'.shows = form.shows /\ form'.wf = form.wf
    BY <1>4 DEF FormInv, Shaped
  <2>. QED BY <1>1, <2>1 DEF KeepsForm, Arrives, Owned, FormInv
<1>5. CASE form.ref = r /\ form' = filled
  <2>. DEFINE v == InitialValue(<<w, r>>, doc[form.wf])
  <2>1. Fits(<<w, r>>, v) \/ v = Schema[<<w, r>>].default  BY InitialValueFits
  <2>. HIDE DEF v
  <2>2. form' = [form EXCEPT !.loading = FALSE, !.loadErr = FALSE, !.of = <<w, r>>, !.row = 0,
                          !.value = v]
    BY <1>5 DEF v
  <2>3. /\ Shaped' /\ form'.of = <<w, r>> /\ form'.ref = r /\ ~form'.loading
        /\ form'.value = v /\ form'.shows = form.shows /\ form'.wf = form.wf
    BY <1>5, <2>2 DEF FormInv, Shaped
  <2>4. form'.of[2] = r  BY <2>3
  <2>5. Arrives  BY <2>1, <2>3, <2>4, Zenon DEF Arrives
  <2>. QED BY <1>1, <2>3, <2>5 DEF KeepsForm, Owned, FormInv
<1>. QED BY <1>2, <1>3, <1>4, <1>5

\* An answer to a POST settles its own record, and is shown in a form that is
\* about its Workflow.
LEMMA PostEndsKeeps ==
  ASSUME FormInv, NEW k \in Sending, PostEnds(k)
  PROVE  KeepsForm /\ Guarded'
<1>. PICK made \in BOOLEAN, ok \in BOOLEAN :
    /\ posts[k] > 0 /\ (ok => made)
    /\ posts' = [posts EXCEPT ![k] = @ - 1]
    /\ created' = [created EXCEPT ![k] = IF made THEN @ + 1 ELSE @]
    /\ lost' = [lost EXCEPT ![k] = IF made /\ ~ok THEN @ + 1 ELSE @]
    /\ issued' = [issued EXCEPT ![k] = SettleRecord(k, ok)]
    /\ IF ok /\ form.open /\ ShowsOutcome(k)
       THEN /\ form' = [form EXCEPT !.shows = {k}]
            /\ doc' = [doc EXCEPT ![form.wf] = IF HasInput(form) THEN {form.value} ELSE {}]
       ELSE UNCHANGED <<form, doc>>
  BY Zenon DEF PostEnds
<1>1. issued[k] = "inflight" /\ posts[k] = 1
  BY DEF FormInv, Guarded, Counted
<1>2. SettleRecord(k, ok) = IF ok THEN "done" ELSE "none"  BY <1>1 DEF SettleRecord
<1>3. Guarded'
  BY <1>1, <1>2 DEF FormInv, Guarded, Counted
<1>4. CASE form' = [form EXCEPT !.shows = {k}] /\ ShowsOutcome(k)
  <2>1. Shaped' /\ form'.of = form.of /\ form'.shows = {k} /\ form'.wf = form.wf
    BY <1>4 DEF FormInv, Shaped
  <2>. QED BY <1>3, <1>4, <2>1 DEF KeepsForm, Arrives, Owned, ShowsOutcome
<1>5. CASE UNCHANGED form
  BY <1>3, <1>5 DEF KeepsForm, Arrives, Owned, FormInv, Shaped
<1>. QED BY <1>4, <1>5

-----------------------------------------------------------------------------
\* Whatever is visited, a step keeps the form and its guard.
LEMMA StepKeeps ==
  ASSUME FormInv, [Next]_vars
  PROVE  KeepsForm /\ Guarded'
<1>. USE DEF dispatchVars, workflowsVars
<1>1. CASE UNCHANGED dispatchVars
  <2>1. Guarded'  BY <1>1 DEF FormInv, Guarded, Counted
  <2>2. KeepsForm  BY <1>1 DEF KeepsForm, Arrives, Owned, FormInv, Shaped
  <2>. QED BY <2>1, <2>2
<1>2. CASE WorkflowsKey
  <2>1. CASE FormKey  BY <2>1, KeyKeeps, KeyGuards
  <2>2. CASE OpenDispatch
    BY <2>2, OpenKeeps DEF OpenDispatch, FormInv, Guarded, Counted
  <2>3. CASE UNCHANGED dispatchVars  BY <1>1, <2>3
  <2>. QED BY <1>2, <2>1, <2>2, <2>3 DEF WorkflowsKey
<1>3. CASE WorkflowsLand
  <2>1. CASE \E w \in Workflow : RefResolves(w)
    BY <2>1, RefResolvesKeeps DEF FormInv, Guarded, Counted
  <2>2. CASE \E w \in Workflow : RefsLand(w)
    BY <2>2, RefsLandKeeps DEF FormInv, Guarded, Counted
  <2>3. CASE \E w \in Workflow, r \in Ref : YAMLLands(w, r)
    BY <2>3, YAMLLandsKeeps DEF FormInv, Guarded, Counted
  <2>4. CASE \E k \in Sending : PostEnds(k)
    BY <2>4, PostEndsKeeps
  <2>5. CASE UNCHANGED dispatchVars  BY <1>1, <2>5
  <2>. QED BY <1>3, <2>1, <2>2, <2>3, <2>4, <2>5 DEF WorkflowsLand, DispatchLand
<1>4. CASE WorkflowsWorld
  BY <1>1, <1>4 DEF WorkflowsWorld
<1>5. WorkflowsKey \/ WorkflowsLand \/ WorkflowsWorld \/ UNCHANGED dispatchVars
  BY DEF Next, KeyPress, World, Land, OutsideStorage, OutsideRoot, vars
<1>. QED BY <1>1, <1>2, <1>3, <1>4, <1>5

\* dispatch.go: a Dispatch makes one Run whatever is pressed, closed, reopened or
\* answered late, the Run a form names is of its own Workflow, and the inputs a
\* form is given are those of the ref it is on.
THEOREM FormsKeepTheirs == Spec => FormsKeepTheirWord
<1>1. Init => FormInv
  BY ClosedIsShaped DEF Init, WorkflowsInit, AtRowsInit
<1>2. FormInv /\ [Next]_vars => FormInv' /\ [Arrives]_dispatchVars
  BY StepKeeps DEF FormInv, KeepsForm
<1>3. FormInv => OneRunPerDispatch
  <2>. SUFFICES ASSUME FormInv  PROVE OneRunPerDispatch  OBVIOUS
  <2>1. ASSUME NEW k \in Sending  PROVE created[k] + posts[k] <= 1 + lost[k]
    BY DEF FormInv, Guarded, Counted
  <2>2. form.open => \A k \in form.shows : k[1] = form.wf  BY DEF FormInv, Owned
  <2>. QED BY <2>1, <2>2 DEF OneRunPerDispatch
<1>4. [][Arrives]_dispatchVars => FormsArriveForTheirRef
  BY PTL DEF FormsArriveForTheirRef, Arrives
<1>. QED BY <1>1, <1>2, <1>3, <1>4, PTL DEF Spec, FormsKeepTheirWord

-----------------------------------------------------------------------------
(* The Settings pane, its file and the shell around it.                    *)

\* A setting that resolves to itself once it is a node of a mapping.
Settled(k, v) ==
  /\ k = "selector" => v \subseteq Selections
  /\ k = "number" => \A i \in v : ~(i > Ceiling)
  /\ k = "repos" => "malformed" \notin v
  /\ k = "filter" => v \subseteq Axes
AllSettled(c) == c = [k \in Setting |-> c[k]] /\ \A k \in Setting : Settled(k, c[k])

PaneShaped(p) ==
  /\ p = [cfg |-> p.cfg, initial |-> p.initial, open |-> p.open, row |-> p.row,
          editing |-> p.editing, saveErr |-> p.saveErr]
  /\ AllSettled(p.cfg) /\ AllSettled(p.initial)

\* A file that holds no mapping has no nodes, and a node that is of the wrong
\* type has no entries.
FileShaped(f) ==
  /\ f.kind \in {"missing", "unreadable", "broken", "mapping"}
  /\ \A k \in Setting : f.node[k].is # "value" => f.node[k].v = {}
  /\ f.kind # "mapping" => \A k \in Setting : f.node[k] = Absent

\* The settings a file vouches for are read back from it as they are in c.
ReadsBack(found, past, written, c) ==
  \A k \in Setting \ past :
    k # "selector" \/ Flags = {} \/ k \in written => ResolveKey(found, k) = c[k]

\* A write leaves alone what was not changed in the pane.
Spares(found, onto, p) ==
  /\ \A k \in Setting : found.node[k] # onto.node[k] => p.cfg[k] # p.initial[k]
  /\ onto.node.filter.v \ (Axes \cup {"misfiled"}) \subseteq found.node.filter.v

\* What is about to be renamed into place is what the pane will take as its
\* baseline once it is.
SaveHeld(s, onto, p, written) ==
  /\ FileShaped(s.file) /\ ReadsBack(s.file, s.past, written \cup s.keys, p.cfg)
  /\ s.raced \/ Spares(s.file, onto, p)

SettingsInv ==
  /\ PaneShaped(prefs) /\ FileShaped(disk)
  /\ ReadsBack(disk, byHand, stored, prefs.initial)
  /\ \A s \in saving : SaveHeld(s, disk, prefs, stored)

\* One tab believes it is focused, and it is.
FocusInv ==
  /\ active \in 0..2
  /\ told = [t \in Tab |-> [active |-> t = TabAt(active), captures |-> told[t].captures]]
  /\ \A s \in Surface : profile[s] = prefs.cfg.selector

\* A setting read from any file is one that resolves to itself.
LEMMA ResolvesSettled ==
  ASSUME NEW found, NEW k \in Setting
  PROVE  Settled(k, ResolveKey(found, k))
<1>. USE SettingsAssumption DEF Settled, ResolveKey, Default, Selections, Axes, WithinCeiling
<1>1. CASE found.kind # "mapping" \/ found.node[k].is # "value"
  BY <1>1 DEF Setting
<1>2. CASE found.kind = "mapping" /\ found.node[k].is = "value"
  <2>1. CASE k = "selector"  BY <1>2, <2>1
  <2>2. CASE k = "number"  BY <1>2, <2>2
  <2>3. CASE k = "repos"  BY <1>2, <2>3
  <2>4. CASE k = "filter"  BY <1>2, <2>4
  <2>. QED BY <2>1, <2>2, <2>3, <2>4 DEF Setting
<1>. QED BY <1>1, <1>2

\* So is every setting the program is launched with.
LEMMA LoadSettles ==
  ASSUME NEW found
  PROVE  AllSettled(Load(found))
<1>. DEFINE c == Load(found)
<1>1. c = [k \in Setting |-> c[k]]  BY DEF Load
<1>2. ASSUME NEW k \in Setting  PROVE Settled(k, c[k])
  <2>1. CASE k = "selector" /\ Flags # {}
    BY <2>1, SettingsAssumption DEF Load, Settled
  <2>2. CASE ~(k = "selector" /\ Flags # {})
    <3>1. c[k] = ResolveKey(found, k)  BY <2>2 DEF Load
    <3>. QED BY <3>1, ResolvesSettled
  <2>. QED BY <2>1, <2>2
<1>. QED BY <1>1, <1>2 DEF AllSettled

\* What the pane takes in place of a setting is settled too: a choice, ...
LEMMA ChoicesSettled ==
  ASSUME NEW v
  PROVE  NextChoice(v) \subseteq Selections
<1>1. \E c \in SUBSET Selections : Cardinality(c) = 1 /\ c # v
  <2>1. Cardinality({"standard"}) = 1 /\ Cardinality({"vim"}) = 1  BY FS_Singleton
  <2>2. {"standard"} # {"vim"}  OBVIOUS
  <2>3. {"standard"} \in SUBSET Selections /\ {"vim"} \in SUBSET Selections  BY DEF Selections
  <2>. QED BY <2>1, <2>2, <2>3, Zenon
<1>. DEFINE P(c) == Cardinality(c) = 1 /\ c # v
<1>2. NextChoice(v) = CHOOSE c \in SUBSET Selections : P(c)  BY DEF NextChoice
<1>3. \E c \in SUBSET Selections : P(c)  BY <1>1
<1>. HIDE DEF P
<1>. QED BY <1>2, <1>3

\* ... or what was typed.
LEMMA TypedSettled ==
  ASSUME NEW k \in Setting, NEW v \in Typed(k)
  PROVE  Settled(k, v)
BY SettingsAssumption DEF Setting, Typed, Settled, WithinCeiling, Axes

\* A setting changed in the pane is read back from what ApplyChanges makes of it.
LEMMA EditedResolves ==
  ASSUME NEW k \in Setting, NEW n, NEW v, Settled(k, v), NEW found,
         found.kind = "mapping", found.node[k] = Edited(n, k, v)
  PROVE  ResolveKey(found, k) = v
<1>. USE DEF Settled, Node, Edited, ResolveKey
<1>1. CASE k = "selector"  BY <1>1
<1>2. CASE k = "number"
  <2>1. ResolveKey(found, k) = {WithinCeiling(i) : i \in v}  BY <1>2
  <2>2. \A i \in v : WithinCeiling(i) = i  BY <1>2 DEF WithinCeiling
  <2>. QED BY <2>1, <2>2
<1>3. CASE k = "repos"  BY <1>3
<1>4. CASE k = "filter"
  <2>1. ResolveKey(found, k) = Edited(n, k, v).v \cap Axes  BY <1>4
  <2>. QED BY <1>4, <2>1
<1>. QED BY <1>1, <1>2, <1>3, <1>4 DEF Setting

\* persist: what is about to be written is what the pane has changed, and it is
\* written into the file as it was found.
LEMMA PersistKeeps ==
  ASSUME SettingsInv, saving = {}, NEW p, PaneShaped(p), p.initial = prefs.initial,
         Persist(p), UNCHANGED <<disk, stored>>
  PROVE  SettingsInv'
<1>. USE DEF SettingsInv
<1>1. CASE Changed(p) = {} \/ disk.kind \in {"unreadable", "broken"}
  <2>1. /\ \E e \in BOOLEAN : prefs' = [p EXCEPT !.saveErr = e]
        /\ UNCHANGED <<saving, byHand>>
    BY <1>1 DEF Persist
  <2>2. PaneShaped(prefs') /\ prefs'.initial = prefs.initial
    BY <2>1 DEF PaneShaped
  <2>. QED BY <2>1, <2>2
<1>2. CASE ~(Changed(p) = {} \/ disk.kind \in {"unreadable", "broken"})
  <2>. DEFINE s == [file |-> ApplyChanges(disk, p), keys |-> Changed(p),
                    past |-> byHand \ Changed(p), raced |-> FALSE]
  <2>1. prefs' = p /\ saving' = {s} /\ UNCHANGED byHand
    BY <1>2 DEF Persist
  <2>2. /\ s.file.kind = "mapping" /\ s.keys = Changed(p) /\ s.past = byHand \ Changed(p)
        /\ \A k \in Setting :
             s.file.node[k] = IF k \in Changed(p) THEN Edited(disk.node[k], k, p.cfg[k])
                              ELSE disk.node[k]
    BY DEF ApplyChanges
  <2>. HIDE DEF s
  <2>3. ReadsBack(s.file, s.past, stored \cup s.keys, p.cfg)
    <3>. SUFFICES ASSUME NEW k \in Setting \ s.past,
                         k # "selector" \/ Flags = {} \/ k \in stored \cup s.keys
                  PROVE  ResolveKey(s.file, k) = p.cfg[k]
      BY DEF ReadsBack
    <3>1. CASE k \in Changed(p)
      <4>1. Settled(k, p.cfg[k])  BY DEF PaneShaped, AllSettled
      <4>. QED BY <2>2, <3>1, <4>1, EditedResolves
    <3>2. CASE k \notin Changed(p)
      <4>1. k \notin byHand /\ s.file.node[k] = disk.node[k]  BY <2>2, <3>2
      <4>2. p.cfg[k] = prefs.initial[k]  BY <3>2 DEF Changed
      <4>3. ResolveKey(disk, k) = prefs.initial[k]
        BY <2>2, <3>2, <4>1 DEF ReadsBack
      <4>4. ResolveKey(s.file, k) = ResolveKey(disk, k)
        <5>1. CASE disk.kind = "mapping"
          BY <2>2, <4>1, <5>1 DEF ResolveKey
        <5>2. CASE disk.kind # "mapping"
          BY <2>2, <4>1, <5>2 DEF ResolveKey, FileShaped, Absent
        <5>. QED BY <5>1, <5>2
      <4>. QED BY <4>2, <4>3, <4>4
    <3>. QED BY <3>1, <3>2
  <2>4. Spares(s.file, disk, p)
    <3>1. \A k \in Setting : s.file.node[k] # disk.node[k] => p.cfg[k] # p.initial[k]
      BY <2>2 DEF Changed
    <3>2. disk.node["filter"].v \ (Axes \cup {"misfiled"}) \subseteq s.file.node["filter"].v
      <4>1. CASE "filter" \in Changed(p)
        <5>1. s.file.node["filter"] = Edited(disk.node["filter"], "filter", p.cfg["filter"])
          BY <2>2, <4>1 DEF Setting
        <5>2. CASE disk.node["filter"].is = "value"
          BY <5>1, <5>2 DEF Edited, Node
        <5>3. CASE disk.node["filter"].is # "value"
          BY <5>3 DEF FileShaped, Setting
        <5>. QED BY <5>2, <5>3
      <4>2. CASE "filter" \notin Changed(p)
        BY <2>2, <4>2 DEF Setting
      <4>. QED BY <4>1, <4>2
    <3>. QED BY <3>1, <3>2 DEF Spares
  <2>5. FileShaped(s.file)
    <3>1. ASSUME NEW k \in Setting, s.file.node[k].is # "value"
          PROVE  s.file.node[k].v = {}
      <4>0. \A n, v : Edited(n, k, v).is = "value"  BY DEF Edited, Node
      <4>1. k \notin Changed(p)  BY <2>2, <3>1, <4>0
      <4>2. s.file.node[k] = disk.node[k]  BY <2>2, <4>1
      <4>. QED BY <3>1, <4>2 DEF FileShaped
    <3>. QED BY <2>2, <3>1 DEF FileShaped
  <2>6. SaveHeld(s, disk, p, stored)  BY <2>3, <2>4, <2>5 DEF SaveHeld
  <2>. QED BY <2>1, <2>6
<1>. QED BY <1>1, <1>2

\* Save ends in its rename, or in an error that leaves the file as it was.
LEMMA SaveEndsKeeps ==
  ASSUME SettingsInv, SaveEnds
  PROVE  SettingsInv' /\ prefs'.cfg = prefs.cfg
<1>. USE DEF SettingsInv
<1>. PICK s \in saving :
       \/ /\ disk' = s.file /\ stored' = stored \cup s.keys /\ byHand' = s.past
          /\ prefs' = [prefs EXCEPT !.initial = prefs.cfg, !.saveErr = FALSE]
       \/ /\ prefs' = [prefs EXCEPT !.initial = Baseline(prefs), !.saveErr = TRUE]
          /\ UNCHANGED <<disk, stored, byHand>>
  BY DEF SaveEnds
<1>1. saving' = {}  BY DEF SaveEnds
<1>2. CASE /\ disk' = s.file /\ stored' = stored \cup s.keys /\ byHand' = s.past
           /\ prefs' = [prefs EXCEPT !.initial = prefs.cfg, !.saveErr = FALSE]
  <2>1. PaneShaped(prefs') /\ prefs'.initial = prefs.cfg /\ prefs'.cfg = prefs.cfg
    BY <1>2 DEF PaneShaped
  <2>2. SaveHeld(s, disk, prefs, stored)  OBVIOUS
  <2>. QED BY <1>1, <1>2, <2>1, <2>2 DEF SaveHeld
<1>3. CASE /\ prefs' = [prefs EXCEPT !.initial = Baseline(prefs), !.saveErr = TRUE]
           /\ UNCHANGED <<disk, stored, byHand>>
  <2>1. PaneShaped(prefs') /\ prefs'.initial = prefs.initial /\ prefs'.cfg = prefs.cfg
    BY <1>3 DEF PaneShaped, Baseline
  <2>. QED BY <1>1, <1>3, <2>1
<1>. QED BY <1>2, <1>3

\* A pane as it is but for what no write depends on.
LEMMA PaneMoves ==
  ASSUME SettingsInv, PaneShaped(prefs'), prefs'.cfg = prefs.cfg,
         prefs'.initial = prefs.initial, UNCHANGED <<disk, saving, stored, byHand>>
  PROVE  SettingsInv'
BY DEF SettingsInv, SaveHeld, Spares

\* Every key of the pane keeps what is written, or about to be, to what is shown.
LEMMA PaneKeyKeeps ==
  ASSUME SettingsInv, saving = {}, SettingsPaneKey, UNCHANGED <<disk, stored>>
  PROVE  SettingsInv'
<1>0. PaneShaped(prefs)  BY DEF SettingsInv
<1>1. ASSUME NEW k \in Setting, NEW v, Settled(k, v),
             Persist([prefs EXCEPT !.cfg[k] = v, !.editing = FALSE])
      PROVE  SettingsInv'
  <2>. DEFINE p == [prefs EXCEPT !.cfg[k] = v, !.editing = FALSE]
  <2>1. p = [cfg |-> [x \in Setting |-> IF x = k THEN v ELSE prefs.cfg[x]],
             initial |-> prefs.initial, open |-> prefs.open, row |-> prefs.row,
             editing |-> FALSE, saveErr |-> prefs.saveErr]
    <3>. DEFINE c == [prefs.cfg EXCEPT ![k] = v]
    <3>1. p = [prefs EXCEPT !.cfg = c, !.editing = FALSE]  OBVIOUS
    <3>2. c = [x \in Setting |-> IF x = k THEN v ELSE prefs.cfg[x]]
      BY <1>0 DEF PaneShaped, AllSettled
    <3>3. prefs = [cfg |-> prefs.cfg, initial |-> prefs.initial, open |-> prefs.open, row |-> prefs.row,
                   editing |-> prefs.editing, saveErr |-> prefs.saveErr]
      BY <1>0, Zenon DEF PaneShaped
    <3>. HIDE DEF c, p
    <3>4. p = [cfg |-> c, initial |-> prefs.initial, open |-> prefs.open, row |-> prefs.row,
               editing |-> FALSE, saveErr |-> prefs.saveErr]
      BY <3>1, <3>3
    <3>. QED BY <3>2, <3>4
  <2>2. Persist(p)  BY <1>1
  <2>. HIDE DEF p
  <2>3. PaneShaped(p) /\ p.initial = prefs.initial
    BY <1>0, <1>1, <2>1 DEF PaneShaped, AllSettled
  <2>. QED BY <2>2, <2>3, PersistKeeps
<1>2. CASE prefs.editing /\ CommitKey
  <2>1. CASE prefs' = [prefs EXCEPT !.editing = FALSE] /\ UNCHANGED <<saving, byHand>>
    BY <1>0, <2>1, PaneMoves DEF PaneShaped
  <2>2. CASE \E v \in Typed(prefs.row) : Persist([prefs EXCEPT !.cfg[prefs.row] = v, !.editing = FALSE])
    <3>1. PICK v \in Typed(prefs.row) : Persist([prefs EXCEPT !.cfg[prefs.row] = v, !.editing = FALSE])
      BY <2>2
    <3>2. prefs.row \in Setting  BY DEF Typed, Setting
    <3>. QED BY <1>1, <3>1, <3>2, TypedSettled
  <2>. QED BY <1>2, <2>1, <2>2 DEF CommitKey
<1>3. CASE CycleKey
  <2>. DEFINE v == NextChoice(prefs.cfg["selector"])
              p == [prefs EXCEPT !.cfg["selector"] = v]
  <2>1. Persist(p)  BY <1>3 DEF CycleKey
  <2>2. Settled("selector", v)  BY ChoicesSettled DEF Settled
  <2>. HIDE DEF v
  <2>3. p = [cfg |-> [x \in Setting |-> IF x = "selector" THEN v ELSE prefs.cfg[x]],
             initial |-> prefs.initial, open |-> prefs.open, row |-> prefs.row,
             editing |-> prefs.editing, saveErr |-> prefs.saveErr]
    BY <1>0 DEF PaneShaped, AllSettled
  <2>. HIDE DEF p
  <2>4. PaneShaped(p) /\ p.initial = prefs.initial
    BY <1>0, <2>2, <2>3 DEF PaneShaped, AllSettled
  <2>. QED BY <2>1, <2>4, PersistKeeps
<1>4. CASE /\ \/ \E k \in Setting \ {prefs.row} : prefs' = [prefs EXCEPT !.row = k]
              \/ prefs.row # "selector" /\ prefs' = [prefs EXCEPT !.editing = TRUE]
              \/ prefs' = [prefs EXCEPT !.open = FALSE]
           /\ UNCHANGED <<saving, byHand>>
  <2>1. PaneShaped(prefs') /\ prefs'.cfg = prefs.cfg /\ prefs'.initial = prefs.initial
    BY <1>0, <1>4 DEF PaneShaped
  <2>. QED BY <1>4, <2>1, PaneMoves
<1>. QED BY <1>2, <1>3, <1>4 DEF SettingsPaneKey

\* A person at the file: it vouches for less, and what Save read is no longer
\* what is there.
LEMMA HandEditKeeps ==
  ASSUME SettingsInv, HandEdit
  PROVE  SettingsInv'
<1>. USE DEF SettingsInv
<1>1. FileShaped(disk')
  BY SettingsAssumption DEF HandEdit, FileShaped, Absent
<1>2. ReadsBack(disk', byHand', stored', prefs'.initial)
  <2>. SUFFICES ASSUME NEW k \in Setting \ byHand', k # "selector" \/ Flags = {} \/ k \in stored
                PROVE  ResolveKey(disk', k) = prefs.initial[k]
    BY DEF HandEdit, ReadsBack
  <2>1. k \notin byHand /\ disk'.node[k] = disk.node[k] /\ disk'.kind = disk.kind
    BY DEF HandEdit
  <2>2. ResolveKey(disk, k) = prefs.initial[k]  BY <2>1 DEF ReadsBack
  <2>. QED BY <2>1, <2>2 DEF ResolveKey
<1>3. \A s \in saving' : SaveHeld(s, disk', prefs', stored')
  <2>1. \A s \in saving : SaveHeld(s, disk, prefs, stored)  OBVIOUS
  <2>2. prefs' = prefs /\ stored' = stored  BY DEF HandEdit
  <2>3. saving' = {[file |-> s.file, keys |-> s.keys, past |-> s.past, raced |-> TRUE] : s \in saving}
    BY DEF HandEdit
  <2>. QED BY <2>1, <2>2, <2>3 DEF SaveHeld
<1>. QED BY <1>1, <1>2, <1>3 DEF HandEdit

\* A launch reads the file there is.
LEMMA LaunchedKeeps ==
  ASSUME NEW found, FileShaped(found)
  PROVE  /\ PaneShaped(Launched(found))
         /\ ReadsBack(found, {}, {}, Launched(found).initial)
BY LoadSettles DEF PaneShaped, Launched, ReadsBack, Load

-----------------------------------------------------------------------------
\* What a tab believes of its focus is the case.
LEMMA FocusTold ==
  ASSUME FocusInv, NEW t \in Tab
  PROVE  told[t].active = (t = TabAt(active))
<1>1. told[t] = [active |-> t = TabAt(active), captures |-> told[t].captures]
  BY DEF FocusInv
<1>. QED BY <1>1

\* The tab that gains the focus is not the one that loses it.
LEMMA SwitchKeeps ==
  ASSUME FocusInv, NEW i \in 0..2, i # active, SwitchTab(i), UNCHANGED profile,
         prefs'.cfg = prefs.cfg
  PROVE  FocusInv'
<1>1. active' = i /\ TabAt(i) \in Tab /\ TabAt(i) # TabAt(active)
  BY DEF SwitchTab, TabAt, Tab, FocusInv
<1>2. ASSUME NEW t \in Tab
      PROVE  (IF t = TabAt(i) THEN TRUE ELSE IF t = TabAt(active) THEN FALSE ELSE told[t].active)
             = (t = TabAt(i))
  BY <1>1, FocusTold
<1>3. told' = [t \in Tab |-> [active |-> t = TabAt(active'), captures |-> told[t].captures]]
  BY <1>1, <1>2 DEF SwitchTab
<1>. QED BY <1>1, <1>3 DEF FocusInv

\* A tab that begins or ends to capture has the focus it had.
LEMMA CaptureKeeps ==
  ASSUME FocusInv, UNCHANGED <<active, profile>>, prefs'.cfg = prefs.cfg,
         UNCHANGED told \/ told' = [told EXCEPT ![TabAt(active)].captures = ~@]
  PROVE  FocusInv'
BY DEF FocusInv

\* handleKey, wherever the key goes.
LEMMA ShellKeyKeeps ==
  ASSUME SettingsInv, FocusInv, ShellKey
  PROVE  SettingsInv' /\ FocusInv'
<1>0. saving = {}  BY DEF ShellKey
<1>1. CASE Interrupt
  BY <1>1 DEF Interrupt, settingsVars, SettingsInv, FocusInv
<1>2. CASE SettingsKey
  <2>1. SettingsInv'  BY <1>0, <1>2, PaneKeyKeeps DEF SettingsKey
  <2>2. FocusInv'  BY <1>2 DEF SettingsKey, Profiled, FocusInv
  <2>. QED BY <2>1, <2>2
<1>3. CASE GlobalKey
  <2>1. CASE \E i \in (0..2) \ {active} : SwitchTab(i) /\ UNCHANGED <<settingsVars, profile, leaving, quit>>
    <3>1. SettingsInv'  BY <2>1 DEF settingsVars, SettingsInv
    <3>2. FocusInv'  BY <2>1, SwitchKeeps DEF settingsVars
    <3>. QED BY <3>1, <3>2
  <2>2. CASE OpenSettings /\ UNCHANGED <<disk, saving, stored, byHand, active, told, profile, leaving, quit>>
    <3>1. /\ PaneShaped(prefs') /\ prefs'.cfg = prefs.cfg /\ prefs'.initial = prefs.initial
      BY <2>2 DEF OpenSettings, SettingsInv, PaneShaped
    <3>. QED BY <2>2, <3>1, PaneMoves DEF FocusInv
  <2>. QED BY <1>3, <2>1, <2>2 DEF GlobalKey
<1>4. CASE TabKey
  <2>1. SettingsInv'  BY <1>4 DEF TabKey, settingsVars, SettingsInv
  <2>2. FocusInv'  BY <1>4, CaptureKeeps DEF TabKey, settingsVars
  <2>. QED BY <2>1, <2>2
<1>. QED BY <1>1, <1>2, <1>3, <1>4 DEF ShellKey

\* A message received late, or the end of a write.
LEMMA ShellLandKeeps ==
  ASSUME SettingsInv, FocusInv, ShellLand
  PROVE  SettingsInv' /\ FocusInv'
<1>1. CASE ShowRuns
  <2>1. SettingsInv'  BY <1>1 DEF ShowRuns, settingsVars, SettingsInv
  <2>2. CASE active = 0
    BY <1>1, <2>1, <2>2 DEF ShowRuns, settingsVars, FocusInv
  <2>3. CASE active # 0
    BY <1>1, <2>1, <2>3, SwitchKeeps DEF ShowRuns, settingsVars
  <2>. QED BY <2>1, <2>2, <2>3
<1>2. CASE SaveEnds /\ UNCHANGED <<active, told, profile, leaving, quit>>
  BY <1>2, SaveEndsKeeps DEF FocusInv
<1>. QED BY <1>1, <1>2 DEF ShellLand

\* A person at the file, or another launch.
LEMMA ShellWorldKeeps ==
  ASSUME SettingsInv, FocusInv, ShellWorld
  PROVE  SettingsInv' /\ FocusInv'
<1>1. CASE HandEdit /\ UNCHANGED <<active, told, profile, leaving, quit>>
  <2>1. UNCHANGED prefs  BY <1>1 DEF HandEdit
  <2>. QED BY <1>1, <2>1, HandEditKeeps DEF FocusInv
<1>2. CASE Relaunch /\ FreshShell(prefs')
  <2>1. SettingsInv'
    BY <1>2, LaunchedKeeps DEF Relaunch, SettingsInv
  <2>2. FocusInv'
    BY <1>2 DEF FreshShell, FocusInv, TabAt, Tab
  <2>. QED BY <2>1, <2>2
<1>. QED BY <1>1, <1>2 DEF ShellWorld

\* The pane, its file and the focus, together: what the next theorems rest on.
LEMMA SettingsHold == Spec => [](SettingsInv /\ FocusInv)
<1>. DEFINE Inv == SettingsInv /\ FocusInv
<1>1. Init => Inv
  <2>. SUFFICES ASSUME Init  PROVE Inv  OBVIOUS
  <2>1. disk \in Files /\ prefs = Launched(disk) /\ saving = {} /\ stored = {} /\ byHand = {}
    BY DEF Init, ShellInit, SettingsInit
  <2>2. FileShaped(disk)  BY <2>1, SettingsAssumption DEF FileShaped, Absent
  <2>3. SettingsInv  BY <2>1, <2>2, LaunchedKeeps DEF SettingsInv
  <2>4. FocusInv  BY DEF Init, ShellInit, FocusInv, TabAt, Tab
  <2>. QED BY <2>3, <2>4
<1>2. Inv /\ [Next]_vars => Inv'
  <2>. SUFFICES ASSUME Inv, [Next]_vars  PROVE Inv'  OBVIOUS
  <2>1. CASE UNCHANGED shellVars
    BY <2>1 DEF shellVars, settingsVars, SettingsInv, FocusInv
  <2>2. CASE ShellKey  BY <2>2, ShellKeyKeeps
  <2>3. CASE ShellLand  BY <2>3, ShellLandKeeps
  <2>4. CASE ShellWorld  BY <2>4, ShellWorldKeeps
  <2>5. ShellKey \/ ShellLand \/ ShellWorld \/ UNCHANGED shellVars
    BY DEF Next, KeyPress, World, Land, OutsideStorage, OutsideWorkflows, vars
  <2>. QED BY <2>1, <2>2, <2>3, <2>4, <2>5
<1>. QED BY <1>1, <1>2, PTL DEF Spec

\* config.go, settings.go and tui.go: what the pane takes for written is what the
\* file is read back as, whoever wrote it and whichever writes failed; a write
\* spares what was not changed; one tab has the focus and every surface answers
\* the profile the pane holds.
THEOREM SettingsAreInForce == Spec => []SettingsTakeEffect
<1>1. SettingsInv /\ FocusInv => SettingsTakeEffect
  <2>. SUFFICES ASSUME SettingsInv, FocusInv  PROVE SettingsTakeEffect  OBVIOUS
  <2>1. ASSUME NEW k \in Setting \ byHand, k # "selector" \/ Flags = {} \/ k \in stored
        PROVE  ResolveKey(disk, k) = prefs.initial[k]
    BY <2>1 DEF SettingsInv, ReadsBack
  <2>2. ASSUME NEW s \in saving, ~s.raced
        PROVE  /\ \A k \in Setting : s.file.node[k] # disk.node[k] => prefs.cfg[k] # prefs.initial[k]
               /\ disk.node.filter.v \ (Axes \cup {"misfiled"}) \subseteq s.file.node.filter.v
    BY <2>2 DEF SettingsInv, SaveHeld, Spares
  <2>3. OneFocusOneProfile  BY FocusTold DEF FocusInv, OneFocusOneProfile
  <2>. QED BY <2>1, <2>2, <2>3 DEF SettingsReachDisk, SettingsTakeEffect
<1>. QED BY SettingsHold, <1>1, PTL

-----------------------------------------------------------------------------
\* The detail pane by itself: it is of its types, and holds the Jobs of the Run
\* it is over or none.
Over ==
  /\ pane.of \in {0, pane.run}
  /\ pane.state = "loaded" <=> pane.of # 0
  /\ pane.jobs # 0 <=> pane.of # 0
DetailInv == DetailTypeOK /\ Over

\* The Run it is over, and whether that Run is live, are as they were.
SamePane == pane'.open = pane.open /\ pane'.run = pane.run /\ pane'.live = pane.live

\* One more timer or fetch on its way, or one less, leaves them counted.
LEMMA TripsAreCounted ==
  ASSUME NEW f \in [Trip -> [Run -> Nat]], NEW t \in Trip, NEW r \in Run
  PROVE  /\ Sent(f, t, r) \in [Trip -> [Run -> Nat]]
         /\ f[t][r] > 0 => Taken(f, t, r) \in [Trip -> [Run -> Nat]]
BY DEF Sent, Taken

\* A fetch that is issued.
LEMMA FetchIssued ==
  ASSUME DetailInv, NEW f \in [Trip -> [Run -> Nat]], NEW r \in Run, IssueFetch(f, r),
         UNCHANGED going, exhausted' \in BOOLEAN
  PROVE  DetailInv' /\ SamePane
<1>1. flight' \in [Trip -> [Run -> Nat]]
  <2>1. "fetch" \in Trip  BY DEF Trip
  <2>. QED BY <2>1, TripsAreCounted DEF IssueFetch
<1>2. pane' = [pane EXCEPT !.fetching = TRUE]  BY DEF IssueFetch
<1>. QED BY <1>1, <1>2 DEF DetailInv, DetailTypeOK, Over, SamePane

\* A settle timer that fires.
LEMMA SettleKeeps ==
  ASSUME DetailInv, NEW r \in Run, Settle(r)
  PROVE  DetailInv' /\ SamePane /\ UNCHANGED going
<1>1. Taken(flight, "settle", r) \in [Trip -> [Run -> Nat]]
  <2>1. "settle" \in Trip  BY DEF Trip
  <2>. QED BY <2>1, TripsAreCounted DEF Settle, DetailInv, DetailTypeOK
<1>2. UNCHANGED <<going, exhausted>> /\ exhausted' \in BOOLEAN
  BY DEF Settle, DetailInv, DetailTypeOK
<1>3. CASE IssueFetch(Taken(flight, "settle", r), r)
  BY <1>1, <1>2, <1>3, FetchIssued
<1>4. CASE flight' = Taken(flight, "settle", r) /\ UNCHANGED pane
  BY <1>1, <1>2, <1>4 DEF DetailInv, DetailTypeOK, Over, SamePane
<1>. QED BY <1>2, <1>3, <1>4 DEF Settle

\* A refresh tick.
LEMMA RefreshKeeps ==
  ASSUME DetailInv, NEW r \in Run, Refresh(r)
  PROVE  DetailInv' /\ SamePane /\ UNCHANGED going
<1>1. Taken(flight, "refresh", r) \in [Trip -> [Run -> Nat]]
  <2>1. "refresh" \in Trip  BY DEF Trip
  <2>. QED BY <2>1, TripsAreCounted DEF Refresh, DetailInv, DetailTypeOK
<1>2. UNCHANGED <<going, exhausted>> /\ exhausted' \in BOOLEAN
  BY DEF Refresh, DetailInv, DetailTypeOK
<1>3. CASE IssueFetch(Taken(flight, "refresh", r), r)
  BY <1>1, <1>2, <1>3, FetchIssued
<1>4. CASE flight' = Taken(flight, "refresh", r) /\ UNCHANGED pane
  BY <1>1, <1>2, <1>4 DEF DetailInv, DetailTypeOK, Over, SamePane
<1>. QED BY <1>2, <1>3, <1>4 DEF Refresh

\* The Jobs of a Run, which are shown only while the pane is over it.
LEMMA JobsKeep ==
  ASSUME DetailInv, NEW r \in Run, Jobs(r)
  PROVE  DetailInv' /\ SamePane /\ UNCHANGED going
<1>1. Taken(flight, "fetch", r) \in [Trip -> [Run -> Nat]]
  <2>1. "fetch" \in Trip  BY DEF Trip
  <2>. QED BY <2>1, TripsAreCounted DEF Jobs, DetailInv, DetailTypeOK
<1>2. flight' \in [Trip -> [Run -> Nat]]
  <2>1. "refresh" \in Trip  BY DEF Trip
  <2>2. Sent(Taken(flight, "fetch", r), "refresh", r) \in [Trip -> [Run -> Nat]]
    BY <1>1, <2>1, TripsAreCounted
  <2>. QED BY <1>1, <2>2 DEF Jobs
<1>3. UNCHANGED <<going, exhausted>>  BY DEF Jobs
<1>4. CASE ~Holds(r)
  <2>1. pane' = [pane EXCEPT !.fetching = FALSE]  BY <1>4 DEF Jobs
  <2>. QED BY <1>2, <1>3, <2>1 DEF DetailInv, DetailTypeOK, Over, SamePane
<1>5. CASE Holds(r)
  <2>1. PICK n \in JobCounts :
          pane' = [pane EXCEPT !.fetching = FALSE, !.jobs = n,
                     !.of = IF n = 0 THEN 0 ELSE r,
                     !.state = IF n = 0 THEN "none" ELSE "loaded",
                     !.row = Clamped(@, n)]
    BY <1>5 DEF Jobs
  <2>2. r # 0 /\ pane.run = r /\ n \in 0..MaxJobs /\ MaxJobs \in Nat
    BY <1>5, DetailAssumption DEF Holds, JobCounts
  <2>3. /\ Clamped(pane.row, n) \in 0..MaxJobs
        /\ Clamped(pane.row, n) <= (IF n = 0 THEN 0 ELSE n - 1)
    BY <2>2 DEF Clamped, DetailInv, DetailTypeOK
  <2>. HIDE DEF Clamped
  <2>4. DetailTypeOK'
    BY <1>2, <1>3, <2>1, <2>2, <2>3 DEF DetailInv, DetailTypeOK
  <2>5. Over' /\ SamePane
    BY <2>1, <2>2 DEF DetailInv, DetailTypeOK, Over, SamePane
  <2>. QED BY <1>3, <2>4, <2>5 DEF DetailInv
<1>. QED BY <1>4, <1>5

\* The readout.
LEMMA ReadoutKeeps ==
  ASSUME DetailInv, Readout
  PROVE  DetailInv' /\ SamePane /\ UNCHANGED going
<1>1. UNCHANGED going /\ exhausted' \in BOOLEAN  BY DEF Readout
<1>2. CASE IssueFetch(flight, pane.run) /\ pane.run # 0
  <2>1. pane.run \in Run /\ flight \in [Trip -> [Run -> Nat]]
    BY <1>2 DEF DetailInv, DetailTypeOK
  <2>. QED BY <1>1, <1>2, <2>1, FetchIssued
<1>3. CASE UNCHANGED <<pane, flight>>
  BY <1>1, <1>3 DEF DetailInv, DetailTypeOK, Over, SamePane
<1>. QED BY <1>1, <1>2, <1>3 DEF Readout

\* Target over a Run of the rows: the Run, its liveness, and its Jobs or none.
LEMMA TargetIsOver ==
  ASSUME DetailInv, NEW r \in Run, NEW g \in SUBSET Run,
         pane' = Target(pane, r, g) \/ pane' = Target([pane EXCEPT !.open = TRUE, !.run = 0], r, g),
         flight' \in [Trip -> [Run -> Nat]], going' \in SUBSET Run, UNCHANGED exhausted
  PROVE  /\ DetailInv' /\ pane'.run = r /\ pane'.live = (r \in g)
         /\ pane' = Target(pane, r, g) => pane'.open = pane.open
         /\ pane' # Target(pane, r, g) => pane'.open
<1>1. r # 0 /\ 0 \in 0..MaxJobs  BY DetailAssumption
<1>2. CASE pane' = Target(pane, r, g)
  <2>1. /\ pane'.run = r /\ pane'.live = (r \in g) /\ pane'.open = pane.open /\ Over'
    BY <1>1, <1>2 DEF Target, Fresh, DetailInv, DetailTypeOK, Over
  <2>2. DetailTypeOK'
    <3>. DEFINE live == r \in g
    <3>1. pane' = [pane EXCEPT !.run = r, !.live = live, !.state = "pending", !.jobs = 0,
                               !.of = 0, !.row = 0, !.active = FALSE]
            \/ pane' = [pane EXCEPT !.live = live]
      BY <1>2 DEF Target
    <3>2. live \in BOOLEAN  OBVIOUS
    <3>. HIDE DEF live
    <3>3. pane' \in [open : BOOLEAN, run : {0} \cup Run, live : BOOLEAN,
                     state : {"pending", "loaded", "none"}, jobs : 0..MaxJobs, of : {0} \cup Run,
                     fetching : BOOLEAN, active : BOOLEAN, row : 0..MaxJobs]
      BY <1>1, <3>1, <3>2 DEF DetailInv, DetailTypeOK
    <3>4. pane'.row <= (IF pane'.jobs = 0 THEN 0 ELSE pane'.jobs - 1)
      <4>1. (pane'.row = 0 /\ pane'.jobs = 0) \/ (pane'.row = pane.row /\ pane'.jobs = pane.jobs)
        BY <3>1 DEF DetailInv, DetailTypeOK
      <4>. QED BY <4>1 DEF DetailInv, DetailTypeOK
    <3>. QED BY <3>3, <3>4 DEF DetailInv, DetailTypeOK
  <2>. QED BY <1>2, <2>1, <2>2 DEF DetailInv
<1>3. CASE pane' = Target([pane EXCEPT !.open = TRUE, !.run = 0], r, g)
  <2>1. pane' = [pane EXCEPT !.open = TRUE, !.run = r, !.live = r \in g, !.state = "pending",
                             !.jobs = 0, !.of = 0, !.row = 0, !.active = FALSE]
    BY <1>1, <1>3 DEF Target, Fresh, DetailInv, DetailTypeOK
  <2>2. pane'.run = r /\ pane'.live = (r \in g) /\ pane'.open /\ Over'
    BY <1>1, <2>1 DEF DetailInv, DetailTypeOK, Over
  <2>3. DetailTypeOK'
    <3>. DEFINE live == r \in g
    <3>1. live \in BOOLEAN
          /\ pane' = [pane EXCEPT !.open = TRUE, !.run = r, !.live = live, !.state = "pending",
                                  !.jobs = 0, !.of = 0, !.row = 0, !.active = FALSE]
      BY <2>1
    <3>. HIDE DEF live
    <3>2. pane' \in [open : BOOLEAN, run : {0} \cup Run, live : BOOLEAN,
                     state : {"pending", "loaded", "none"}, jobs : 0..MaxJobs, of : {0} \cup Run,
                     fetching : BOOLEAN, active : BOOLEAN, row : 0..MaxJobs]
      BY <1>1, <3>1 DEF DetailInv, DetailTypeOK
    <3>3. pane'.row <= (IF pane'.jobs = 0 THEN 0 ELSE pane'.jobs - 1)
      BY <1>1, <3>1 DEF DetailInv, DetailTypeOK
    <3>. QED BY <3>2, <3>3 DEF DetailInv, DetailTypeOK
  <2>. QED BY <1>2, <2>2, <2>3 DEF DetailInv
<1>. QED BY <1>2, <1>3

-----------------------------------------------------------------------------
\* The log view by itself: its Model is a record of its fields.
Fields13 == DOMAIN log = DOMAIN ClosedLog
LogInv == Fields13 /\ LogTypeOK(Job)

\* Its lines are of the Job it is open over, once there are any.
OfItsJob == log.open /\ log.state = "loaded" => log.of = log.job

\* What happens in a log that is open leaves it over its Job.
Stays == log'.open => log.open /\ log'.job = log.job

\* A change that leaves the Job, the lines' Job and the bytes of an open log.
Within(m) ==
  /\ DOMAIN m = DOMAIN log
  /\ m.open \in BOOLEAN /\ m.searching \in BOOLEAN /\ m.typed \in BOOLEAN
  /\ m.query \in BOOLEAN /\ m.asking \in BOOLEAN
  /\ m.open => log.open
  /\ m.job = log.job /\ m.state = log.state /\ m.of = log.of /\ m.raw = log.raw

\* Such a change leaves the view in order.
LEMMA WithinKeeps ==
  ASSUME LogInv, OfItsJob, Within(log'), logOut' \in [Job -> Nat]
  PROVE  LogInv' /\ OfItsJob' /\ Stays
BY DEF LogInv, Fields13, LogTypeOK, OfItsJob, Stays, Within

\* The cursor is clamped by itself.
LEMMA ClampIsWithin ==
  ASSUME NEW m, Within(m)
  PROVE  Within(ClampLine(m))
<1>. DEFINE c == IF m.cursor > Len(VisibleLines(m.blocks))
                 THEN LastOr1(Len(VisibleLines(m.blocks))) ELSE m.cursor
<1>1. ClampLine(m) = [m EXCEPT !.cursor = c]  BY DEF ClampLine
<1>. HIDE DEF c
<1>. QED BY <1>1 DEF Within

\* A search that is accepted.
LEMMA SearchIsWithin ==
  ASSUME LogInv
  PROVE  Within(ApplySearch(log))
<1>1. Within(NoSearch(log))
  BY DEF NoSearch, Within, LogInv, Fields13, ClosedLog, LogTypeOK
<1>. DEFINE begun == [log EXCEPT !.searching = FALSE, !.query = TRUE, !.at = 1]
            m == Collect(begun)
<1>2. Within(begun)
  BY DEF Within, LogInv, Fields13, ClosedLog, LogTypeOK
<1>3. Within(m)
  <2>. DEFINE all == Expanded(begun.blocks)
              hits == Hits(VisibleLines(all))
  <2>1. m = [begun EXCEPT !.blocks = all, !.matches = hits]  BY DEF Collect
  <2>. HIDE DEF all, hits, begun, m
  <2>. QED BY <1>2, <2>1 DEF Within
<1>. HIDE DEF begun
<1>4. Within([m EXCEPT !.cursor = m.matches[1]])
  <2>. HIDE DEF m
  <2>. QED BY <1>3 DEF Within
<1>5. Within(ClampLine([m EXCEPT !.cursor = m.matches[1]]))  BY <1>4, ClampIsWithin
<1>6. ApplySearch(log) \in {NoSearch(log), m, ClampLine([m EXCEPT !.cursor = m.matches[1]])}
  BY DEF ApplySearch, begun
<1>. QED BY <1>1, <1>3, <1>5, <1>6

\* Every key of an open log.
LEMMA LogKeyKeeps ==
  ASSUME LogInv, OfItsJob, LogKey
  PROVE  LogInv' /\ OfItsJob' /\ Stays
<1>. USE DEF LogInv, Fields13, ClosedLog, LogTypeOK
<1>1. logOut' \in [Job -> Nat]
  <2>1. CASE UNCHANGED logOut  BY <2>1
  <2>2. CASE Refetch
    <3>1. logOut' = [logOut EXCEPT ![log.job] = @ + 1]  BY <2>2 DEF Refetch
    <3>2. logOut \in [Job -> Nat]  OBVIOUS
    <3>3. logOut' = [x \in Job |-> IF x = log.job THEN logOut[x] + 1 ELSE logOut[x]]
      BY <3>1, <3>2, Zenon
    <3>4. \A x \in Job : logOut[x] \in Nat  BY <3>2
    <3>. QED BY <3>3, <3>4
  <2>. QED BY <2>1, <2>2 DEF LogKey, ConfirmKey, SearchKey, PlainKey
<1>2. ASSUME log' \in {ApplySearch(log), [log EXCEPT !.searching = FALSE, !.typed = FALSE],
                       [log EXCEPT !.typed = ~@]}
      PROVE  Within(log')
  BY <1>2, SearchIsWithin DEF Within
<1>3. ASSUME MoveMatch(TRUE) \/ MoveMatch(FALSE)  PROVE Within(log')
  <2>1. PICK k : log' = ClampLine([log EXCEPT !.at = k, !.cursor = log.matches[k]])
    BY <1>3 DEF MoveMatch
  <2>2. Within([log EXCEPT !.at = k, !.cursor = log.matches[k]])  BY DEF Within
  <2>. QED BY <2>1, <2>2, ClampIsWithin
<1>4. ASSUME ConfirmKey \/ CloseLog \/ MoveLine \/ OpenSearch \/ OpenDelete
      PROVE  Within(log')
  <2>1. CASE ConfirmKey  BY <2>1 DEF ConfirmKey, Within
  <2>2. CASE CloseLog  BY <2>2 DEF CloseLog, Within
  <2>3. CASE MoveLine  BY <2>3 DEF MoveLine, Within
  <2>4. CASE OpenSearch  BY <2>4 DEF OpenSearch, Within
  <2>5. CASE OpenDelete
    <3>. DEFINE asks == log.job[1] \in Writable
    <3>1. log' = [log EXCEPT !.asking = asks] /\ asks \in BOOLEAN  BY <2>5 DEF OpenDelete
    <3>. HIDE DEF asks
    <3>. QED BY <3>1 DEF Within
  <2>. QED BY <1>4, <2>1, <2>2, <2>3, <2>4, <2>5
<1>5. ASSUME ToggleFold PROVE Within(log')
  BY <1>5 DEF ToggleFold, Within
<1>6. ASSUME UNCHANGED log PROVE Within(log')
  BY <1>6 DEF Within
<1>7. Within(log')
  BY <1>2, <1>3, <1>4, <1>5, <1>6 DEF LogKey, SearchKey, PlainKey, Refetch
<1>. QED BY <1>1, <1>7, WithinKeeps

\* An answer to the fetch of a Job.
LEMMA FetchedKeeps ==
  ASSUME LogInv, OfItsJob, NEW j \in Job, Fetched(j)
  PROVE  LogInv' /\ OfItsJob' /\ Stays
<1>. USE DEF LogInv, Fields13, ClosedLog, LogTypeOK
<1>1. logOut' \in [Job -> Nat]  BY DEF Fetched
<1>2. PICK raw \in Bytes :
        log' = IF ~ForThisJob(j) THEN log
               ELSE IF raw = <<>>
               THEN [log EXCEPT !.state = "empty", !.of = j, !.raw = <<>>, !.blocks = <<>>]
               ELSE NoSearch([log EXCEPT !.state = "loaded", !.of = j, !.raw = raw,
                                !.blocks = ParseLog(raw), !.cursor = 1])
  BY DEF Fetched
<1>3. CASE UNCHANGED log  BY <1>1, <1>3 DEF OfItsJob, Stays
<1>4. CASE ForThisJob(j) /\ raw = <<>>
  <2>1. log' = [log EXCEPT !.state = "empty", !.of = j, !.raw = <<>>, !.blocks = <<>>]
    BY <1>2, <1>4
  <2>. QED BY <1>1, <2>1, <1>4 DEF OfItsJob, Stays
<1>5. CASE ForThisJob(j) /\ raw # <<>>
  <2>. DEFINE b == ParseLog(raw)
  <2>1. log' = NoSearch([log EXCEPT !.state = "loaded", !.of = j, !.raw = raw,
                                !.blocks = b, !.cursor = 1])
    BY <1>2, <1>5
  <2>. HIDE DEF b
  <2>2. log'.raw \in Body \cup {<<>>}  BY <2>1 DEF Bytes, NoSearch
  <2>. QED BY <1>1, <2>1, <2>2, <1>5 DEF OfItsJob, Stays, NoSearch, ForThisJob
<1>. QED BY <1>2, <1>3, <1>4, <1>5

-----------------------------------------------------------------------------
\* The decision pane by itself: of its types, with its writes in a sequence.
Write == [to : Asker, kind : {"fork", "deploy"}, envs : {0} \cup Asker, approve : BOOLEAN]
ApprovalInv == ApprovalTypeOK /\ writes \in Seq(Write)
                /\ (ask.open => ask.run \in Asker /\ ask.kind \in {"fork", "deploy"})

\* A pane that opens.
LEMMA OpenApprovalKeeps ==
  ASSUME ApprovalInv, NEW r \in Asker, OpenApproval(r)
  PROVE  ApprovalInv' /\ ask'.open = TRUE
<1>. DEFINE isDeploy == waits[r] = "deploy"
<1>1. /\ ask' = [ClosedAsk EXCEPT !.open = TRUE, !.run = r, !.kind = waits[r], !.loading = isDeploy]
      /\ UNCHANGED <<waits, writes>> /\ isDeploy \in BOOLEAN /\ waits[r] \in {"fork", "deploy"}
  BY DEF OpenApproval, ApprovalInv, ApprovalTypeOK, Kind
<1>2. loads' \in [Asker -> Nat]
  BY DEF OpenApproval, ApprovalInv, ApprovalTypeOK
<1>. HIDE DEF isDeploy
<1>. QED BY <1>1, <1>2 DEF ApprovalInv, ApprovalTypeOK, ClosedAsk, Kind, Write

\* The environments of a Run.
LEMMA DeploymentsKeep ==
  ASSUME ApprovalInv, NEW r \in Asker, DeploymentsLoaded(r)
  PROVE  ApprovalInv' /\ ask'.open = ask.open
<1>1. loads' \in [Asker -> Nat] /\ UNCHANGED <<waits, writes>>
  <2>1. /\ loads' = [loads EXCEPT ![r] = @ - 1] /\ loads[r] > 0 /\ loads \in [Asker -> Nat]
        /\ UNCHANGED <<waits, writes>>
    BY DEF DeploymentsLoaded, ApprovalInv, ApprovalTypeOK
  <2>. QED BY <2>1
<1>2. CASE UNCHANGED ask  BY <1>1, <1>2 DEF ApprovalInv, ApprovalTypeOK
<1>3. CASE \E e \in Environments(r) : ask' = [ask EXCEPT !.loading = FALSE, !.envs = e]
  <2>1. PICK e \in Environments(r) : ask' = [ask EXCEPT !.loading = FALSE, !.envs = e]
    BY <1>3
  <2>2. e \in {0} \cup Asker  BY DEF Environments
  <2>. QED BY <1>1, <2>1, <2>2 DEF ApprovalInv, ApprovalTypeOK
<1>4. CASE ask' = [ask EXCEPT !.loading = FALSE]
  BY <1>1, <1>4 DEF ApprovalInv, ApprovalTypeOK
<1>. QED BY <1>2, <1>3, <1>4 DEF DeploymentsLoaded

\* A write that is answered.
LEMMA ReviewedKeeps ==
  ASSUME ApprovalInv, NEW k \in DOMAIN writes, Reviewed(k)
  PROVE  ApprovalInv' /\ ask'.open = ask.open
<1>1. writes' \in Seq(Write) /\ UNCHANGED <<waits, loads>>
  <2>. HIDE DEF Write
  <2>1. k \in 1..Len(writes) /\ writes \in Seq(Write)  BY DEF ApprovalInv
  <2>. QED BY <2>1 DEF Reviewed, RemoveAt
<1>2. \A x \in DOMAIN writes' : writes'[x] \in Write
  <2>. HIDE DEF Write
  <2>. QED BY <1>1
<1>3. CASE UNCHANGED ask
  BY <1>1, <1>2, <1>3 DEF ApprovalInv, ApprovalTypeOK, Write
<1>4. ASSUME NEW final \in BOOLEAN, ask' = Outcome(final)
      PROVE  ApprovalInv' /\ ask'.open = ask.open
  BY <1>1, <1>2, <1>4 DEF ApprovalInv, ApprovalTypeOK, Write, Outcome
<1>. QED BY <1>3, <1>4 DEF Reviewed

\* Every key of an open decision.
LEMMA ApprovalKeyKeeps ==
  ASSUME ApprovalInv, ApprovalKey
  PROVE  ApprovalInv'
<1>. USE DEF ApprovalInv, ApprovalTypeOK
<1>1. UNCHANGED <<waits, loads>> /\ ask.open  BY DEF ApprovalKey
<1>2. CASE UNCHANGED writes
  <2>1. ASSUME EditKey PROVE ApprovalInv'
    BY <1>1, <1>2, <2>1 DEF EditKey
  <2>2. ASSUME ask' = [ask EXCEPT !.open = FALSE] PROVE ApprovalInv'
    BY <1>1, <1>2, <2>2
  <2>3. ASSUME ask' = [ask EXCEPT !.approve = ~@] PROVE ApprovalInv'
    BY <1>1, <1>2, <2>3
  <2>4. ASSUME ask' = [ask EXCEPT !.editing = TRUE, !.typed = ask.comment] PROVE ApprovalInv'
    BY <1>1, <1>2, <2>4
  <2>5. ASSUME Submit PROVE ApprovalInv'
    <3>1. writes' = Append(writes, Decision)  BY <2>5 DEF Submit
    <3>2. Len(writes') = Len(writes) + 1  BY <3>1
    <3>. QED BY <1>2, <3>2
  <2>. QED BY <2>1, <2>2, <2>3, <2>4, <2>5 DEF ApprovalKey, PaneKey
<1>3. CASE Submit
  <2>1. ask' = [ask EXCEPT !.submitting = TRUE] /\ writes' = Append(writes, Decision)
    BY <1>3 DEF Submit
  <2>2. Decision \in Write
    <3>1. ask.run \in Asker /\ ask.kind \in {"fork", "deploy"} /\ ask.approve \in BOOLEAN
          /\ ask.envs \in {0} \cup Asker
      BY <1>1
    <3>. QED BY <3>1 DEF Decision, Write
  <2>3. writes' \in Seq(Write) /\ \A x \in DOMAIN writes' : writes'[x] \in Write
    <3>. HIDE DEF Write
    <3>1. writes' \in Seq(Write)  BY <2>1, <2>2
    <3>. QED BY <3>1
  <2>. QED BY <1>1, <2>1, <2>3 DEF Write
<1>. QED BY <1>2, <1>3 DEF ApprovalKey, EditKey, PaneKey

\* A Run that moves on.
LEMMA MovesKeep ==
  ASSUME ApprovalInv, NEW r \in Asker, Moves(r)
  PROVE  ApprovalInv' /\ UNCHANGED ask
<1>1. UNCHANGED <<ask, loads, writes>>  BY DEF Moves
<1>2. waits' \in [Asker -> Kind]
  <2>1. PICK f \in Fields : waits' = [waits EXCEPT ![r] = Classify(f[1], f[2])]  BY DEF Moves
  <2>2. Classify(f[1], f[2]) \in Kind  BY DEF Classify, Kind
  <2>. QED BY <2>1, <2>2 DEF ApprovalInv, ApprovalTypeOK
<1>. QED BY <1>1, <1>2 DEF ApprovalInv, ApprovalTypeOK

-----------------------------------------------------------------------------
\* The panes together: the pane on screen knows its Run, and a log in an open
\* pane is of that Run.
Shows ==
  /\ detailOpen => pane.open /\ pane.run # 0 /\ (pane.live <=> pane.run \in going)
  /\ pane.open /\ log.open => log.job[1] = pane.run
  /\ OfItsJob
DetailSide == DetailInv /\ LogInv /\ Shows
PanesInv ==
  /\ DetailSide /\ under \in {0} \cup Run
  /\ ApprovalInv /\ approvalOpen = ask.open

\* A log that is closed, or left as it is, is still in order.
LEMMA LogClosed ==
  ASSUME LogInv, OfItsJob, UNCHANGED logOut,
         log' \in {log, [log EXCEPT !.open = FALSE]}
  PROVE  LogInv' /\ OfItsJob' /\ Stays
<1>1. logOut' \in [Job -> Nat]  BY DEF LogInv, LogTypeOK
<1>2. Within(log')  BY DEF Within, LogInv, Fields13, ClosedLog, LogTypeOK
<1>. QED BY <1>1, <1>2, WithinKeeps

\* The report of where the cursor is.
LEMMA RetargetKeeps ==
  ASSUME DetailSide, NEW u \in {0} \cup Run, NEW g \in SUBSET Run, Retarget(u, g), going' = g,
         UNCHANGED <<exhausted, logOut>>
  PROVE  DetailSide'
<1>1. CASE detailOpen /\ u # 0
  <2>1. SelectRun(u, g) /\ UNCHANGED detailOpen /\ log' = LogLeft(u)
    BY <1>1 DEF Retarget
  <2>2. u \in Run /\ pane.open /\ pane' = Target(pane, u, g) /\ flight' = Armed(pane, u)
    BY <1>1, <2>1 DEF SelectRun, DetailSide, Shows
  <2>3. flight' \in [Trip -> [Run -> Nat]]
    <3>1. "settle" \in Trip  BY DEF Trip
    <3>. QED BY <2>2, <3>1, TripsAreCounted DEF Armed, DetailSide, DetailInv, DetailTypeOK
  <2>4. DetailInv' /\ pane'.run = u /\ pane'.live = (u \in g)
    BY <2>2, <2>3, TargetIsOver DEF DetailSide
  <2>5. log' \in {log, [log EXCEPT !.open = FALSE]}  BY <2>1 DEF LogLeft
  <2>6. LogInv' /\ OfItsJob' /\ Stays  BY <2>5, LogClosed DEF DetailSide, Shows
  <2>7. pane'.open = pane.open  BY <2>2, <2>3, TargetIsOver DEF DetailSide
  <2>8. log'.open => log'.job[1] = u
    <3>1. CASE Fresh(pane, u)
      <4>1. log' = [log EXCEPT !.open = FALSE]  BY <2>1, <3>1 DEF LogLeft
      <4>2. log'.open = FALSE
        BY <4>1 DEF DetailSide, LogInv, Fields13, ClosedLog
      <4>. QED BY <4>2
    <3>2. CASE ~Fresh(pane, u)
      BY <2>1, <2>2, <3>2 DEF LogLeft, Fresh, DetailSide, Shows
    <3>. QED BY <3>1, <3>2
  <2>. QED BY <1>1, <2>1, <2>2, <2>4, <2>6, <2>7, <2>8, DetailAssumption DEF DetailSide, Shows
<1>2. CASE ~(detailOpen /\ u # 0)
  <2>1. UNCHANGED <<pane, flight, log>> /\ (detailOpen' = FALSE \/ (~detailOpen /\ UNCHANGED detailOpen))
    BY <1>2 DEF Retarget
  <2>2. DetailInv'
    BY <2>1 DEF DetailSide, DetailInv, DetailTypeOK, Over
  <2>3. LogInv' /\ OfItsJob'  BY <2>1, LogClosed DEF DetailSide, Shows
  <2>. QED BY <2>1, <2>2, <2>3 DEF DetailSide, Shows
<1>. QED BY <1>1, <1>2

\* The list repainted, or the cursor moved.
LEMMA RowsKeep ==
  ASSUME DetailSide, under \in {0} \cup Run, Repaint \/ MoveRow \/ Narrow
  PROVE  DetailSide' /\ under' \in {0} \cup Run
<1>1. CASE Repaint  BY <1>1, RetargetKeeps DEF Repaint
<1>2. CASE MoveRow
  <2>1. going \in SUBSET Run  BY DEF DetailSide, DetailInv, DetailTypeOK
  <2>. QED BY <1>2, <2>1, RetargetKeeps DEF MoveRow
<1>3. CASE Narrow
  <2>1. UNCHANGED <<going, pane, exhausted, flight, log, logOut, detailOpen>>
        /\ under' \in {0} \cup Run
    BY <1>3 DEF Narrow, detailVars, logVars
  <2>. QED BY <2>1 DEF DetailSide, DetailInv, DetailTypeOK, Over, LogInv, Fields13, LogTypeOK,
                       Shows, OfItsJob
<1>. QED BY <1>1, <1>2, <1>3

\* The pane opened, focused or closed.
LEMMA PaneKeysKeep ==
  ASSUME DetailSide, under \in {0} \cup Run, OpenDetail \/ CloseDetail
  PROVE  DetailSide' /\ under' \in {0} \cup Run
<1>1. CASE detailOpen /\ OpenDetail
  <2>1. /\ pane' = [pane EXCEPT !.active = pane.open \/ @]
        /\ UNCHANGED <<under, detailOpen, going, exhausted, flight, log, logOut>>
    BY <1>1 DEF OpenDetail, FocusPane, logVars
  <2>2. pane.open = TRUE  BY <1>1 DEF DetailSide, Shows, DetailInv, DetailTypeOK
  <2>3. pane' = [pane EXCEPT !.active = TRUE]  BY <2>1, <2>2
  <2>4. DetailInv' /\ SamePane
    BY <2>1, <2>3 DEF DetailSide, DetailInv, DetailTypeOK, Over, SamePane
  <2>5. LogInv' /\ OfItsJob'  BY <2>1, LogClosed DEF DetailSide, Shows
  <2>. QED BY <2>1, <2>4, <2>5 DEF DetailSide, Shows, SamePane
<1>2. CASE ~detailOpen /\ OpenDetail
  <2>1. /\ detailOpen' = TRUE /\ OpenPane(under) /\ log' = [log EXCEPT !.open = FALSE]
        /\ UNCHANGED <<under, going, exhausted, logOut>> /\ under \in Run
    BY <1>2 DEF OpenDetail
  <2>. DEFINE p == [pane EXCEPT !.open = TRUE, !.run = 0]
  <2>2. pane' = Target(p, under, going) /\ flight' = Armed(p, under)
    BY <2>1 DEF OpenPane
  <2>3. flight' \in [Trip -> [Run -> Nat]]
    <3>1. "settle" \in Trip  BY DEF Trip
    <3>. QED BY <2>1, <2>2, <3>1, TripsAreCounted DEF Armed, DetailSide, DetailInv, DetailTypeOK
  <2>4. going \in SUBSET Run  BY DEF DetailSide, DetailInv, DetailTypeOK
  <2>5. /\ DetailInv' /\ pane'.run = under /\ pane'.live = (under \in going)
        /\ pane' = Target(pane, under, going) => pane'.open = pane.open
        /\ pane' # Target(pane, under, going) => pane'.open
    BY <2>1, <2>2, <2>3, <2>4, TargetIsOver DEF DetailSide
  <2>6. pane'.open
    BY <2>1, <2>2, DetailAssumption DEF Target, Fresh, DetailSide, DetailInv, DetailTypeOK
  <2>7. LogInv' /\ OfItsJob'  BY <2>1, LogClosed DEF DetailSide, Shows
  <2>8. log'.open = FALSE  BY <2>1 DEF DetailSide, LogInv, Fields13, ClosedLog
  <2>. QED BY <2>1, <2>5, <2>6, <2>7, <2>8, DetailAssumption DEF DetailSide, Shows
<1>3. CASE CloseDetail
  <2>1. /\ detailOpen' = FALSE /\ pane' = [pane EXCEPT !.open = FALSE, !.active = FALSE]
        /\ log' = [log EXCEPT !.open = FALSE] /\ UNCHANGED <<under, going, exhausted, flight, logOut>>
    BY <1>3 DEF CloseDetail, ClosePane
  <2>2. DetailInv'
    BY <2>1 DEF DetailSide, DetailInv, DetailTypeOK, Over
  <2>3. LogInv' /\ OfItsJob'  BY <2>1, LogClosed DEF DetailSide, Shows
  <2>4. log'.open = FALSE  BY <2>1 DEF DetailSide, LogInv, Fields13, ClosedLog
  <2>. QED BY <2>1, <2>2, <2>3, <2>4 DEF DetailSide, Shows
<1>. QED BY <1>1, <1>2, <1>3

\* A key in the pane.
LEMMA DetailKeyKeeps ==
  ASSUME DetailSide, DetailKey
  PROVE  DetailSide' /\ UNCHANGED under
<1>. UNCHANGED <<under, detailOpen, going, exhausted, flight>>  BY DEF DetailKey
<1>1. CASE LogKey /\ UNCHANGED pane
  <2>1. DetailInv'  BY <1>1 DEF DetailSide, DetailInv, DetailTypeOK, Over
  <2>2. LogInv' /\ OfItsJob' /\ Stays  BY <1>1, LogKeyKeeps DEF DetailSide, Shows
  <2>. QED BY <1>1, <2>1, <2>2 DEF DetailSide, Shows, Stays
<1>2. CASE (LeaveJobs \/ MoveJob) /\ UNCHANGED logVars
  <2>1. LogInv' /\ OfItsJob' /\ UNCHANGED log
    BY <1>2, LogClosed DEF DetailSide, Shows, logVars
  <2>2. DetailInv' /\ SamePane
    <3>1. CASE LeaveJobs
      BY <3>1 DEF LeaveJobs, DetailSide, DetailInv, DetailTypeOK, Over, SamePane
    <3>2. CASE MoveJob
      <4>1. PICK x \in 0..pane.jobs - 1 : pane' = [pane EXCEPT !.row = x]  BY <3>2 DEF MoveJob
      <4>2. pane.jobs > 0 /\ pane.jobs \in 0..MaxJobs /\ MaxJobs \in Nat
        BY <3>2, DetailAssumption DEF MoveJob, DetailSide, DetailInv, DetailTypeOK
      <4>3. x \in 0..MaxJobs /\ x <= pane.jobs - 1  BY <4>2
      <4>. QED BY <4>1, <4>2, <4>3 DEF DetailSide, DetailInv, DetailTypeOK, Over, SamePane
    <3>. QED BY <1>2, <3>1, <3>2
  <2>. QED BY <2>1, <2>2 DEF DetailSide, Shows, SamePane
<1>3. CASE pane.jobs > 0 /\ OpenLog(<<pane.run, pane.row + 1>>) /\ UNCHANGED pane
  <2>. DEFINE j == <<pane.run, pane.row + 1>>
  <2>1. j \in Job
    <3>1. pane.run \in Run
      BY <1>3 DEF DetailSide, DetailInv, DetailTypeOK, Over
    <3>2. pane.row + 1 \in 1..MaxJobs
      BY <1>3, DetailAssumption DEF DetailSide, DetailInv, DetailTypeOK
    <3>. QED BY <3>1, <3>2 DEF Job
  <2>2. DetailInv'  BY <1>3 DEF DetailSide, DetailInv, DetailTypeOK, Over
  <2>3. j[1] = pane.run  OBVIOUS
  <2>4. log' = [ClosedLog EXCEPT !.open = TRUE, !.job = j] /\ logOut' = [logOut EXCEPT ![j] = @ + 1]
    BY <1>3 DEF OpenLog
  <2>. HIDE DEF j
  <2>5. LogInv' /\ OfItsJob' /\ log'.job = j
    BY <2>1, <2>4 DEF DetailSide, LogInv, LogTypeOK, Fields13, ClosedLog, OfItsJob
  <2>. QED BY <1>3, <2>2, <2>3, <2>5 DEF DetailSide, Shows
<1>. QED BY <1>1, <1>2, <1>3 DEF DetailKey, JobFocusKey

\* A key over the list, or in the detail pane over it.
LEMMA DetailSideKeyKeeps ==
  ASSUME PanesInv, DetailSideKey
  PROVE  PanesInv'
<1>1. UNCHANGED <<waits, ask, loads, writes, approvalOpen>>
  BY DEF DetailSideKey, approvalVars
<1>2. ApprovalInv' /\ approvalOpen' = ask'.open
  BY <1>1 DEF PanesInv, ApprovalInv, ApprovalTypeOK
<1>3. DetailSide' /\ under' \in {0} \cup Run
  BY DetailKeyKeeps, RowsKeep, PaneKeysKeep DEF DetailSideKey, PanesInv
<1>. QED BY <1>2, <1>3 DEF PanesInv

\* And one over the list, or in the decision over it.
LEMMA ApprovalSideKeyKeeps ==
  ASSUME PanesInv, ApprovalSideKey
  PROVE  PanesInv'
<1>1. UNCHANGED <<going, pane, exhausted, flight, log, logOut, detailOpen>>
  BY DEF ApprovalSideKey, detailVars, logVars
<1>2. DetailSide'
  BY <1>1 DEF PanesInv, DetailSide, DetailInv, DetailTypeOK, Over, LogInv, Fields13, LogTypeOK,
              Shows, OfItsJob
<1>3. ApprovalInv' /\ approvalOpen' = ask'.open /\ under' \in {0} \cup Run
  <2>1. CASE approvalOpen
    BY <2>1, ApprovalKeyKeeps DEF ApprovalSideKey, PanesInv
  <2>2. CASE ~approvalOpen /\ UNCHANGED <<approvalVars, approvalOpen>> /\ under' \in Run
    BY <2>2 DEF PanesInv, ApprovalInv, ApprovalTypeOK, approvalVars
  <2>3. CASE /\ ~approvalOpen /\ under \in Asker /\ OpenApproval(under)
             /\ approvalOpen' = TRUE /\ UNCHANGED under
    BY <2>3, OpenApprovalKeeps DEF PanesInv
  <2>. QED BY <2>1, <2>2, <2>3 DEF ApprovalSideKey
<1>. QED BY <1>2, <1>3 DEF PanesInv

\* What comes from outside the keys.
LEMMA WorldKeeps ==
  ASSUME PanesInv, DetailSideWorld \/ ApprovalSideWorld \/ Landing
  PROVE  PanesInv'
<1>. DEFINE rest == <<logVars, approvalVars, under, detailOpen, approvalOpen>>
<1>1. CASE Repaint
  <2>1. UNCHANGED <<waits, ask, loads, writes, approvalOpen>>
    BY <1>1 DEF Repaint, approvalVars
  <2>2. DetailSide' /\ under' \in {0} \cup Run  BY <1>1, RowsKeep DEF PanesInv
  <2>. QED BY <2>1, <2>2 DEF PanesInv, ApprovalInv, ApprovalTypeOK
<1>2. CASE (Readout \/ Arrival) /\ UNCHANGED rest
  <2>1. DetailInv' /\ SamePane /\ UNCHANGED going
    BY <1>2, ReadoutKeeps, SettleKeeps, RefreshKeeps, JobsKeep DEF Arrival, PanesInv, DetailSide
  <2>2. UNCHANGED <<waits, ask, loads, writes, approvalOpen, log, logOut, detailOpen, under>>
    BY <1>2 DEF approvalVars, logVars
  <2>3. LogInv' /\ OfItsJob'  BY <2>2, LogClosed DEF PanesInv, DetailSide, Shows
  <2>4. ApprovalInv' /\ approvalOpen' = ask'.open /\ under' \in {0} \cup Run
    BY <2>2 DEF PanesInv, ApprovalInv, ApprovalTypeOK
  <2>5. Shows'  BY <2>1, <2>2, <2>3 DEF SamePane, Shows, PanesInv, DetailSide
  <2>. QED BY <2>1, <2>3, <2>4, <2>5 DEF PanesInv, DetailSide
<1>3. CASE /\ (\E j \in Job : Fetched(j))
           /\ UNCHANGED <<detailVars, approvalVars, under, detailOpen, approvalOpen>>
  <2>1. LogInv' /\ OfItsJob' /\ Stays
    BY <1>3, FetchedKeeps DEF PanesInv, DetailSide, Shows
  <2>2. UNCHANGED <<waits, ask, loads, writes, approvalOpen, going, pane, exhausted, flight,
                    detailOpen, under>>
    BY <1>3 DEF approvalVars, detailVars
  <2>3. DetailInv'  BY <2>2 DEF PanesInv, DetailSide, DetailInv, DetailTypeOK, Over
  <2>4. ApprovalInv' /\ approvalOpen' = ask'.open /\ under' \in {0} \cup Run
    BY <2>2 DEF PanesInv, ApprovalInv, ApprovalTypeOK
  <2>5. Shows'  BY <2>1, <2>2 DEF Stays, Shows, PanesInv, DetailSide
  <2>. QED BY <2>1, <2>3, <2>4, <2>5 DEF PanesInv, DetailSide
<1>4. CASE /\ (\E r \in Asker : Moves(r)) \/ AnswerLands
           /\ UNCHANGED <<detailVars, logVars, under, detailOpen, approvalOpen>>
  <2>1. ApprovalInv' /\ ask'.open = ask.open
    BY <1>4, MovesKeep, DeploymentsKeep, ReviewedKeeps DEF AnswerLands, PanesInv
  <2>2. UNCHANGED <<approvalOpen, going, pane, exhausted, flight, log, logOut, detailOpen, under>>
    BY <1>4 DEF logVars, detailVars
  <2>3. DetailSide'
    BY <2>2 DEF PanesInv, DetailSide, DetailInv, DetailTypeOK, Over, LogInv, Fields13, LogTypeOK,
                Shows, OfItsJob
  <2>. QED BY <2>1, <2>2, <2>3 DEF PanesInv
<1>. QED BY <1>1, <1>2, <1>3, <1>4 DEF DetailSideWorld, ApprovalSideWorld, Landing

\* At rest, or with a log open over a Job that is loaded, it holds.
LEMMA PanesStart == PanesInit => PanesInv
<1>. SUFFICES ASSUME PanesInit PROVE PanesInv  OBVIOUS
<1>1. ApprovalInit => ApprovalInv /\ ask.open = FALSE
  <2>1. \A f \in Fields : Classify(f[1], f[2]) \in Kind  BY DEF Classify, Kind
  <2>. QED BY <2>1 DEF ApprovalInit, ApprovalInv, ApprovalTypeOK, ClosedAsk, Kind
<1>2. CASE AtRestInit
  <2>1. DetailInv
    <3>1. /\ going \in SUBSET Run /\ pane = ClosedPane /\ exhausted = FALSE
          /\ flight = [k \in Trip |-> [x \in Run |-> 0]]
      BY <1>2 DEF AtRestInit, DetailInit
    <3>2. flight \in [Trip -> [Run -> Nat]]  BY <3>1
    <3>3. pane \in [open : BOOLEAN, run : {0} \cup Run, live : BOOLEAN,
                       state : {"pending", "loaded", "none"}, jobs : 0..MaxJobs, of : {0} \cup Run,
                       fetching : BOOLEAN, active : BOOLEAN, row : 0..MaxJobs]
      BY <3>1, DetailAssumption DEF ClosedPane
    <3>4. /\ pane.row = 0 /\ pane.jobs = 0 /\ pane.of = 0 /\ pane.run = 0 /\ pane.state = "pending"
      BY <3>1 DEF ClosedPane
    <3>5. Over  BY <3>4 DEF Over
    <3>6. pane.row <= (IF pane.jobs = 0 THEN 0 ELSE pane.jobs - 1)  BY <3>4
    <3>. QED BY <3>1, <3>2, <3>3, <3>5, <3>6 DEF DetailInv, DetailTypeOK
  <2>2. LogInv /\ OfItsJob /\ log.open = FALSE
    BY <1>2 DEF AtRestInit, LogInit, LogInv, Fields13, LogTypeOK, ClosedLog, OfItsJob
  <2>3. detailOpen = FALSE /\ approvalOpen = FALSE /\ under \in {0} \cup Run /\ ApprovalInit
    BY <1>2 DEF AtRestInit
  <2>. QED BY <1>1, <2>1, <2>2, <2>3 DEF PanesInv, DetailSide, Shows
<1>3. CASE AtLogInit
  <2>1. PICK r \in Run :
    /\ going = {} /\ exhausted = FALSE /\ under = r /\ detailOpen = TRUE
    /\ pane = [ClosedPane EXCEPT !.open = TRUE, !.run = r, !.state = "loaded", !.jobs = 1,
                                  !.of = r, !.active = TRUE]
    /\ flight = [k \in Trip |-> [x \in Run |-> 0]]
    /\ log = [ClosedLog EXCEPT !.open = TRUE, !.job = <<r, 1>>]
    /\ logOut = [j \in Job |-> IF j = <<r, 1>> THEN 1 ELSE 0]
    /\ ApprovalInit /\ approvalOpen = FALSE
    BY <1>3 DEF AtLogInit
  <2>2. DetailInv /\ pane.run = r /\ pane.live = FALSE /\ pane.open
    <3>1. flight \in [Trip -> [Run -> Nat]]  BY <2>1
    <3>2. pane \in [open : BOOLEAN, run : {0} \cup Run, live : BOOLEAN,
                       state : {"pending", "loaded", "none"}, jobs : 0..MaxJobs, of : {0} \cup Run,
                       fetching : BOOLEAN, active : BOOLEAN, row : 0..MaxJobs]
      <4>1. 1 \in 0..MaxJobs /\ 0 \in 0..MaxJobs  BY DetailAssumption
      <4>. QED BY <2>1, <4>1 DEF ClosedPane
    <3>3. /\ pane.row = 0 /\ pane.jobs = 1 /\ pane.of = r /\ pane.run = r /\ pane.state = "loaded"
          /\ pane.live = FALSE /\ pane.open = TRUE
      BY <2>1 DEF ClosedPane
    <3>4. Over  BY <3>3, DetailAssumption DEF Over
    <3>5. pane.row <= (IF pane.jobs = 0 THEN 0 ELSE pane.jobs - 1)  BY <3>3
    <3>. QED BY <2>1, <3>1, <3>2, <3>3, <3>4, <3>5 DEF DetailInv, DetailTypeOK
  <2>3. LogInv /\ OfItsJob /\ log.job = <<r, 1>>
    <3>. DEFINE j == <<r, 1>>
    <3>1. j \in Job  BY DetailAssumption DEF Job
    <3>2. log = [ClosedLog EXCEPT !.open = TRUE, !.job = j]
          /\ logOut = [x \in Job |-> IF x = j THEN 1 ELSE 0]
      BY <2>1
    <3>. HIDE DEF j
    <3>3. logOut \in [Job -> Nat]  BY <3>2
    <3>4. log.job = j /\ LogInv /\ OfItsJob
      BY <3>1, <3>2, <3>3 DEF LogInv, Fields13, LogTypeOK, ClosedLog, OfItsJob
    <3>. QED BY <3>4 DEF j
  <2>4. log.job[1] = r /\ r # 0  BY <2>3, DetailAssumption
  <2>5. Shows  BY <2>1, <2>2, <2>3, <2>4 DEF Shows
  <2>6. ApprovalInv /\ approvalOpen = ask.open  BY <1>1, <2>1
  <2>. QED BY <2>1, <2>2, <2>3, <2>5, <2>6 DEF PanesInv, DetailSide
<1>. QED BY <1>2, <1>3 DEF PanesInit

\* Whatever keys are pressed, whatever the world does and however late the
\* answers are, the panes stay so.
THEOREM PanesStayInOrder == PanesSpec => []PanesInv
<1>1. PanesInv /\ [PanesNext]_panesVars => PanesInv'
  <2>. SUFFICES ASSUME PanesInv, [PanesNext]_panesVars PROVE PanesInv'  OBVIOUS
  <2>1. CASE PanesKey
    BY <2>1, DetailSideKeyKeeps, ApprovalSideKeyKeeps DEF PanesKey
  <2>2. CASE PanesWorld
    BY <2>2, WorldKeeps DEF PanesWorld
  <2>3. CASE PanesLand
    BY <2>3, WorldKeeps DEF PanesLand
  <2>4. CASE UNCHANGED panesVars
    BY <2>4 DEF panesVars, paneState, detailVars, logVars, approvalVars, PanesInv, DetailSide,
                DetailInv, DetailTypeOK, Over, LogInv, Fields13, LogTypeOK, Shows, OfItsJob,
                ApprovalInv, ApprovalTypeOK
  <2>. QED BY <2>1, <2>2, <2>3, <2>4 DEF PanesNext
<1>. QED BY <1>1, PanesStart, PTL DEF PanesSpec

\* The panes and what is in them are of their types, the selected Job is one the
\* pane has, and the Feed's flags agree with the panes' own.
THEOREM PanesTypes == PanesSpec => []PanesTypeOK
<1>1. PanesInv => PanesTypeOK
  BY DEF PanesInv, DetailSide, DetailInv, LogInv, ApprovalInv, Shows, PanesTypeOK
<1>. QED BY <1>1, PanesStayInOrder, PTL

\* What is in the panes is of their Run, in every behaviour of them.
LEMMA PanesAreOfTheirRun == PanesSpec => []PanesShowTheirRun
<1>1. PanesInv => PanesShowTheirRun
  BY DEF PanesInv, DetailSide, DetailInv, Over, Shows, OfItsJob, PanesShowTheirRun
<1>. QED BY <1>1, PanesStayInOrder, PTL

-----------------------------------------------------------------------------
(* The types of the root model and its Settings pane.                      *)

\* A write under way is of a whole mapping, and its keys are settings.
OfSettings(s) ==
  DOMAIN s.file.node = Setting /\ s.keys \subseteq Setting /\ s.past \subseteq Setting

\* What the invariant of the pane does not say of the types.
WritesTyped ==
  /\ DOMAIN disk.node = Setting /\ prefs.row \in Setting
  /\ saving = {} \/ (\E s : saving = {s})
  /\ \A s \in saving : OfSettings(s)
  /\ stored \subseteq Setting /\ byHand \subseteq Setting
  /\ leaving \in BOOLEAN /\ quit \in BOOLEAN

\* A pane is kept in its shape when it is put in it.
LEMMA PersistTyped ==
  ASSUME NEW p, Persist(p), byHand \subseteq Setting, p.row \in Setting, saving = {},
         p = [cfg |-> p.cfg, initial |-> p.initial, open |-> p.open, row |-> p.row,
              editing |-> p.editing, saveErr |-> p.saveErr]
  PROVE  /\ prefs'.row \in Setting /\ byHand' = byHand
         /\ saving' = {} \/ (\E s : saving' = {s})
         /\ \A s \in saving' : OfSettings(s)
<1>1. CASE Changed(p) = {}
  <2>1. prefs' = [p EXCEPT !.saveErr = FALSE] /\ UNCHANGED <<saving, byHand>>
    BY <1>1, Zenon DEF Persist
  <2>. QED BY <2>1
<1>2. CASE Changed(p) # {} /\ disk.kind \in {"unreadable", "broken"}
  <2>1. prefs' = [p EXCEPT !.saveErr = TRUE] /\ UNCHANGED <<saving, byHand>>
    BY <1>2, Zenon DEF Persist
  <2>. QED BY <2>1
<1>3. CASE Changed(p) # {} /\ disk.kind \notin {"unreadable", "broken"}
  <2>. DEFINE s == [file |-> ApplyChanges(disk, p), keys |-> Changed(p),
                    past |-> byHand \ Changed(p), raced |-> FALSE]
  <2>1. prefs' = p /\ saving' = {s} /\ UNCHANGED byHand
    BY <1>3, Zenon DEF Persist
  <2>2. OfSettings(s)  BY DEF OfSettings, ApplyChanges, Changed
  <2>. HIDE DEF s
  <2>. QED BY <2>1, <2>2
<1>. QED BY <1>1, <1>2, <1>3

\* The keys of the pane write settings, one write at a time.
LEMMA PaneKeyTyped ==
  ASSUME WritesTyped, SettingsInv, saving = {}, SettingsPaneKey, UNCHANGED <<disk, stored, leaving, quit>>
  PROVE  WritesTyped'
<1>1. PaneShaped(prefs) /\ prefs.row \in Setting /\ byHand \subseteq Setting
  BY DEF WritesTyped, SettingsInv
<1>2. ASSUME NEW p, p = [cfg |-> p.cfg, initial |-> p.initial, open |-> p.open, row |-> p.row,
                         editing |-> p.editing, saveErr |-> p.saveErr],
             p.row \in Setting, Persist(p)
      PROVE  WritesTyped'
  BY <1>1, <1>2, PersistTyped DEF WritesTyped
<1>3. ASSUME prefs'.row \in Setting, UNCHANGED <<saving, byHand>>  PROVE WritesTyped'
  BY <1>3 DEF WritesTyped
<1>4. CASE CycleKey
  <2>. DEFINE p == [prefs EXCEPT !.cfg.selector = NextChoice(@)]
  <2>1. p = [cfg |-> p.cfg, initial |-> p.initial, open |-> p.open, row |-> p.row,
             editing |-> p.editing, saveErr |-> p.saveErr] /\ p.row \in Setting
    BY <1>1 DEF PaneShaped
  <2>2. Persist(p)  BY <1>4 DEF CycleKey
  <2>. HIDE DEF p
  <2>. QED BY <1>2, <2>1, <2>2
<1>5. CASE CommitKey
  <2>1. CASE prefs' = [prefs EXCEPT !.editing = FALSE] /\ UNCHANGED <<saving, byHand>>
    <3>1. prefs'.row \in Setting  BY <1>1, <2>1 DEF PaneShaped
    <3>. QED BY <1>3, <2>1, <3>1
  <2>2. ASSUME NEW v, Persist([prefs EXCEPT !.cfg[prefs.row] = v, !.editing = FALSE])
        PROVE  WritesTyped'
    <3>. DEFINE p == [prefs EXCEPT !.cfg[prefs.row] = v, !.editing = FALSE]
    <3>1. p = [cfg |-> p.cfg, initial |-> p.initial, open |-> p.open, row |-> p.row,
               editing |-> p.editing, saveErr |-> p.saveErr] /\ p.row \in Setting
      <4>. DEFINE c == [prefs.cfg EXCEPT ![prefs.row] = v]
      <4>1. p = [cfg |-> c, initial |-> prefs.initial, open |-> prefs.open, row |-> prefs.row,
                 editing |-> FALSE, saveErr |-> prefs.saveErr]
        <5>1. p = [prefs EXCEPT !.cfg = c, !.editing = FALSE]  OBVIOUS
        <5>2. prefs = [cfg |-> prefs.cfg, initial |-> prefs.initial, open |-> prefs.open,
                       row |-> prefs.row, editing |-> prefs.editing, saveErr |-> prefs.saveErr]
          BY <1>1, Zenon DEF PaneShaped
        <5>. HIDE DEF p, c
        <5>. QED BY <5>1, <5>2
      <4>. HIDE DEF p, c
      <4>. QED BY <1>1, <4>1
    <3>2. Persist(p)  BY <2>2
    <3>. HIDE DEF p
    <3>. QED BY <1>2, <3>1, <3>2
  <2>. QED BY <1>5, <2>1, <2>2, Zenon DEF CommitKey
<1>6. CASE /\ \/ \E k \in Setting \ {prefs.row} : prefs' = [prefs EXCEPT !.row = k]
              \/ prefs.row # "selector" /\ prefs' = [prefs EXCEPT !.editing = TRUE]
              \/ prefs' = [prefs EXCEPT !.open = FALSE]
           /\ UNCHANGED <<saving, byHand>>
  <2>1. prefs'.row \in Setting  BY <1>1, <1>6 DEF PaneShaped
  <2>. QED BY <1>3, <1>6, <2>1
<1>. QED BY <1>4, <1>5, <1>6, Zenon DEF SettingsPaneKey

\* So does every key.
LEMMA ShellKeyTyped ==
  ASSUME WritesTyped, SettingsInv, ShellKey
  PROVE  WritesTyped'
<1>1. saving = {}  BY DEF ShellKey
<1>2. CASE Interrupt  BY <1>2 DEF Interrupt, settingsVars, WritesTyped
<1>3. CASE SettingsKey  BY <1>1, <1>3, PaneKeyTyped DEF SettingsKey
<1>4. CASE GlobalKey
  <2>1. CASE \E i \in (0..2) \ {active} : SwitchTab(i) /\ UNCHANGED <<settingsVars, profile, leaving, quit>>
    BY <2>1 DEF settingsVars, WritesTyped
  <2>2. CASE OpenSettings /\ UNCHANGED <<disk, saving, stored, byHand, active, told, profile, leaving, quit>>
    <3>1. prefs'.row \in Setting
      BY <2>2 DEF OpenSettings, SettingsInv, PaneShaped, Setting
    <3>. QED BY <2>2, <3>1 DEF WritesTyped
  <2>. QED BY <1>4, <2>1, <2>2 DEF GlobalKey
<1>5. CASE TabKey  BY <1>5 DEF TabKey, settingsVars, WritesTyped
<1>. QED BY <1>2, <1>3, <1>4, <1>5 DEF ShellKey

\* A message received and a write that ends keep to the types.
LEMMA ShellLandTyped ==
  ASSUME WritesTyped, SettingsInv, ShellLand
  PROVE  WritesTyped'
<1>1. CASE ShowRuns  BY <1>1 DEF ShowRuns, settingsVars, WritesTyped
<1>2. CASE SaveEnds /\ UNCHANGED <<active, told, profile, leaving, quit>>
  <2>1. PICK s \in saving :
          \/ /\ disk' = s.file /\ stored' = stored \cup s.keys /\ byHand' = s.past
             /\ prefs' = [prefs EXCEPT !.initial = prefs.cfg, !.saveErr = FALSE]
          \/ /\ prefs' = [prefs EXCEPT !.initial = Baseline(prefs), !.saveErr = TRUE]
             /\ UNCHANGED <<disk, stored, byHand>>
    BY <1>2, Zenon DEF SaveEnds
  <2>2. saving' = {}  BY <1>2 DEF SaveEnds
  <2>3. prefs'.row = prefs.row  BY <2>1 DEF SettingsInv, PaneShaped
  <2>4. OfSettings(s)  BY DEF WritesTyped
  <2>5. DOMAIN disk'.node = Setting /\ stored' \subseteq Setting /\ byHand' \subseteq Setting
    BY <2>1, <2>4 DEF WritesTyped, OfSettings
  <2>. QED BY <1>2, <2>2, <2>3, <2>5 DEF WritesTyped
<1>. QED BY <1>1, <1>2 DEF ShellLand

\* So do a hand at the file and a launch.
LEMMA ShellWorldTyped ==
  ASSUME WritesTyped, ShellWorld
  PROVE  WritesTyped'
<1>1. CASE HandEdit /\ UNCHANGED <<active, told, profile, leaving, quit>>
  <2>. DEFINE g(s) == [file |-> s.file, keys |-> s.keys, past |-> s.past, raced |-> TRUE]
  <2>1. /\ DOMAIN disk'.node = Setting /\ byHand' \subseteq Setting
        /\ prefs' = prefs /\ stored' = stored /\ leaving' = leaving /\ quit' = quit
    BY <1>1, SettingsAssumption DEF HandEdit, WritesTyped
  <2>2. saving' = {g(s) : s \in saving}  BY <1>1 DEF HandEdit
  <2>3. ASSUME NEW s, OfSettings(s)  PROVE OfSettings(g(s))  BY <2>3 DEF OfSettings
  <2>4. \A s \in saving' : OfSettings(s)
    <3>. HIDE DEF g
    <3>. QED BY <2>2, <2>3 DEF WritesTyped
  <2>5. saving' = {} \/ (\E s : saving' = {s})
    <3>. HIDE DEF g
    <3>1. CASE saving = {}  BY <2>2, <3>1
    <3>2. ASSUME NEW s, saving = {s}  PROVE saving' = {g(s)}  BY <2>2, <3>2
    <3>. QED BY <3>1, <3>2 DEF WritesTyped
  <2>. QED BY <2>1, <2>4, <2>5 DEF WritesTyped
<1>2. CASE Relaunch /\ FreshShell(prefs')
  BY <1>2 DEF Relaunch, FreshShell, Launched, WritesTyped, Setting
<1>. QED BY <1>1, <1>2 DEF ShellWorld

\* tui.go and settings.go: the root model and its pane are of their types, and
\* at most one write is under way.
LEMMA ShellTypesHold == Spec => []ShellTypeOK
<1>1. Init => WritesTyped
  <2>. SUFFICES ASSUME Init  PROVE WritesTyped  OBVIOUS
  <2>1. disk \in Files /\ prefs = Launched(disk) /\ saving = {} /\ stored = {} /\ byHand = {}
        /\ leaving = FALSE /\ quit = FALSE
    BY DEF Init, ShellInit, SettingsInit
  <2>. QED BY <2>1, SettingsAssumption DEF Launched, WritesTyped, Setting
<1>2. WritesTyped /\ SettingsInv /\ [Next]_vars => WritesTyped'
  <2>. SUFFICES ASSUME WritesTyped, SettingsInv, [Next]_vars  PROVE WritesTyped'  OBVIOUS
  <2>1. CASE UNCHANGED shellVars
    BY <2>1 DEF shellVars, settingsVars, WritesTyped
  <2>2. CASE ShellKey  BY <2>2, ShellKeyTyped
  <2>3. CASE ShellLand  BY <2>3, ShellLandTyped
  <2>4. CASE ShellWorld  BY <2>4, ShellWorldTyped
  <2>5. ShellKey \/ ShellLand \/ ShellWorld \/ UNCHANGED shellVars
    BY DEF Next, KeyPress, World, Land, OutsideStorage, OutsideWorkflows, vars
  <2>. QED BY <2>1, <2>2, <2>3, <2>4, <2>5
<1>3. WritesTyped /\ SettingsInv /\ FocusInv => ShellTypeOK
  <2>. SUFFICES ASSUME WritesTyped, SettingsInv, FocusInv  PROVE ShellTypeOK  OBVIOUS
  <2>1. Cardinality(saving) <= 1
    <3>1. CASE saving = {}  BY <3>1, FS_EmptySet
    <3>2. ASSUME NEW s, saving = {s}  PROVE Cardinality(saving) <= 1
      <4>1. Cardinality({s}) = 1  BY FS_Singleton
      <4>. QED BY <3>2, <4>1
    <3>. QED BY <3>1, <3>2 DEF WritesTyped
  <2>2. /\ prefs.cfg.selector \subseteq Selections /\ prefs.cfg.filter \subseteq Axes
        /\ \A n \in prefs.cfg.number : ~(n > Ceiling)
    BY DEF SettingsInv, PaneShaped, AllSettled, Settled, Setting
  <2>3. SettingsTypeOK
    BY <2>1, <2>2 DEF SettingsTypeOK, WritesTyped, SettingsInv, FileShaped
  <2>4. \A s \in Surface : profile[s] \subseteq Selections  BY <2>2 DEF FocusInv
  <2>. QED BY <2>3, <2>4 DEF ShellTypeOK, WritesTyped, FocusInv
<1>. QED BY <1>1, <1>2, <1>3, SettingsHold, PTL DEF Spec

-----------------------------------------------------------------------------
(* The types of the dispatch form and of the Workflows tab.                *)

\* The bounds, by themselves: the provers do not count where there are texts.
LEMMA BoundsAre == /\ MaxOut \in Nat /\ MaxToggles \in Nat
                   /\ Workflow \subseteq Nat /\ IsFiniteSet(Workflow)
BY DispatchAssumption, WorkflowsAssumption

\* What is out of the form: the answers on their way and what they leave.
TripsTyped ==
  /\ doc \in [Workflow -> SUBSET Text]
  /\ resolves \in [Workflow -> 0..MaxOut] /\ yamls \in [Workflow \X Ref -> 0..MaxOut]
  /\ lists \in [Workflow -> Nat]
LostAreMade == \A k \in Sending : lost[k] <= created[k]

LEMMA DispatchTypesAre ==
  ASSUME FormInv
  PROVE  DispatchTypeOK <=> FormTypeOK /\ TripsTyped /\ LostAreMade
BY DEF FormInv, Guarded, Counted, DispatchTypeOK, TripsTyped, LostAreMade

\* A YAML that is asked for is one more of its ref.
LEMMA LoadTyped ==
  ASSUME TripsTyped, NEW w, NEW r, LoadYAML(w, r)
  PROVE  yamls' \in [Workflow \X Ref -> 0..MaxOut]
<1>1. /\ yamls[<<w, r>>] < MaxOut /\ yamls' = [yamls EXCEPT ![<<w, r>>] = @ + 1]
      /\ MaxOut \in Nat
  BY BoundsAre DEF LoadYAML
<1>. DEFINE k == <<w, r>>
<1>. HIDE DEF k
<1>2. yamls[k] < MaxOut /\ yamls' = [yamls EXCEPT ![k] = @ + 1]  BY <1>1 DEF k
<1>3. k \in Workflow \X Ref => yamls[k] + 1 \in 0..MaxOut  BY <1>1, <1>2 DEF TripsTyped
<1>. QED BY <1>2, <1>3 DEF TripsTyped

\* So is a ref.
LEMMA ResolveTyped ==
  ASSUME TripsTyped, NEW w, resolves[w] < MaxOut, resolves' = [resolves EXCEPT ![w] = @ + 1]
  PROVE  resolves' \in [Workflow -> 0..MaxOut]
<1>1. w \in Workflow => resolves[w] + 1 \in 0..MaxOut  BY BoundsAre DEF TripsTyped
<1>. QED BY <1>1 DEF TripsTyped

\* A form opened over a Workflow is typed.
LEMMA OpenTyped ==
  ASSUME FormTypeOK, TripsTyped, NEW w \in Workflow, NEW named \in Ref \cup {""}, OpenForm(w, named)
  PROVE  FormTypeOK' /\ TripsTyped' /\ UNCHANGED <<created, lost>>
<1>1. /\ form' = [ClosedForm EXCEPT !.open = TRUE, !.wf = w, !.ref = named, !.home = named,
                                    !.loading = TRUE]
      /\ UNCHANGED <<doc, created, lost, lists>>
      /\ \/ named = "" /\ resolves[w] < MaxOut /\ resolves' = [resolves EXCEPT ![w] = @ + 1]
                /\ UNCHANGED yamls
         \/ named # "" /\ LoadYAML(w, named) /\ UNCHANGED resolves
  BY DEF OpenForm, outside
<1>2. FormTypeOK'
  BY <1>1, DispatchAssumption DEF FormTypeOK, ClosedForm
<1>3. CASE named = ""
  <2>3. resolves' \in [Workflow -> 0..MaxOut]  BY <1>1, <1>3, ResolveTyped
  <2>. QED BY <1>1, <1>2, <1>3, <2>3 DEF TripsTyped
<1>4. CASE named # ""
  <2>1. yamls' \in [Workflow \X Ref -> 0..MaxOut]  BY <1>1, <1>4, LoadTyped
  <2>. QED BY <1>1, <1>2, <1>4, <2>1 DEF TripsTyped
<1>. QED BY <1>3, <1>4

\* A key of the form keeps it to the refs, texts and rows there are.
LEMMA KeyTyped ==
  ASSUME FormInv, FormTypeOK, TripsTyped, form.open, FormKey
  PROVE  FormTypeOK' /\ TripsTyped' /\ UNCHANGED <<created, lost>>
<1>. USE DEF FormInv, Shaped
<1>1. CASE CloseForm /\ UNCHANGED <<issued, outside, resolves, yamls, lists>>
  BY <1>1 DEF CloseForm, FormTypeOK, TripsTyped, outside
<1>2. CASE SubmitDispatch /\ UNCHANGED <<form, doc, created, lost, resolves, yamls, lists>>
  BY <1>2 DEF FormTypeOK, TripsTyped
<1>3. CASE CycleRef /\ UNCHANGED <<issued, outside, resolves>>
  <2>1. CASE ~form.asked
    <3>1. form' = [form EXCEPT !.asked = TRUE] /\ UNCHANGED <<doc, created, lost, resolves, yamls>>
          /\ lists' = [lists EXCEPT ![form.wf] = @ + 1]
      BY <1>3, <2>1 DEF CycleRef, outside
    <3>2. FormTypeOK'  BY <3>1 DEF FormTypeOK
    <3>3. lists' \in [Workflow -> Nat]
      <4>. DEFINE w == form.wf
                  n == lists[w] + 1
      <4>1. w \in Workflow => n \in Nat  BY DEF TripsTyped
      <4>. HIDE DEF w
      <4>2. lists' = [lists EXCEPT ![w] = n]  BY <3>1 DEF w
      <4>. HIDE DEF n
      <4>. QED BY <4>1, <4>2 DEF TripsTyped
    <3>. QED BY <3>1, <3>2, <3>3 DEF TripsTyped
  <2>2. CASE form.asked
    <3>1. PICK r \in CycleNames(form) \ {form.ref} :
            /\ form' = [form EXCEPT !.ref = r, !.loading = TRUE, !.loadErr = FALSE]
            /\ LoadYAML(form.wf, r) /\ UNCHANGED lists
      BY <1>3, <2>2, Zenon DEF CycleRef
    <3>2. r \in Ref  BY DEF CycleNames, FormTypeOK
    <3>3. FormTypeOK'  BY <3>1, <3>2 DEF FormTypeOK
    <3>4. yamls' \in [Workflow \X Ref -> 0..MaxOut]  BY <3>1, LoadTyped
    <3>. QED BY <1>3, <3>1, <3>3, <3>4 DEF TripsTyped, outside
  <2>. QED BY <2>1, <2>2
<1>4. CASE (InputKey \/ CycleInput \/ MoveRowCursor) /\ UNCHANGED <<issued, outside, resolves, yamls, lists>>
  <2>1. TripsTyped' /\ UNCHANGED <<created, lost>>  BY <1>4 DEF TripsTyped, outside
  <2>2. CASE InputKey
    <3>1. CASE form' = [form EXCEPT !.editing = TRUE]  BY <2>1, <3>1 DEF FormTypeOK
    <3>2. ASSUME NEW v \in Text, form' = [form EXCEPT !.editing = FALSE, !.value = v]
          PROVE  FormTypeOK'
      BY <3>2 DEF FormTypeOK
    <3>. QED BY <2>1, <2>2, <3>1, <3>2 DEF InputKey
  <2>3. CASE CycleInput
    <3>1. PICK v \in Options(form.of) \ {form.value} : form' = [form EXCEPT !.value = v]
      BY <2>3 DEF CycleInput
    <3>2. form.of \in Workflow \X Ref  BY <2>3 DEF CycleInput, HasInput, FormTypeOK
    <3>3. v \in Text  BY <3>2, DispatchAssumption DEF Options
    <3>. QED BY <2>1, <3>1, <3>3 DEF FormTypeOK
  <2>4. CASE MoveRowCursor
    <3>1. PICK row \in {0, 1} : form' = [form EXCEPT !.row = row]
      BY <2>4 DEF MoveRowCursor
    <3>2. FormTypeOK'  BY <3>1 DEF FormTypeOK
    <3>. QED BY <2>1, <3>2
  <2>. QED BY <1>4, <2>1, <2>2, <2>3, <2>4
<1>. QED BY <1>1, <1>2, <1>3, <1>4 DEF FormKey

\* An answer lands in a typed form, and leaves one.
LEMMA AnswersTyped ==
  ASSUME FormInv, FormTypeOK, TripsTyped, NEW w \in Workflow,
         RefResolves(w) \/ RefsLand(w) \/ (\E r \in Ref : YAMLLands(w, r))
  PROVE  FormTypeOK' /\ TripsTyped' /\ UNCHANGED <<created, lost>>
<1>. USE DEF FormInv, Shaped
<1>0. MaxOut \in Nat  BY BoundsAre
<1>1. CASE RefResolves(w)
  <2>1. resolves' \in [Workflow -> 0..MaxOut] /\ UNCHANGED <<doc, created, lost, lists>>
    <3>1. resolves[w] > 0 /\ resolves' = [resolves EXCEPT ![w] = @ - 1] /\ resolves[w] \in 0..MaxOut
      BY <1>1 DEF RefResolves, TripsTyped
    <3>2. resolves[w] - 1 \in 0..MaxOut  BY <1>0, <3>1
    <3>. QED BY <1>1, <3>1, <3>2 DEF RefResolves, TripsTyped, outside
  <2>2. CASE form.open /\ form.ref = ""
    <3>1. PICK r \in RefsOf[w] \cup {"main"} :
            form' = [form EXCEPT !.ref = r, !.home = r] /\ LoadYAML(form.wf, r)
      BY <1>1, <2>2, Zenon DEF RefResolves
    <3>2. r \in Ref  BY DispatchAssumption
    <3>3. FormTypeOK'  BY <3>1, <3>2 DEF FormTypeOK
    <3>4. yamls' \in [Workflow \X Ref -> 0..MaxOut]  BY <3>1, LoadTyped
    <3>. QED BY <2>1, <3>3, <3>4 DEF TripsTyped
  <2>3. CASE ~(form.open /\ form.ref = "")
    BY <1>1, <2>1, <2>3 DEF RefResolves, FormTypeOK, TripsTyped
  <2>. QED BY <2>2, <2>3
<1>2. CASE RefsLand(w)
  <2>1. lists' \in [Workflow -> Nat]
    <3>1. lists[w] > 0 /\ lists' = [lists EXCEPT ![w] = @ - 1] /\ lists[w] \in Nat
      BY <1>2 DEF RefsLand, TripsTyped
    <3>. QED BY <3>1 DEF TripsTyped
  <2>2. UNCHANGED <<doc, created, lost, resolves, yamls>>  BY <1>2 DEF RefsLand, outside
  <2>3. form' = form \/ (form.open /\ form' = [form EXCEPT !.refs = RefsOf[w]])
    BY <1>2 DEF RefsLand
  <2>4. FormTypeOK'
    <3>1. CASE form' = form  BY <3>1 DEF FormTypeOK
    <3>. DEFINE s == RefsOf[w]
    <3>2. s \subseteq Ref  BY DispatchAssumption
    <3>. HIDE DEF s
    <3>3. CASE form' = [form EXCEPT !.refs = s]  BY <3>2, <3>3 DEF FormTypeOK
    <3>. QED BY <2>3, <3>1, <3>3 DEF s
  <2>. QED BY <2>1, <2>2, <2>4 DEF TripsTyped
<1>3. ASSUME NEW r \in Ref, YAMLLands(w, r)
      PROVE  FormTypeOK' /\ TripsTyped' /\ UNCHANGED <<created, lost>>
  <2>. DEFINE v == InitialValue(<<w, r>>, doc[form.wf])
              k == <<w, r>>
  <2>1. UNCHANGED <<doc, created, lost, resolves, lists>>  BY <1>3 DEF YAMLLands, outside
  <2>2. yamls' \in [Workflow \X Ref -> 0..MaxOut]
    <3>1. k \in Workflow \X Ref /\ yamls[k] > 0 /\ yamls' = [yamls EXCEPT ![k] = @ - 1]
      BY <1>3 DEF YAMLLands
    <3>. HIDE DEF k
    <3>2. yamls[k] - 1 \in 0..MaxOut  BY <1>0, <3>1 DEF TripsTyped
    <3>. QED BY <3>1, <3>2 DEF TripsTyped
  <2>3. \/ UNCHANGED form
        \/ form' = [form EXCEPT !.loading = FALSE, !.loadErr = TRUE]
        \/ form.open /\ form' = [form EXCEPT !.loading = FALSE, !.loadErr = FALSE, !.of = k,
                                             !.row = 0, !.value = v]
    BY <1>3, Zenon DEF YAMLLands
  <2>4. form.open => v \in Text
    <3>1. SUFFICES ASSUME form.open  PROVE v \in Text  OBVIOUS
    <3>2. doc[form.wf] \subseteq Text  BY <3>1 DEF FormTypeOK, TripsTyped
    <3>3. Schema[k].default \in Text  BY DispatchAssumption
    <3>4. CASE \E x \in doc[form.wf] : Fits(k, x)
      <4>. DEFINE c == CHOOSE x \in doc[form.wf] : Fits(k, x)
      <4>1. c \in doc[form.wf]
        <5>. HIDE DEF Fits
        <5>. QED BY <3>4
      <4>2. v = c  BY <3>4, Zenon DEF InitialValue
      <4>. HIDE DEF c, v
      <4>. QED BY <3>2, <4>1, <4>2
    <3>5. CASE ~ \E x \in doc[form.wf] : Fits(k, x)
      <4>1. v = Schema[k].default  BY <3>5, Zenon DEF InitialValue
      <4>. HIDE DEF v
      <4>. QED BY <3>3, <4>1
    <3>. QED BY <3>4, <3>5
  <2>5. FormTypeOK'
    <3>1. k \in Workflow \X Ref  OBVIOUS
    <3>. HIDE DEF v, k
    <3>2. CASE UNCHANGED form  BY <3>2 DEF FormTypeOK
    <3>3. CASE form' = [form EXCEPT !.loading = FALSE, !.loadErr = TRUE]
      BY <3>3 DEF FormTypeOK
    <3>4. CASE form.open /\ form' = [form EXCEPT !.loading = FALSE, !.loadErr = FALSE, !.of = k,
                                                 !.row = 0, !.value = v]
      BY <2>4, <3>1, <3>4 DEF FormTypeOK
    <3>. QED BY <2>3, <3>2, <3>3, <3>4
  <2>. QED BY <2>1, <2>2, <2>5 DEF TripsTyped
<1>. QED BY <1>1, <1>2, <1>3

\* An answer to a POST is of a Dispatch that was sent, and only a Run that is
\* made has its answer lost.
LEMMA PostEndsTyped ==
  ASSUME FormInv, FormTypeOK, TripsTyped, LostAreMade, NEW k \in Sending, PostEnds(k)
  PROVE  FormTypeOK' /\ TripsTyped' /\ LostAreMade'
<1>. USE DEF FormInv, Shaped
<1>1. PICK made \in BOOLEAN, ok \in BOOLEAN :
    /\ created' = [created EXCEPT ![k] = IF made THEN @ + 1 ELSE @]
    /\ lost' = [lost EXCEPT ![k] = IF made /\ ~ok THEN @ + 1 ELSE @]
    /\ IF ok /\ form.open /\ ShowsOutcome(k)
       THEN /\ form' = [form EXCEPT !.shows = {k}]
            /\ doc' = [doc EXCEPT ![form.wf] = IF HasInput(form) THEN {form.value} ELSE {}]
       ELSE UNCHANGED <<form, doc>>
    /\ UNCHANGED <<resolves, yamls, lists>>
  BY Zenon DEF PostEnds
<1>2. LostAreMade'
  <2>1. ASSUME NEW x \in Sending  PROVE lost'[x] <= created'[x]
    <3>1. lost[x] \in Nat /\ created[x] \in Nat /\ lost[x] <= created[x]
      BY DEF LostAreMade, Guarded, Counted
    <3>2. CASE x = k
      <4>1. /\ created'[x] = IF made THEN created[x] + 1 ELSE created[x]
            /\ lost'[x] = IF made /\ ~ok THEN lost[x] + 1 ELSE lost[x]
        BY <1>1, <3>2, Zenon DEF Guarded, Counted
      <4>. QED BY <3>1, <4>1
    <3>3. CASE x # k
      <4>1. created'[x] = created[x] /\ lost'[x] = lost[x]  BY <1>1, <3>3 DEF Guarded, Counted
      <4>. QED BY <3>1, <4>1
    <3>. QED BY <3>2, <3>3
  <2>. QED BY <2>1 DEF LostAreMade
<1>3. FormTypeOK'
  <2>1. CASE form' = [form EXCEPT !.shows = {k}]  BY <2>1 DEF FormTypeOK
  <2>2. CASE UNCHANGED form  BY <2>2 DEF FormTypeOK
  <2>. QED BY <1>1, <2>1, <2>2
<1>4. doc' \in [Workflow -> SUBSET Text]
  <2>1. CASE doc' = [doc EXCEPT ![form.wf] = IF HasInput(form) THEN {form.value} ELSE {}]
    <3>. DEFINE m == IF HasInput(form) THEN {form.value} ELSE {}
    <3>1. m \in SUBSET Text  BY DEF FormTypeOK
    <3>. HIDE DEF m
    <3>2. doc' = [doc EXCEPT ![form.wf] = m]  BY <2>1 DEF m
    <3>. QED BY <3>1, <3>2 DEF TripsTyped
  <2>2. CASE UNCHANGED doc  BY <2>2 DEF TripsTyped
  <2>. QED BY <1>1, <2>1, <2>2
<1>. QED BY <1>1, <1>2, <1>3, <1>4 DEF TripsTyped

-----------------------------------------------------------------------------
\* The list, the reads of it and its toggles.
Reading == [wf : Workflow, got : WorkflowState \cup {"out", "failed"}]
Toggle == [wf : Workflow, op : {"enable", "disable"}, got : {"out", "acted", "failed"}]
Listing == [cap : [Workflow -> Grant], held : [Workflow -> WorkflowState \cup {"none"}],
            cursor : 0..Cardinality(Workflow)]
ListTyped ==
  /\ state \in [Workflow -> WorkflowState] /\ grants \in [Workflow -> Grant]
  /\ list \in Listing /\ reads \in Seq(Reading) /\ toggles \in Seq(Toggle)
  /\ Len(toggles) <= MaxToggles

LEMMA WorkflowsTypesAre == WorkflowsTypeOK <=> DispatchTypeOK /\ ListTyped
BY DEF WorkflowsTypeOK, ListTyped, Reading, Toggle, Listing

\* A finite set is made a sequence of its members, as long as it is large.
LEMMA SetIsSequence ==
  ASSUME NEW S, IsFiniteSet(S)
  PROVE  SetToSeq(S) \in Seq(S) /\ Len(SetToSeq(S)) = Cardinality(S)
<1>1. Cardinality(S) \in Nat /\ ExistsBijection(1..Cardinality(S), S)
  BY FS_CardinalityType
<1>2. \E f \in [1..Cardinality(S) -> S] : IsInjective(f)
  <2>1. PICK f : f \in Bijection(1..Cardinality(S), S)
    BY <1>1 DEF ExistsBijection
  <2>2. f \in [1..Cardinality(S) -> S] /\ IsInjective(f)
    BY <2>1 DEF Bijection, Injection, IsInjective
  <2>. QED BY <2>2
<1>3. SetToSeq(S) \in [1..Cardinality(S) -> S]
  BY <1>2 DEF SetToSeq
<1>. QED BY <1>1, <1>3

\* A sequence less one of its members is one of the same members.
LEMMA RemovedIsSequence ==
  ASSUME NEW T, NEW s \in Seq(T), NEW i \in DOMAIN s
  PROVE  RemoveAt(s, i) \in Seq(T) /\ Len(RemoveAt(s, i)) = Len(s) - 1
BY DEF RemoveAt

\* A key of the tab.
LEMMA ListKeyTyped ==
  ASSUME ListTyped,
         \/ StartReads /\ UNCHANGED <<state, grants, toggles>>
         \/ StartToggle /\ UNCHANGED <<state, grants, list, reads>>
         \/ MoveListCursor /\ UNCHANGED <<state, grants, reads, toggles>>
  PROVE  ListTyped'
<1>1. CASE StartReads /\ UNCHANGED <<state, grants, toggles>>
  <2>. DEFINE A == {Ask(w) : w \in {x \in Workflow : grants[x] # "unknown"}}
  <2>1. IsFiniteSet(A)
    <3>1. IsFiniteSet({x \in Workflow : grants[x] # "unknown"})
      BY BoundsAre, FS_Subset
    <3>. DEFINE S == {x \in Workflow : grants[x] # "unknown"}
                f == [w \in S |-> Ask(w)]
    <3>2. f \in Surjection(S, A)  BY DEF Surjection
    <3>. HIDE DEF f
    <3>. QED BY <3>1, <3>2, FS_Surjection
  <2>2. A \subseteq Reading  BY DEF Reading, Ask, WorkflowState
  <2>3. reads' = SetToSeq(A)  BY <1>1 DEF StartReads
  <2>. HIDE DEF A
  <2>4. reads' \in Seq(A)  BY <2>1, <2>3, SetIsSequence
  <2>5. reads' \in Seq(Reading)  BY <2>2, <2>4
  <2>6. list' = [list EXCEPT !.cap = grants]  BY <1>1 DEF StartReads
  <2>7. list' \in Listing  BY <2>6 DEF ListTyped, Listing
  <2>. QED BY <1>1, <2>5, <2>7 DEF ListTyped
<1>2. CASE StartToggle /\ UNCHANGED <<state, grants, list, reads>>
  <2>1. PICK w \in AtCursor(list) : \E op \in Offered(list, w) :
          /\ Len(toggles) < MaxToggles
          /\ toggles' = Append(toggles, [wf |-> w, op |-> op, got |-> "out"])
    BY <1>2 DEF StartToggle
  <2>2. PICK op \in Offered(list, w) :
          /\ Len(toggles) < MaxToggles
          /\ toggles' = Append(toggles, [wf |-> w, op |-> op, got |-> "out"])
    BY <2>1
  <2>3. w \in Workflow  BY <2>1 DEF AtCursor, ListRows
  <2>4. op \in {"enable", "disable"}
    <3>1. "active" # "disabled"  OBVIOUS
    <3>2. CASE list.cap[w] # "ours"  BY <2>2, <3>2, Zenon DEF Offered
    <3>3. CASE list.cap[w] = "ours" /\ list.held[w] = "active"
      <4>1. Offered(list, w) = {"disable"}  BY <3>1, <3>3, Zenon DEF Offered
      <4>. QED BY <4>1
    <3>4. CASE list.cap[w] = "ours" /\ list.held[w] = "disabled"
      <4>1. Offered(list, w) = {"enable"}  BY <3>1, <3>4, Zenon DEF Offered
      <4>. QED BY <4>1
    <3>5. CASE list.cap[w] = "ours" /\ list.held[w] \notin {"active", "disabled"}
      <4>1. Offered(list, w) = {}  BY <3>5, Zenon DEF Offered
      <4>. QED BY <4>1
    <3>. QED BY <3>2, <3>3, <3>4, <3>5
  <2>. DEFINE t == [wf |-> w, op |-> op, got |-> "out"]
  <2>5. t \in Toggle  BY <2>3, <2>4 DEF Toggle
  <2>6. toggles' = Append(toggles, t)  BY <2>2
  <2>. HIDE DEF t
  <2>7. toggles' \in Seq(Toggle) /\ Len(toggles') = Len(toggles) + 1
    BY <2>5, <2>6 DEF ListTyped
  <2>8. Len(toggles') <= MaxToggles
    BY <2>2, <2>7, BoundsAre DEF ListTyped
  <2>. QED BY <1>2, <2>7, <2>8 DEF ListTyped
<1>3. CASE MoveListCursor /\ UNCHANGED <<state, grants, reads, toggles>>
  <2>1. PICK c \in 0..(Cardinality(ListRows(list)) - 1) : list' = [list EXCEPT !.cursor = c]
    BY <1>3 DEF MoveListCursor
  <2>2. /\ Cardinality(ListRows(list)) <= Cardinality(Workflow)
        /\ Cardinality(ListRows(list)) \in Nat /\ Cardinality(Workflow) \in Nat
    <3>1. ListRows(list) \subseteq Workflow  BY DEF ListRows
    <3>2. IsFiniteSet(ListRows(list))  BY <3>1, BoundsAre, FS_Subset
    <3>. QED BY <3>1, <3>2, BoundsAre, FS_Subset, FS_CardinalityType
  <2>3. c \in 0..Cardinality(Workflow)  BY <2>2
  <2>4. list' \in Listing  BY <2>1, <2>3 DEF ListTyped, Listing
  <2>. QED BY <1>3, <2>4 DEF ListTyped
<1>. QED BY <1>1, <1>2, <1>3

\* An answer, and its landing.
LEMMA ListLandTyped ==
  ASSUME ListTyped, UNCHANGED grants,
         \/ \E i \in DOMAIN reads : ReadAnswers(i) \/ ReadLands(i)
         \/ \E i \in DOMAIN toggles : ToggleAnswers(i) \/ ToggleLands(i)
  PROVE  ListTyped'
<1>1. ASSUME NEW i \in DOMAIN reads, ReadAnswers(i)  PROVE ListTyped'
  <2>1. PICK got \in {state[reads[i].wf], "failed"} : reads' = [reads EXCEPT ![i].got = got]
    BY <1>1 DEF ReadAnswers
  <2>2. reads[i] \in Reading  BY DEF ListTyped
  <2>3. got \in WorkflowState \cup {"out", "failed"}  BY <2>2 DEF Reading, ListTyped
  <2>. DEFINE f == [reads[i] EXCEPT !.got = got]
  <2>4. f \in Reading  BY <2>2, <2>3 DEF Reading
  <2>5. reads' = [reads EXCEPT ![i] = f]  BY <2>1
  <2>. HIDE DEF f
  <2>6. reads' \in Seq(Reading)  BY <2>4, <2>5 DEF ListTyped
  <2>. QED BY <1>1, <2>6 DEF ReadAnswers, ListTyped
<1>2. ASSUME NEW i \in DOMAIN reads, ReadLands(i)  PROVE ListTyped'
  <2>1. reads' \in Seq(Reading)  BY <1>2, RemovedIsSequence DEF ReadLands, ListTyped
  <2>2. CASE reads[i].got = "failed"  BY <1>2, <2>1, <2>2 DEF ReadLands, ListTyped
  <2>3. CASE reads[i].got # "failed"
    <3>1. reads[i] \in Reading /\ reads[i].got # "out"  BY <1>2 DEF ReadLands, ListTyped
    <3>. DEFINE w == reads[i].wf
                g == reads[i].got
                h == [list.held EXCEPT ![w] = g]
    <3>2. w \in Workflow /\ g \in WorkflowState  BY <2>3, <3>1 DEF Reading
    <3>3. list' = [list EXCEPT !.held = h]  BY <1>2, <2>3 DEF ReadLands
    <3>. HIDE DEF w, g
    <3>4. h \in [Workflow -> WorkflowState \cup {"none"}]  BY <3>2 DEF ListTyped, Listing
    <3>. HIDE DEF h
    <3>5. list' \in Listing  BY <3>3, <3>4 DEF ListTyped, Listing
    <3>. QED BY <1>2, <2>1, <3>5 DEF ReadLands, ListTyped
  <2>. QED BY <2>2, <2>3
<1>3. ASSUME NEW i \in DOMAIN toggles, ToggleAnswers(i)  PROVE ListTyped'
  <2>1. toggles[i] \in Toggle  BY DEF ListTyped
  <2>2. ASSUME NEW got \in {"acted", "failed"}, toggles' = [toggles EXCEPT ![i].got = got]
        PROVE  toggles' \in Seq(Toggle) /\ Len(toggles') = Len(toggles)
    <3>. DEFINE f == [toggles[i] EXCEPT !.got = got]
    <3>1. f \in Toggle  BY <2>1 DEF Toggle
    <3>2. toggles' = [toggles EXCEPT ![i] = f]  BY <2>2
    <3>. HIDE DEF f
    <3>. QED BY <3>1, <3>2 DEF ListTyped
  <2>3. CASE toggles' = [toggles EXCEPT ![i].got = "acted"]
             /\ state' = [state EXCEPT ![toggles[i].wf] = Wanted(toggles[i].op)]
    <3>1. state' \in [Workflow -> WorkflowState]
      <4>. DEFINE w == toggles[i].wf
                  s == Wanted(toggles[i].op)
      <4>1. s \in WorkflowState  BY DEF Wanted, WorkflowState
      <4>2. state' = [state EXCEPT ![w] = s]  BY <2>3
      <4>. HIDE DEF w, s
      <4>. QED BY <4>1, <4>2 DEF ListTyped
    <3>. QED BY <1>3, <2>2, <2>3, <3>1 DEF ToggleAnswers, ListTyped
  <2>4. CASE toggles' = [toggles EXCEPT ![i].got = "failed"] /\ UNCHANGED state
    BY <1>3, <2>2, <2>4 DEF ToggleAnswers, ListTyped
  <2>. QED BY <1>3, <2>3, <2>4 DEF ToggleAnswers
<1>4. ASSUME NEW i \in DOMAIN toggles, ToggleLands(i)  PROVE ListTyped'
  <2>1. toggles' \in Seq(Toggle) /\ Len(toggles') = Len(toggles) - 1
    BY <1>4, RemovedIsSequence DEF ToggleLands, ListTyped
  <2>2. Len(toggles') <= MaxToggles  BY <2>1, BoundsAre DEF ListTyped
  <2>3. reads' \in Seq(Reading)
    <3>1. toggles[i] \in Toggle  BY DEF ListTyped
    <3>2. Ask(toggles[i].wf) \in Reading  BY <3>1 DEF Toggle, Ask, Reading, WorkflowState
    <3>. DEFINE a == Ask(toggles[i].wf)
    <3>3. reads' = reads \/ reads' = Append(reads, a)  BY <1>4 DEF ToggleLands, ReadAgain
    <3>. HIDE DEF a
    <3>. QED BY <3>2, <3>3 DEF ListTyped, a
  <2>. QED BY <1>4, <2>1, <2>2, <2>3 DEF ToggleLands, ListTyped
<1>. QED BY <1>1, <1>2, <1>3, <1>4

\* Whatever is visited, a step keeps the form, the list and what is out typed.
LEMMA WorkflowsStepTyped ==
  ASSUME FormInv, FormTypeOK, TripsTyped, LostAreMade, ListTyped, [Next]_vars
  PROVE  FormTypeOK' /\ TripsTyped' /\ LostAreMade' /\ ListTyped'
<1>. DEFINE Typed1 == FormTypeOK' /\ TripsTyped' /\ LostAreMade' /\ ListTyped'
<1>1. ASSUME FormTypeOK', TripsTyped', UNCHANGED <<created, lost>>, ListTyped'  PROVE Typed1
  BY <1>1 DEF LostAreMade
<1>2. ASSUME UNCHANGED dispatchVars  PROVE FormTypeOK' /\ TripsTyped' /\ LostAreMade'
  BY <1>2 DEF dispatchVars, FormTypeOK, TripsTyped, LostAreMade
<1>3. ASSUME UNCHANGED <<state, grants, list, reads, toggles>>  PROVE ListTyped'
  BY <1>3 DEF ListTyped
<1>4. CASE WorkflowsKey
  <2>1. CASE form.open /\ FormKey /\ UNCHANGED <<state, grants, list, reads, toggles>>
    BY <1>1, <1>3, <2>1, KeyTyped
  <2>2. CASE OpenDispatch /\ UNCHANGED <<state, grants, list, reads, toggles>>
    <3>1. PICK w \in AtCursor(list) : OpenForm(w, Named[w])  BY <2>2 DEF OpenDispatch
    <3>2. w \in Workflow  BY <3>1 DEF AtCursor, ListRows
    <3>3. Named[w] \in Ref \cup {""}  BY <3>2, WorkflowsAssumption
    <3>. QED BY <1>1, <1>3, <2>2, <3>1, <3>2, <3>3, OpenTyped
  <2>3. CASE \/ StartReads /\ UNCHANGED <<dispatchVars, state, grants, toggles>>
             \/ StartToggle /\ UNCHANGED <<dispatchVars, state, grants, list, reads>>
             \/ MoveListCursor /\ UNCHANGED <<dispatchVars, state, grants, reads, toggles>>
    <3>1. ListTyped'  BY <2>3, ListKeyTyped
    <3>2. UNCHANGED dispatchVars  BY <2>3
    <3>. QED BY <1>2, <3>1, <3>2
  <2>. QED BY <1>4, <2>1, <2>2, <2>3 DEF WorkflowsKey
<1>5. CASE WorkflowsLand
  <2>1. CASE DispatchLand /\ UNCHANGED <<state, grants, list, reads, toggles>>
    <3>1. ASSUME NEW w \in Workflow,
                 RefResolves(w) \/ RefsLand(w) \/ (\E r \in Ref : YAMLLands(w, r))
          PROVE  Typed1
      BY <1>1, <1>3, <2>1, <3>1, AnswersTyped
    <3>2. ASSUME NEW k \in Sending, PostEnds(k)  PROVE Typed1
      BY <1>3, <2>1, <3>2, PostEndsTyped
    <3>. HIDE DEF Typed1
    <3>3. Typed1  BY <2>1, <3>1, <3>2, Zenon DEF DispatchLand
    <3>. QED BY <3>3 DEF Typed1
  <2>2. CASE /\ \/ \E i \in DOMAIN reads : ReadAnswers(i) \/ ReadLands(i)
                \/ \E i \in DOMAIN toggles : ToggleAnswers(i) \/ ToggleLands(i)
             /\ UNCHANGED <<dispatchVars, grants>>
    BY <1>2, <2>2, ListLandTyped
  <2>. QED BY <1>5, <2>1, <2>2 DEF WorkflowsLand
<1>6. CASE WorkflowsWorld
  <2>1. UNCHANGED dispatchVars /\ UNCHANGED <<list, reads, toggles>>  BY <1>6 DEF WorkflowsWorld
  <2>2. state' \in [Workflow -> WorkflowState] /\ grants' \in [Workflow -> Grant]
    BY <1>6 DEF WorkflowsWorld, ListTyped
  <2>. QED BY <1>2, <2>1, <2>2 DEF ListTyped
<1>7. CASE UNCHANGED workflowsVars  BY <1>2, <1>3, <1>7 DEF workflowsVars
<1>8. WorkflowsKey \/ WorkflowsLand \/ WorkflowsWorld \/ UNCHANGED workflowsVars
  BY DEF Next, KeyPress, World, Land, OutsideStorage, OutsideRoot, vars
<1>. QED BY <1>4, <1>5, <1>6, <1>7, <1>8

\* workflows.go and dispatch.go: the list, its reads and toggles and the form
\* over it are of their types.
LEMMA WorkflowsTypesHold == Spec => []WorkflowsTypeOK
<1>. DEFINE Inv == FormInv /\ FormTypeOK /\ TripsTyped /\ LostAreMade /\ ListTyped
<1>1. Init => Inv
  <2>. SUFFICES ASSUME Init  PROVE Inv  OBVIOUS
  <2>1. DispatchInit  BY DEF Init, WorkflowsInit, AtRowsInit
  <2>2. FormInv  BY <2>1, ClosedIsShaped
  <2>3. FormTypeOK /\ TripsTyped /\ LostAreMade
    <3>1. FormTypeOK
      BY <2>1, DispatchAssumption DEF DispatchInit, ClosedForm, FormTypeOK
    <3>2. TripsTyped  BY <2>1, BoundsAre DEF DispatchInit, TripsTyped
    <3>3. LostAreMade  BY <2>1 DEF DispatchInit, LostAreMade
    <3>. QED BY <3>1, <3>2, <3>3
  <2>4. 0 \in 0..Cardinality(Workflow)  BY BoundsAre, FS_CardinalityType
  <2>5. 0 <= MaxToggles  BY BoundsAre
  <2>6. CASE WorkflowsInit
    <3>1. list \in Listing /\ state \in [Workflow -> WorkflowState] /\ grants \in [Workflow -> Grant]
      BY <2>4, <2>6 DEF WorkflowsInit, Listing, Grant
    <3>2. reads \in Seq(Reading) /\ toggles \in Seq(Toggle) /\ Len(toggles) = 0
      BY <2>6 DEF WorkflowsInit
    <3>3. ListTyped  BY <2>5, <3>1, <3>2 DEF ListTyped
    <3>. QED BY <2>2, <2>3, <3>3
  <2>7. CASE AtRowsInit
    <3>1. list \in Listing /\ state \in [Workflow -> WorkflowState] /\ grants \in [Workflow -> Grant]
      BY <2>4, <2>7 DEF AtRowsInit, Listing, Grant, WorkflowState
    <3>2. reads \in Seq(Reading) /\ toggles \in Seq(Toggle) /\ Len(toggles) = 0
      BY <2>7 DEF AtRowsInit
    <3>3. ListTyped  BY <2>5, <3>1, <3>2 DEF ListTyped
    <3>. QED BY <2>2, <2>3, <3>3
  <2>8. WorkflowsInit \/ AtRowsInit  BY DEF Init
  <2>. QED BY <2>2, <2>3, <2>6, <2>7, <2>8
<1>2. Inv /\ [Next]_vars => Inv'
  <2>. SUFFICES ASSUME Inv, [Next]_vars  PROVE Inv'  OBVIOUS
  <2>1. FormInv'  BY StepKeeps DEF FormInv, KeepsForm
  <2>. QED BY <2>1, WorkflowsStepTyped
<1>3. Inv => WorkflowsTypeOK
  BY DispatchTypesAre, WorkflowsTypesAre
<1>. QED BY <1>1, <1>2, <1>3, PTL DEF Spec

-----------------------------------------------------------------------------
(***************************************************************************)
(* Sums of sets of sizes.  The community modules sum a set by taking its   *)
(* members one after the other; that the order does not matter is what     *)
(* lets a figure be split by what is shown and what was reclaimed.         *)
(***************************************************************************)

\* A set of numbers has a least.
LEMMA LeastNumber ==
  ASSUME NEW S \in SUBSET Nat, S # {}
  PROVE  \E w \in S : \A v \in S : w <= v
<1>. DEFINE Below == {ss \in Nat \X Nat : ss[1] < ss[2]}
<1>1. IsWellFoundedOn(Below, Nat)
  BY NatLessThanWellFounded, Zenon DEF OpToRel
<1>. HIDE DEF Below
<1>2. PICK w \in S : \A v \in S : <<v, w>> \notin Below
  BY <1>1, WFMin
<1>3. \A v \in Nat : v < w => <<v, w>> \in Below  BY DEF Below
<1>. HIDE DEF Below
<1>4. ASSUME NEW v \in S  PROVE w <= v
  <2>1. v \in Nat /\ w \in Nat /\ ~(v < w)  BY <1>2, <1>3
  <2>. QED BY <2>1
<1>. QED BY <1>4

First(s) == CHOOSE x \in s : TRUE

\* What is left of a finite set when a member is taken is smaller.
LEMMA MemberTaken ==
  ASSUME NEW S, IsFiniteSet(S), NEW x \in S
  PROVE  /\ IsFiniteSet(S \ {x}) /\ Cardinality(S) \in Nat
         /\ Cardinality(S \ {x}) \in Nat /\ Cardinality(S \ {x}) = Cardinality(S) - 1
<1>1. IsFiniteSet(S \ {x})  BY FS_Subset
<1>. QED BY <1>1, FS_RemoveElement, FS_CardinalityType

\* Of a family of finite sets that has one, one has no smaller in the family.
LEMMA SmallestSet ==
  ASSUME NEW F, F # {}, \A S \in F : IsFiniteSet(S)
  PROVE  \E S \in F : \A T \in F : Cardinality(S) <= Cardinality(T)
<1>. DEFINE N == {Cardinality(S) : S \in F}
<1>1. N \in SUBSET Nat /\ N # {}  BY FS_CardinalityType
<1>2. PICK n \in N : \A m \in N : n <= m
  <2>. HIDE DEF N
  <2>. QED BY <1>1, LeastNumber
<1>. QED BY <1>2

\* The sums of the sets of D, each from that of a smaller one.
Sums(D, g) ==
  g = [s \in D |-> IF s = {} THEN 0 ELSE First(s) + g[s \ {First(s)}]]

Small(S, n) == {s \in SUBSET S : Cardinality(s) <= n}

\* There are such sums of the subsets of up to any size.
LEMMA SumsUpTo ==
  ASSUME NEW S, IsFiniteSet(S)
  PROVE  \A n \in Nat : \E g : Sums(Small(S, n), g)
<1>. DEFINE Bad == {n \in Nat : ~ \E g : Sums(Small(S, n), g)}
<1>. SUFFICES ASSUME Bad # {} PROVE FALSE  OBVIOUS
<1>1. PICK n \in Bad : \A v \in Bad : n <= v
  <2>1. Bad \in SUBSET Nat  OBVIOUS
  <2>. HIDE DEF Bad
  <2>. QED BY <2>1, LeastNumber
<1>2. \E g : Sums(Small(S, n), g)
  <2>1. CASE n = 0
    <3>. DEFINE g == [s \in Small(S, n) |-> 0]
    <3>1. ASSUME NEW s \in Small(S, n)  PROVE s = {}
      <4>1. s \in SUBSET S /\ Cardinality(s) <= 0  BY <2>1 DEF Small
      <4>2. IsFiniteSet(s)  BY <4>1, FS_Subset
      <4>3. Cardinality(s) \in Nat  BY <4>2, FS_CardinalityType
      <4>4. Cardinality(s) = 0  BY <4>1, <4>3
      <4>. QED BY <4>2, <4>4, FS_EmptySet
    <3>2. g = [s \in Small(S, n) |-> IF s = {} THEN 0 ELSE First(s) + g[s \ {First(s)}]]
      BY <3>1
    <3>. QED BY <3>2 DEF Sums
  <2>2. CASE n # 0
    <3>1. n - 1 \in Nat /\ n - 1 \notin Bad  BY <1>1, <2>2
    <3>2. PICK g : Sums(Small(S, n - 1), g)  BY <3>1
    <3>. DEFINE h == [s \in Small(S, n) |->
                        IF s = {} THEN 0 ELSE First(s) + g[s \ {First(s)}]]
    <3>3. ASSUME NEW s \in Small(S, n - 1)  PROVE s \in Small(S, n) /\ h[s] = g[s]
      <4>1. s \in Small(S, n)
        <5>1. Cardinality(s) \in Nat  BY FS_Subset, FS_CardinalityType DEF Small
        <5>. QED BY <5>1, <3>1 DEF Small
      <4>2. g[s] = IF s = {} THEN 0 ELSE First(s) + g[s \ {First(s)}]
        BY <3>2 DEF Sums
      <4>. QED BY <4>1, <4>2
    <3>4. ASSUME NEW s \in Small(S, n), s # {}
          PROVE  s \ {First(s)} \in Small(S, n - 1)
      <4>1. First(s) \in s  BY <3>4 DEF First
      <4>2. IsFiniteSet(s)  BY FS_Subset DEF Small
      <4>3. /\ Cardinality(s \ {First(s)}) = Cardinality(s) - 1 /\ Cardinality(s) \in Nat
        BY <4>1, <4>2, MemberTaken
      <4>. QED BY <3>1, <4>3 DEF Small
    <3>5. h = [s \in Small(S, n) |->
                 IF s = {} THEN 0 ELSE First(s) + h[s \ {First(s)}]]
      <4>1. ASSUME NEW s \in Small(S, n)
            PROVE  (IF s = {} THEN 0 ELSE First(s) + g[s \ {First(s)}])
                 = (IF s = {} THEN 0 ELSE First(s) + h[s \ {First(s)}])
        <5>. HIDE DEF h
        <5>. QED BY <3>3, <3>4
      <4>. QED BY <4>1
    <3>. QED BY <3>5 DEF Sums
  <2>. QED BY <2>1, <2>2
<1>. QED BY <1>2

\* The sum of a set is the last of its sums.
LEMMA SumIsLast ==
  ASSUME NEW S, IsFiniteSet(S)
  PROVE  \E g : Sums(SUBSET S, g) /\ SumSet(S) = g[S]
<1>. DEFINE g == CHOOSE g : Sums(SUBSET S, g)
<1>1. Small(S, Cardinality(S)) = SUBSET S
  BY FS_Subset DEF Small
<1>2. Sums(SUBSET S, g)
  <2>1. Cardinality(S) \in Nat  BY FS_CardinalityType
  <2>2. \E k : Sums(Small(S, Cardinality(S)), k)  BY <2>1, SumsUpTo
  <2>. QED BY <1>1, <2>2
<1>3. SumSet(S) = g[S]
  BY DEF SumSet, FoldSet, MapThenFoldSet, Sums, First
<1>. QED BY <1>2, <1>3

\* The sums of one set are those of a larger one, as far as they go.
LEMMA SumsAgree ==
  ASSUME NEW S, IsFiniteSet(S), NEW g, Sums(SUBSET S, g),
         NEW T \in SUBSET S, NEW h, Sums(SUBSET T, h)
  PROVE  h[T] = g[T]
<1>. DEFINE Bad == {s \in SUBSET T : g[s] # h[s]}
<1>. SUFFICES ASSUME Bad # {}  PROVE FALSE  OBVIOUS
<1>1. \A s \in Bad : IsFiniteSet(s)  BY FS_Subset
<1>2. PICK s \in Bad : \A r \in Bad : Cardinality(s) <= Cardinality(r)
  <2>. HIDE DEF Bad
  <2>. QED BY <1>1, SmallestSet
<1>3. /\ g[s] = IF s = {} THEN 0 ELSE First(s) + g[s \ {First(s)}]
      /\ h[s] = IF s = {} THEN 0 ELSE First(s) + h[s \ {First(s)}]
  BY DEF Sums
<1>4. s # {} /\ s \ {First(s)} \in Bad
  BY <1>3
<1>5. First(s) \in s  BY <1>4 DEF First
<1>. QED BY <1>1, <1>2, <1>4, <1>5, MemberTaken

\* So the sum of a subset is among the sums of the set.
LEMMA SumAmong ==
  ASSUME NEW S, IsFiniteSet(S), NEW g, Sums(SUBSET S, g), NEW T \in SUBSET S
  PROVE  SumSet(T) = g[T]
<1>1. IsFiniteSet(T)  BY FS_Subset
<1>2. PICK h : Sums(SUBSET T, h) /\ SumSet(T) = h[T]  BY <1>1, SumIsLast
<1>3. Sums(SUBSET T, h)  BY <1>2
<1>4. h[T] = g[T]  BY <1>3, SumsAgree
<1>. QED BY <1>2, <1>4

\* The sum of a set is its first member and the sum of the others.
LEMMA SumFirst ==
  ASSUME NEW S, IsFiniteSet(S)
  PROVE  SumSet(S) = IF S = {} THEN 0 ELSE First(S) + SumSet(S \ {First(S)})
<1>1. PICK g : Sums(SUBSET S, g) /\ SumSet(S) = g[S]  BY SumIsLast
<1>2. g[S] = IF S = {} THEN 0 ELSE First(S) + g[S \ {First(S)}]  BY <1>1 DEF Sums
<1>3. \A T \in SUBSET S : SumSet(T) = g[T]
  <2>1. TAKE T \in SUBSET S
  <2>. QED BY <1>1, SumAmong
<1>4. S \ {First(S)} \in SUBSET S  OBVIOUS
<1>5. SumSet(S \ {First(S)}) = g[S \ {First(S)}]  BY <1>3, <1>4
<1>. QED BY <1>1, <1>2, <1>5

\* Sizes add up to a number.
LEMMA SumType ==
  ASSUME NEW S \in SUBSET Nat, IsFiniteSet(S)
  PROVE  SumSet(S) \in Nat
<1>. DEFINE Bad == {s \in SUBSET S : SumSet(s) \notin Nat}
<1>. SUFFICES ASSUME Bad # {}  PROVE FALSE  OBVIOUS
<1>1. \A s \in Bad : IsFiniteSet(s)  BY FS_Subset
<1>2. PICK s \in Bad : \A r \in Bad : Cardinality(s) <= Cardinality(r)
  <2>. HIDE DEF Bad
  <2>. QED BY <1>1, SmallestSet
<1>3. SumSet(s) = IF s = {} THEN 0 ELSE First(s) + SumSet(s \ {First(s)})
  BY <1>1, SumFirst
<1>4. s # {}  BY <1>3
<1>5. First(s) \in s  BY <1>4 DEF First
<1>6. Cardinality(s \ {First(s)}) < Cardinality(s)  BY <1>1, <1>5, MemberTaken
<1>7. s \ {First(s)} \notin Bad
  <2>1. Cardinality(s \ {First(s)}) \in Nat /\ Cardinality(s) \in Nat  BY <1>1, <1>5, MemberTaken
  <2>. HIDE DEF Bad
  <2>. QED BY <1>2, <1>6, <2>1
<1>8. SumSet(s \ {First(s)}) \in Nat /\ First(s) \in Nat  BY <1>5, <1>7
<1>9. SumSet(s) = First(s) + SumSet(s \ {First(s)})  BY <1>3, <1>4
<1>10. SumSet(s) \in Nat
  <2>. HIDE DEF Bad
  <2>. QED BY <1>8, <1>9
<1>. QED BY <1>10

\* Whichever member is taken first, the sum is the same.
LEMMA SumTakes ==
  ASSUME NEW S \in SUBSET Nat, IsFiniteSet(S), NEW x \in S
  PROVE  SumSet(S) = x + SumSet(S \ {x})
<1>. DEFINE Bad == {s \in SUBSET S : \E y \in s : SumSet(s) # y + SumSet(s \ {y})}
<1>. SUFFICES ASSUME Bad # {}  PROVE FALSE  OBVIOUS
<1>1. \A s \in Bad : IsFiniteSet(s)  BY FS_Subset
<1>2. PICK s \in Bad : \A r \in Bad : Cardinality(s) <= Cardinality(r)
  <2>. HIDE DEF Bad
  <2>. QED BY <1>1, SmallestSet
<1>3. PICK y \in s : SumSet(s) # y + SumSet(s \ {y})  OBVIOUS
<1>. DEFINE c == First(s)
<1>4. c \in s  BY DEF First
<1>5. ASSUME NEW z \in s, NEW v \in s \ {z}
      PROVE  SumSet(s \ {z}) = v + SumSet((s \ {z}) \ {v})
  <2>1. Cardinality(s \ {z}) < Cardinality(s) /\ Cardinality(s \ {z}) \in Nat /\ Cardinality(s) \in Nat
    <3>1. IsFiniteSet(s)  BY <1>1
    <3>. HIDE DEF Bad
    <3>2. /\ Cardinality(s) \in Nat /\ Cardinality(s \ {z}) \in Nat
          /\ Cardinality(s \ {z}) = Cardinality(s) - 1
      BY <3>1, MemberTaken
    <3>. QED BY <3>2
  <2>2. s \ {z} \notin Bad
    <3>. HIDE DEF Bad
    <3>. QED BY <1>2, <2>1
  <2>. QED BY <2>2
<1>6. SumSet(s) = c + SumSet(s \ {c})  BY <1>1, <1>4, SumFirst
<1>. HIDE DEF c
<1>7. c # y  BY <1>3, <1>6
<1>8. SumSet(s \ {c}) = y + SumSet((s \ {c}) \ {y})  BY <1>4, <1>5, <1>7
<1>9. SumSet(s \ {y}) = c + SumSet((s \ {y}) \ {c})  BY <1>4, <1>5, <1>7
<1>10. (s \ {y}) \ {c} = (s \ {c}) \ {y}  OBVIOUS
<1>11. SumSet((s \ {c}) \ {y}) \in Nat
  <2>1. IsFiniteSet((s \ {c}) \ {y}) /\ (s \ {c}) \ {y} \in SUBSET Nat  BY <1>1, FS_Subset
  <2>. QED BY <2>1, SumType
<1>12. c \in Nat /\ y \in Nat  BY <1>4
<1>. QED BY <1>3, <1>6, <1>8, <1>9, <1>10, <1>11, <1>12

\* The sum of a set is that of its two parts.
LEMMA SumSplits ==
  ASSUME NEW S \in SUBSET Nat, IsFiniteSet(S), NEW A \in SUBSET S
  PROVE  SumSet(S) = SumSet(A) + SumSet(S \ A)
<1>. DEFINE Bad == {s \in SUBSET A : SumSet(s \cup (S \ A)) # SumSet(s) + SumSet(S \ A)}
<1>1. ASSUME Bad # {}  PROVE FALSE
  <2>1. \A s \in Bad : IsFiniteSet(s)  BY FS_Subset
  <2>2. PICK s \in Bad : \A r \in Bad : Cardinality(s) <= Cardinality(r)
    <3>. HIDE DEF Bad
    <3>. QED BY <1>1, <2>1, SmallestSet
  <2>. DEFINE R == S \ A
              x == First(s)
              r == s \ {x}
  <2>3. IsFiniteSet(R) /\ IsFiniteSet(s) /\ R \in SUBSET Nat /\ s \in SUBSET Nat
    BY FS_Subset
  <2>4. SumSet(R) \in Nat  BY <2>3, SumType
  <2>5. s # {}
    <3>1. SumSet({}) = 0  BY FS_EmptySet, SumFirst
    <3>2. ASSUME s = {}  PROVE s \cup R = R  BY <3>2
    <3>. QED BY <2>4, <3>1, <3>2
  <2>6. x \in s  BY <2>5 DEF First
  <2>. HIDE DEF x
  <2>7. Cardinality(r) < Cardinality(s) /\ Cardinality(r) \in Nat /\ Cardinality(s) \in Nat
    BY <2>3, <2>6, MemberTaken
  <2>8. r \notin Bad
    <3>. HIDE DEF Bad, r
    <3>. QED BY <2>2, <2>7
  <2>9. SumSet(r \cup R) = SumSet(r) + SumSet(R)  BY <2>8
  <2>10. SumSet(s) = x + SumSet(r)  BY <2>3, <2>6, SumTakes
  <2>11. SumSet(s \cup R) = x + SumSet(r \cup R)
    <3>1. s \cup R \in SUBSET Nat /\ x \in s \cup R /\ (s \cup R) \ {x} = r \cup R
      BY <2>3, <2>6
    <3>2. IsFiniteSet(s \cup R)  BY <2>3, FS_Union
    <3>. HIDE DEF r, R
    <3>. QED BY <3>1, <3>2, SumTakes
  <2>12. SumSet(r) \in Nat /\ x \in Nat
    <3>1. IsFiniteSet(r) /\ r \in SUBSET Nat  BY <2>3, FS_Subset
    <3>. QED BY <2>3, <2>6, <3>1, SumType
  <2>13. SumSet(s \cup R) = SumSet(s) + SumSet(R)
    <3>. HIDE DEF r, R
    <3>. QED BY <2>4, <2>9, <2>10, <2>11, <2>12
  <2>. QED BY <2>13
<1>2. A \cup (S \ A) = S  OBVIOUS
<1>. QED BY <1>1, <1>2

-----------------------------------------------------------------------------
(***************************************************************************)
(* The Storage tab.                                                        *)
(***************************************************************************)

\* The cursor is within the rows, where there are any.
CursorWithin == Rows(tab) # {} => tab.cursor < Cardinality(Rows(tab))

\* Nothing destroyed is still selected.
NothingGoneSelected == tab.selected \cap tab.reclaimed = {}

\* A half archive has a writer at its path.
HalfIsWritten == \A a \in Artifact : file[a] = "part" => copies[a].on > 0

\* The bound is on the writers of one Artifact, wherever they write.
CopiesBounded == \A a \in Artifact : copies[a].on + copies[a].off <= MaxCopies

StorageInv ==
  StorageTypeOK /\ CursorWithin /\ NothingGoneSelected /\ HalfIsWritten /\ CopiesBounded

\* The types, by what each part of a step sets.
TabRec == [cap : [Place -> Classification], held : [Place -> SUBSET Object],
           counted : [Place -> SUBSET Cache], cursor : Nat,
           selected : SUBSET Object, only : BOOLEAN, reclaimed : SUBSET Object,
           confirm : SUBSET Object]
HeldIn(t) == \A r \in Place : t.held[r] \cup t.counted[r] \subseteq In(r)
TabOK(t) ==
  /\ t \in TabRec /\ HeldIn(t) /\ t.cursor <= Cardinality(Object)
  /\ Rows(t) # {} => t.cursor < Cardinality(Rows(t))
  /\ t.selected \cap t.reclaimed = {}
ApiOK == index \subseteq Object /\ offers \in [Place -> Classification]
FetchesOK == fetches \in Seq(Fetch) /\ Len(fetches) <= MaxFetches
WorkRec == [aim : SUBSET Object, done : SUBSET Object]
WorkOK == work \in WorkRec /\ work.done \subseteq work.aim
CopyRec == [on : 0..MaxCopies, off : 0..MaxCopies]
FilesOK ==
  /\ file \in [Artifact -> {"absent", "part", "whole"}]
  /\ copies \in [Artifact -> CopyRec]
  /\ HalfIsWritten /\ CopiesBounded
StorageParts == ApiOK /\ TabOK(tab) /\ FetchesOK /\ WorkOK /\ FilesOK

\* There are finitely many objects and repositories, and sizes are numbers.
LEMMA ObjectsAre ==
  /\ Object \in SUBSET Nat /\ IsFiniteSet(Object) /\ Cardinality(Object) \in Nat
  /\ IsFiniteSet(Place)
  /\ Cache \subseteq Object /\ Artifact \subseteq Object
  /\ MaxFetches \in Nat /\ MaxCopies \in Nat
<1>1. Object \in SUBSET Nat /\ IsFiniteSet(Object) /\ Cache \subseteq Object /\ Artifact \subseteq Object
  BY StorageAssumption DEF Object
<1>2. Cardinality(Object) \in Nat  BY <1>1, FS_CardinalityType
<1>3. IsFiniteSet(Place)
  <2>. DEFINE f == [o \in Object |-> Home[o]]
  <2>1. f \in Surjection(Object, Place)  BY DEF Surjection, Place
  <2>. HIDE DEF f
  <2>. QED BY <1>1, <2>1, FS_Surjection
<1>. QED BY <1>1, <1>2, <1>3, StorageAssumption

LEMMA StorageIsItsParts == StorageInv <=> StorageParts
<1>. DEFINE R(C) == [cap : [Place -> Classification], held : [Place -> SUBSET Object],
              counted : [Place -> SUBSET Cache], cursor : C,
              selected : SUBSET Object, only : BOOLEAN, reclaimed : SUBSET Object,
              confirm : SUBSET Object]
<1>1. tab \in R(0..Cardinality(Object)) <=> tab \in R(Nat) /\ tab.cursor \in 0..Cardinality(Object)
  OBVIOUS
<1>2. tab \in R(Nat) => (tab.cursor \in 0..Cardinality(Object) <=> tab.cursor <= Cardinality(Object))
  BY ObjectsAre
<1>3. tab \in R(0..Cardinality(Object)) <=> tab \in TabRec /\ tab.cursor <= Cardinality(Object)
  BY <1>1, <1>2 DEF TabRec
<1>4. StorageTypeOK <=>
        /\ ApiOK /\ tab \in R(0..Cardinality(Object)) /\ HeldIn(tab) /\ FetchesOK /\ WorkOK
        /\ file \in [Artifact -> {"absent", "part", "whole"}] /\ copies \in [Artifact -> CopyRec]
  BY DEF StorageTypeOK, ApiOK, HeldIn, FetchesOK, WorkRec, WorkOK, CopyRec
<1>. HIDE DEF R
<1>. QED BY <1>3, <1>4 DEF StorageInv, CursorWithin, NothingGoneSelected, StorageParts, TabOK, FilesOK

\* The rows are objects still held and not reclaimed.
LEMMA RowsAre ==
  ASSUME NEW t, t \in TabRec
  PROVE  /\ Rows(t) \subseteq Object /\ IsFiniteSet(Rows(t)) /\ Cardinality(Rows(t)) \in Nat
         /\ Cardinality(Rows(t)) <= Cardinality(Object)
         /\ Rows(t) \cap t.reclaimed = {}
<1>1. Rows(t) \subseteq Object /\ Rows(t) \cap t.reclaimed = {}
  BY DEF Rows, Visible, TabRec
<1>2. IsFiniteSet(Rows(t)) /\ Cardinality(Rows(t)) <= Cardinality(Object)
  BY <1>1, ObjectsAre, FS_Subset
<1>. QED BY <1>1, <1>2, FS_CardinalityType

\* A finite set of numbers has a member with any smaller number of larger ones.
LEMMA Ranked ==
  ASSUME NEW S \in SUBSET Nat, IsFiniteSet(S), NEW c \in Nat, c < Cardinality(S)
  PROVE  \E o \in S : Cardinality({p \in S : p > o}) = c
<1>. DEFINE n == Cardinality(S)
            Above(o) == {p \in S : p > o}
            f == [o \in S |-> Cardinality(Above(o))]
<1>1. n \in Nat  BY FS_CardinalityType
<1>2. ASSUME NEW o \in S
      PROVE  /\ Cardinality(Above(o)) \in 0..(n - 1) /\ IsFiniteSet(Above(o))
  <2>1. Above(o) \in SUBSET (S \ {o})  OBVIOUS
  <2>2. IsFiniteSet(S \ {o}) /\ Cardinality(S \ {o}) = n - 1  BY MemberTaken
  <2>. HIDE DEF Above
  <2>3. IsFiniteSet(Above(o)) /\ Cardinality(Above(o)) <= n - 1  BY <2>1, <2>2, FS_Subset
  <2>4. Cardinality(Above(o)) \in Nat  BY <2>3, FS_CardinalityType
  <2>. HIDE DEF n
  <2>. QED BY <1>1, <2>3, <2>4
<1>3. ASSUME NEW o \in S, NEW q \in S, o < q
      PROVE  Cardinality(Above(o)) # Cardinality(Above(q))
  <2>1. q \in Above(o) /\ Above(q) \in SUBSET (Above(o) \ {q})
    <3>1. \A p \in S : p > q => p > o /\ p # q
      <4>1. TAKE p \in S
      <4>2. p \in Nat /\ q \in Nat /\ o \in Nat  OBVIOUS
      <4>. QED BY <1>3, <4>2
    <3>2. q > o  BY <1>3
    <3>. QED BY <3>1, <3>2
  <2>2. IsFiniteSet(Above(o))  BY <1>2
  <2>. HIDE DEF Above
  <2>3. /\ IsFiniteSet(Above(o) \ {q}) /\ Cardinality(Above(o)) \in Nat
        /\ Cardinality(Above(o) \ {q}) = Cardinality(Above(o)) - 1
    BY <2>1, <2>2, MemberTaken
  <2>4. Cardinality(Above(q)) <= Cardinality(Above(o) \ {q})  BY <2>1, <2>3, FS_Subset
  <2>5. Cardinality(Above(q)) \in Nat  BY <2>1, <2>3, FS_Subset, FS_CardinalityType
  <2>. QED BY <2>3, <2>4, <2>5
<1>4. f \in Injection(S, 0..(n - 1))
  <2>1. f \in [S -> 0..(n - 1)]  BY <1>2
  <2>2. ASSUME NEW a \in S, NEW b \in S, a # b  PROVE f[a] # f[b]
    <3>1. a < b \/ b < a  BY <2>2
    <3>. HIDE DEF Above
    <3>2. f[a] = Cardinality(Above(a)) /\ f[b] = Cardinality(Above(b))  OBVIOUS
    <3>. HIDE DEF f
    <3>. QED BY <1>3, <3>1, <3>2
  <2>. HIDE DEF f, n
  <2>. QED BY <2>1, <2>2 DEF Injection, IsInjective
<1>5. IsFiniteSet(0..(n - 1)) /\ Cardinality(0..(n - 1)) = n
  <2>. HIDE DEF n
  <2>1. n # 0  BY <1>1 DEF n
  <2>. QED BY <1>1, <2>1, FS_Interval
<1>6. f \in Surjection(S, 0..(n - 1))
  <2>. HIDE DEF f
  <2>. QED BY <1>4, <1>5, FS_Injection
<1>7. c \in 0..(n - 1)
  <2>1. c < n  OBVIOUS
  <2>. HIDE DEF n
  <2>. QED BY <1>1, <2>1
<1>8. PICK o \in S : f[o] = c
  <2>. HIDE DEF f
  <2>. QED BY <1>6, <1>7 DEF Surjection
<1>. QED BY <1>8

\* So the cursor is on a row.
LEMMA CursorIsOnRow ==
  ASSUME NEW t, TabOK(t), Rows(t) # {}
  PROVE  OnRow(t) # {}
<1>1. Rows(t) \in SUBSET Nat /\ IsFiniteSet(Rows(t))  BY ObjectsAre, RowsAre DEF TabOK
<1>2. t.cursor \in Nat /\ t.cursor < Cardinality(Rows(t))  BY ObjectsAre DEF TabOK, TabRec
<1>3. \E o \in Rows(t) : Cardinality({p \in Rows(t) : p > o}) = t.cursor  BY <1>1, <1>2, Ranked
<1>. QED BY <1>3 DEF OnRow

\* displayRows leaves the cursor within the rows.
LEMMA ClampFits ==
  ASSUME NEW t, t \in TabRec, HeldIn(t), t.selected \cap t.reclaimed = {}
  PROVE  TabOK(Clamp(t)) /\ \A k \in DOMAIN t \ {"cursor"} : Clamp(t)[k] = t[k]
<1>. DEFINE n == Cardinality(Rows(t))
            c == Clip(IF t.cursor >= n THEN n - 1 ELSE t.cursor)
<1>1. n \in Nat /\ n <= Cardinality(Object) /\ Cardinality(Object) \in Nat  BY ObjectsAre, RowsAre
<1>2. t.cursor \in Nat  BY DEF TabRec
<1>3. Clamp(t) = [t EXCEPT !.cursor = c]  BY DEF Clamp
<1>. HIDE DEF n
<1>4. c \in Nat /\ c <= Cardinality(Object) /\ (n > 0 => c < n)  BY <1>1, <1>2 DEF Clip
<1>5. Rows(t) # {} => n > 0
  <2>1. n = 0 => Rows(t) = {}  BY RowsAre, FS_EmptySet DEF n
  <2>. QED BY <1>1, <2>1
<1>. HIDE DEF c
<1>6. Clamp(t) \in TabRec  BY <1>3, <1>4 DEF TabRec
<1>7. Rows(Clamp(t)) = Rows(t)  BY <1>3 DEF Rows, Visible, TabRec
<1>8. Clamp(t).cursor = c /\ c <= Cardinality(Object)  BY <1>4, <1>3 DEF TabRec
<1>9. HeldIn(Clamp(t)) /\ Clamp(t).selected \cap Clamp(t).reclaimed = {}
  BY <1>3 DEF HeldIn, TabRec
<1>10. Rows(Clamp(t)) # {} => Clamp(t).cursor < Cardinality(Rows(Clamp(t)))
  BY <1>4, <1>5, <1>7, <1>8 DEF n
<1>11. \A k \in DOMAIN t \ {"cursor"} : Clamp(t)[k] = t[k]  BY <1>3 DEF TabRec
<1>. QED BY <1>6, <1>8, <1>9, <1>10, <1>11 DEF TabOK

-----------------------------------------------------------------------------
\* Asking again is a fetch of each repository in scope.
LEMMA AskingKeeps ==
  ASSUME StorageParts, StartFetch
  PROVE  TabOK(tab)' /\ FetchesOK'
<1>. DEFINE A == {[repo |-> r, at |-> "usage", counted |-> {}, held |-> {}] : r \in ScopeRepos(offers)}
<1>1. ScopeRepos(offers) \in SUBSET Place
  BY StorageAssumption DEF ScopeRepos, Place, Object
<1>2. IsFiniteSet(A)
  <2>1. IsFiniteSet(ScopeRepos(offers))  BY <1>1, ObjectsAre, FS_Subset
  <2>. DEFINE f == [r \in ScopeRepos(offers) |->
                      [repo |-> r, at |-> "usage", counted |-> {}, held |-> {}]]
  <2>2. f \in Surjection(ScopeRepos(offers), A)  BY DEF Surjection
  <2>. HIDE DEF f
  <2>. QED BY <2>1, <2>2, FS_Surjection
<1>3. A \subseteq Fetch  BY <1>1 DEF Fetch
<1>4. /\ Len(fetches) + Cardinality(A) <= MaxFetches /\ fetches' = fetches \o SetToSeq(A)
      /\ tab' = [tab EXCEPT !.cap = offers]
  BY DEF StartFetch
<1>. HIDE DEF A
<1>5. SetToSeq(A) \in Seq(A) /\ Len(SetToSeq(A)) = Cardinality(A)  BY <1>2, SetIsSequence
<1>6. SetToSeq(A) \in Seq(Fetch)  BY <1>3, <1>5
<1>7. fetches \in Seq(Fetch)  BY DEF StorageParts, FetchesOK
<1>8. fetches' \in Seq(Fetch) /\ Len(fetches') = Len(fetches) + Cardinality(A)
  BY <1>4, <1>5, <1>6, <1>7
<1>9. FetchesOK'  BY <1>4, <1>8 DEF FetchesOK
<1>10. tab \in TabRec /\ offers \in [Place -> Classification]  BY DEF StorageParts, TabOK, ApiOK
<1>11. tab' \in TabRec  BY <1>4, <1>10 DEF TabRec
<1>12. Rows(tab') = Rows(tab) /\ tab'.cursor = tab.cursor
  BY <1>4, <1>10 DEF Rows, Visible, TabRec
<1>13. HeldIn(tab') /\ tab'.selected \cap tab'.reclaimed = {}
  BY <1>4, <1>10 DEF StorageParts, TabOK, HeldIn, TabRec
<1>14. TabOK(tab')
  BY <1>11, <1>12, <1>13 DEF StorageParts, TabOK
<1>. QED BY <1>9, <1>14

\* The modal, and its answer.
LEMMA ConfirmKeeps ==
  ASSUME StorageParts, OpenConfirm
  PROVE  TabOK(tab')
<1>1. tab \in TabRec  BY DEF StorageParts, TabOK
<1>2. Rows(tab) \subseteq Object  BY <1>1, RowsAre
<1>3. PICK s \in SUBSET Object : tab' = [tab EXCEPT !.confirm = s]
  <2>1. {o \in Frozen(tab) : tab.cap[Home[o]] = "ours"} \subseteq Object
    BY <1>2 DEF Frozen, OnRow
  <2>. QED BY <2>1 DEF OpenConfirm
<1>4. tab' \in TabRec  BY <1>1, <1>3 DEF TabRec
<1>5. Rows(tab') = Rows(tab) /\ tab'.cursor = tab.cursor
  BY <1>1, <1>3 DEF Rows, Visible, TabRec
<1>6. HeldIn(tab') /\ tab'.selected \cap tab'.reclaimed = {}
  BY <1>1, <1>3 DEF StorageParts, TabOK, HeldIn, TabRec
<1>. QED BY <1>4, <1>5, <1>6 DEF StorageParts, TabOK

LEMMA ReclaimKeyKeeps ==
  ASSUME StorageParts, ReclaimKey
  PROVE  TabOK(tab') /\ WorkOK'
<1>1. tab \in TabRec  BY DEF StorageParts, TabOK
<1>2. tab' = [tab EXCEPT !.confirm = {}]  BY DEF ReclaimKey
<1>3. tab' \in TabRec  BY <1>1, <1>2 DEF TabRec
<1>4. Rows(tab') = Rows(tab) /\ tab'.cursor = tab.cursor
  BY <1>1, <1>2 DEF Rows, Visible, TabRec
<1>5. HeldIn(tab') /\ tab'.selected \cap tab'.reclaimed = {}
  BY <1>1, <1>2 DEF StorageParts, TabOK, HeldIn, TabRec
<1>6. TabOK(tab')  BY <1>3, <1>4, <1>5 DEF StorageParts, TabOK
<1>7. work' = work \/ work' = [Idle EXCEPT !.aim = tab.confirm]  BY DEF ReclaimKey
<1>8. tab.confirm \subseteq Object  BY <1>1 DEF TabRec
<1>9. WorkOK'
  BY <1>7, <1>8 DEF StorageParts, WorkOK, WorkRec, Idle
<1>. QED BY <1>6, <1>9

\* A selection is of rows on screen.
LEMMA SelectKeeps ==
  ASSUME StorageParts, ToggleSelect
  PROVE  TabOK(tab')
<1>1. tab \in TabRec  BY DEF StorageParts, TabOK
<1>2. OnRow(tab) \subseteq Object /\ OnRow(tab) \cap tab.reclaimed = {}
  BY <1>1, RowsAre DEF OnRow
<1>3. tab' = [tab EXCEPT !.selected = SymDiff(@, OnRow(tab))]  BY DEF ToggleSelect
<1>4. tab' \in TabRec  BY <1>1, <1>2, <1>3 DEF TabRec, SymDiff
<1>5. Rows(tab') = Rows(tab) /\ tab'.cursor = tab.cursor
  BY <1>1, <1>3 DEF Rows, Visible, TabRec
<1>6. HeldIn(tab')  BY <1>1, <1>3 DEF StorageParts, TabOK, HeldIn, TabRec
<1>7. tab'.selected \cap tab'.reclaimed = {}
  BY <1>1, <1>2, <1>3 DEF StorageParts, TabOK, TabRec, SymDiff
<1>. QED BY <1>4, <1>5, <1>6, <1>7 DEF StorageParts, TabOK

LEMMA ArtifactsOnlyKeeps ==
  ASSUME StorageParts, ArtifactsOnly
  PROVE  TabOK(tab')
<1>1. tab \in TabRec  BY DEF StorageParts, TabOK
<1>2. tab' = [tab EXCEPT !.only = ~@, !.cursor = 0]  BY DEF ArtifactsOnly
<1>3. tab' \in TabRec
  BY <1>1, <1>2 DEF TabRec
<1>4. HeldIn(tab') /\ tab'.selected \cap tab'.reclaimed = {} /\ tab'.cursor = 0
  BY <1>1, <1>2 DEF StorageParts, TabOK, HeldIn, TabRec
<1>5. Rows(tab') # {} => 0 < Cardinality(Rows(tab'))
  <2>1. IsFiniteSet(Rows(tab')) /\ Cardinality(Rows(tab')) \in Nat  BY <1>3, RowsAre
  <2>2. Cardinality(Rows(tab')) = 0 => Rows(tab') = {}  BY <2>1, FS_EmptySet
  <2>. QED BY <2>1, <2>2
<1>6. 0 <= Cardinality(Object)  BY ObjectsAre
<1>. QED BY <1>3, <1>4, <1>5, <1>6 DEF TabOK

LEMMA CursorKeeps ==
  ASSUME StorageParts, MoveCursor
  PROVE  TabOK(tab')
<1>1. PICK d \in {-1, 1} : tab' = Clamp([tab EXCEPT !.cursor = Clip(@ + d)])
  BY DEF MoveCursor
<1>. DEFINE c == Clip(tab.cursor + d)
            moved == [tab EXCEPT !.cursor = c]
<1>2. tab \in TabRec /\ tab.cursor \in Nat  BY DEF StorageParts, TabOK, TabRec
<1>3. c \in Nat  BY <1>2 DEF Clip
<1>4. tab' = Clamp(moved)  BY <1>1
<1>. HIDE DEF c
<1>5. moved \in TabRec /\ HeldIn(moved) /\ moved.selected \cap moved.reclaimed = {}
  BY <1>2, <1>3 DEF StorageParts, TabOK, HeldIn, TabRec
<1>. HIDE DEF moved
<1>. QED BY <1>4, <1>5, ClampFits

\* A download is one more writer at the path, of half an archive.
LEMMA DownloadKeeps ==
  ASSUME StorageParts, Download
  PROVE  FilesOK'
<1>1. PICK a \in Artifact :
        /\ copies[a].on + copies[a].off < MaxCopies
        /\ copies' = [copies EXCEPT ![a].on = @ + 1]
        /\ file' = [file EXCEPT ![a] = "part"]
  BY DEF Download
<1>2. copies \in [Artifact -> CopyRec] /\ file \in [Artifact -> {"absent", "part", "whole"}]
  BY DEF StorageParts, FilesOK
<1>. DEFINE n == copies[a].on + 1
<1>3. n \in 0..MaxCopies /\ n > 0
  <2>1. copies[a].on \in Nat /\ copies[a].off \in Nat  BY <1>2 DEF CopyRec
  <2>. QED BY <1>1, <2>1, ObjectsAre
<1>4. copies' = [copies EXCEPT ![a].on = n]  BY <1>1
<1>. HIDE DEF n
<1>5. copies' \in [Artifact -> CopyRec]  BY <1>2, <1>3, <1>4 DEF CopyRec
<1>6. file' \in [Artifact -> {"absent", "part", "whole"}]  BY <1>1, <1>2
<1>7. HalfIsWritten'
  <2>1. copies'[a].on = n /\ \A b \in Artifact \ {a} : copies'[b] = copies[b] /\ file'[b] = file[b]
    BY <1>1, <1>2, <1>4 DEF CopyRec
  <2>. QED BY <1>3, <2>1 DEF StorageParts, FilesOK, HalfIsWritten
<1>8. CopiesBounded'
  <2>1. /\ copies'[a].on = n /\ copies'[a].off = copies[a].off
        /\ \A b \in Artifact \ {a} : copies'[b] = copies[b]
    BY <1>2, <1>4 DEF CopyRec
  <2>2. n + copies[a].off <= MaxCopies
    <3>1. copies[a].on \in Nat /\ copies[a].off \in Nat  BY <1>2 DEF CopyRec
    <3>. QED BY <1>1, <3>1, ObjectsAre DEF n
  <2>. QED BY <2>1, <2>2 DEF StorageParts, FilesOK, CopiesBounded
<1>. QED BY <1>5, <1>6, <1>7, <1>8 DEF FilesOK

\* A copy's end leaves half an archive only where another writer is at it.
LEMMA CopyEndKeeps ==
  ASSUME StorageParts, NEW a \in Artifact, CopyEnds(a)
  PROVE  FilesOK'
<1>1. copies \in [Artifact -> CopyRec] /\ file \in [Artifact -> {"absent", "part", "whole"}]
  BY DEF StorageParts, FilesOK
<1>2. copies[a].on \in 0..MaxCopies /\ copies[a].off \in 0..MaxCopies
  BY <1>1 DEF CopyRec
<1>3. copies[a].on + copies[a].off <= MaxCopies  BY DEF StorageParts, FilesOK, CopiesBounded
<1>4. ASSUME copies[a].on > 0, copies' = [copies EXCEPT ![a].on = @ - 1],
             file' = [file EXCEPT ![a] = IF copies[a].on = 1 THEN "whole" ELSE @]
      PROVE  FilesOK'
  <2>. DEFINE n == copies[a].on - 1
  <2>1. n \in 0..MaxCopies /\ (n = 0 <=> copies[a].on = 1)  BY <1>2, <1>4, ObjectsAre
  <2>2. copies' = [copies EXCEPT ![a].on = n]  BY <1>4
  <2>. HIDE DEF n
  <2>3. copies' \in [Artifact -> CopyRec]  BY <1>1, <2>1, <2>2 DEF CopyRec
  <2>4. file' \in [Artifact -> {"absent", "part", "whole"}]  BY <1>1, <1>4
  <2>5. copies'[a].on = n /\ \A b \in Artifact \ {a} : copies'[b] = copies[b] /\ file'[b] = file[b]
    BY <1>1, <1>4, <2>2 DEF CopyRec
  <2>6. file'[a] = "part" => n > 0
    <3>1. n = 0 => file'[a] = "whole"  BY <1>1, <1>4, <2>1
    <3>. QED BY <2>1, <3>1, ObjectsAre
  <2>7. HalfIsWritten'  BY <2>5, <2>6 DEF StorageParts, FilesOK, HalfIsWritten
  <2>8. copies'[a].off = copies[a].off  BY <1>1, <2>2 DEF CopyRec
  <2>9. n + copies[a].off <= MaxCopies  BY <1>2, <1>3, ObjectsAre DEF n
  <2>10. CopiesBounded'  BY <2>5, <2>8, <2>9 DEF StorageParts, FilesOK, CopiesBounded
  <2>. QED BY <2>3, <2>4, <2>7, <2>10 DEF FilesOK
<1>5. ASSUME copies[a].off > 0, copies' = [copies EXCEPT ![a].off = @ - 1], UNCHANGED file
      PROVE  FilesOK'
  <2>. DEFINE n == copies[a].off - 1
  <2>1. n \in 0..MaxCopies  BY <1>2, <1>5, ObjectsAre
  <2>2. copies' = [copies EXCEPT ![a].off = n]  BY <1>5
  <2>. HIDE DEF n
  <2>3. copies' \in [Artifact -> CopyRec]  BY <1>1, <2>1, <2>2 DEF CopyRec
  <2>4. \A b \in Artifact : copies'[b].on = copies[b].on  BY <1>1, <2>2 DEF CopyRec
  <2>5. HalfIsWritten'  BY <1>5, <2>4 DEF StorageParts, FilesOK, HalfIsWritten
  <2>6. copies'[a].off = n /\ \A b \in Artifact \ {a} : copies'[b] = copies[b]
    BY <1>1, <2>2 DEF CopyRec
  <2>7. copies[a].on + n <= MaxCopies  BY <1>2, <1>3, ObjectsAre DEF n
  <2>8. CopiesBounded'  BY <2>4, <2>6, <2>7 DEF StorageParts, FilesOK, CopiesBounded
  <2>. QED BY <1>1, <1>5, <2>3, <2>5, <2>8 DEF FilesOK
<1>. QED BY <1>4, <1>5 DEF CopyEnds

\* A copy's failure leaves nothing at the path: its writers write elsewhere.
LEMMA CopyFailKeeps ==
  ASSUME StorageParts, NEW a \in Artifact, CopyFails(a)
  PROVE  FilesOK'
<1>1. copies \in [Artifact -> CopyRec] /\ file \in [Artifact -> {"absent", "part", "whole"}]
  BY DEF StorageParts, FilesOK
<1>2. /\ copies[a].on \in 0..MaxCopies /\ copies[a].off \in 0..MaxCopies
      /\ copies[a].on + copies[a].off <= MaxCopies
  BY <1>1 DEF CopyRec, StorageParts, FilesOK, CopiesBounded
<1>3. PICK n \in 0..MaxCopies :
        /\ copies' = [copies EXCEPT ![a] = [on |-> 0, off |-> n]]
        /\ file' = [file EXCEPT ![a] = "absent"]
  <2>1. ASSUME copies[a].on > 0, RemovePartial(a, [copies[a] EXCEPT !.on = @ - 1])
        PROVE  \E n \in 0..MaxCopies :
                 /\ copies' = [copies EXCEPT ![a] = [on |-> 0, off |-> n]]
                 /\ file' = [file EXCEPT ![a] = "absent"]
    <3>. DEFINE n == (copies[a].on - 1) + copies[a].off
    <3>1. n \in 0..MaxCopies  BY <1>2, <2>1, ObjectsAre
    <3>2. copies' = [copies EXCEPT ![a] = [on |-> 0, off |-> n]]
      BY <1>1, <2>1 DEF RemovePartial, CopyRec
    <3>3. file' = [file EXCEPT ![a] = "absent"]  BY <2>1 DEF RemovePartial
    <3>. HIDE DEF n
    <3>. QED BY <3>1, <3>2, <3>3
  <2>2. ASSUME copies[a].off > 0, RemovePartial(a, [copies[a] EXCEPT !.off = @ - 1])
        PROVE  \E n \in 0..MaxCopies :
                 /\ copies' = [copies EXCEPT ![a] = [on |-> 0, off |-> n]]
                 /\ file' = [file EXCEPT ![a] = "absent"]
    <3>. DEFINE n == copies[a].on + (copies[a].off - 1)
    <3>1. n \in 0..MaxCopies  BY <1>2, <2>2, ObjectsAre
    <3>2. copies' = [copies EXCEPT ![a] = [on |-> 0, off |-> n]]
      BY <1>1, <2>2 DEF RemovePartial, CopyRec
    <3>3. file' = [file EXCEPT ![a] = "absent"]  BY <2>2 DEF RemovePartial
    <3>. HIDE DEF n
    <3>. QED BY <3>1, <3>2, <3>3
  <2>. QED BY <2>1, <2>2 DEF CopyFails
<1>4. copies' \in [Artifact -> CopyRec] /\ file' \in [Artifact -> {"absent", "part", "whole"}]
  <2>1. 0 \in 0..MaxCopies  BY ObjectsAre
  <2>. QED BY <1>1, <1>3, <2>1 DEF CopyRec
<1>5. /\ copies'[a] = [on |-> 0, off |-> n] /\ file'[a] = "absent"
      /\ \A b \in Artifact \ {a} : copies'[b] = copies[b] /\ file'[b] = file[b]
  BY <1>1, <1>3
<1>6. HalfIsWritten'  BY <1>5 DEF StorageParts, FilesOK, HalfIsWritten
<1>7. CopiesBounded'  BY <1>3, <1>5, ObjectsAre DEF StorageParts, FilesOK, CopiesBounded
<1>. QED BY <1>4, <1>6, <1>7 DEF FilesOK

\* A fetch's answers are of the listings of its repository.
LEMMA FetchesKeep ==
  ASSUME StorageParts, FetchMoves
  PROVE  TabOK(tab') /\ FetchesOK'
<1>1. fetches \in Seq(Fetch) /\ Len(fetches) <= MaxFetches /\ tab \in TabRec /\ HeldIn(tab)
      /\ index \subseteq Object
  BY DEF StorageParts, FetchesOK, TabOK, ApiOK
<1>2. ASSUME NEW i \in DOMAIN fetches, NEW g \in Fetch, fetches' = [fetches EXCEPT ![i] = g],
             UNCHANGED tab
      PROVE  TabOK(tab') /\ FetchesOK'
  <2>1. fetches' \in Seq(Fetch) /\ Len(fetches') = Len(fetches)  BY <1>1, <1>2
  <2>2. TabOK(tab')  BY <1>2 DEF StorageParts
  <2>. QED BY <1>1, <2>1, <2>2 DEF FetchesOK
<1>3. ASSUME NEW i \in DOMAIN fetches, fetches[i].at # "answered", FetchStep(i)
      PROVE  TabOK(tab') /\ FetchesOK'
  <2>. DEFINE f == fetches[i]
              seen == index \cap In(f.repo)
              g1 == [f EXCEPT !.at = "caches", !.counted = seen \cap Cache]
              g2 == [f EXCEPT !.at = "artifacts", !.held = seen \cap Cache]
              g3 == [f EXCEPT !.at = "answered", !.held = @ \cup (seen \cap Artifact)]
              g == CASE f.at = "usage" -> g1
                     [] f.at = "caches" -> g2
                     [] f.at = "artifacts" -> g3
  <2>1. f \in Fetch  BY <1>1
  <2>2. seen \subseteq Object /\ seen \subseteq In(f.repo)  BY <1>1
  <2>. HIDE DEF f, seen
  <2>3. g1 \in Fetch /\ g2 \in Fetch /\ g3 \in Fetch
    BY <2>1, <2>2 DEF Fetch
  <2>4. f.at \in {"usage", "caches", "artifacts"}  BY <1>3, <2>1 DEF Fetch, f
  <2>. HIDE DEF g1, g2, g3
  <2>5. g \in {g1, g2, g3}
    <3>1. "usage" # "caches" /\ "usage" # "artifacts" /\ "caches" # "artifacts"  OBVIOUS
    <3>2. CASE f.at = "usage"  BY <3>1, <3>2, Zenon
    <3>3. CASE f.at = "caches"  BY <3>1, <3>3, Zenon
    <3>4. CASE f.at = "artifacts"  BY <3>1, <3>4, Zenon
    <3>. QED BY <2>4, <3>2, <3>3, <3>4
  <2>6. fetches' = [fetches EXCEPT ![i] = g] /\ UNCHANGED tab
    BY <1>3 DEF FetchStep, g1, g2, g3, f, seen
  <2>. HIDE DEF g
  <2>7. g \in Fetch  BY <2>3, <2>5
  <2>. QED BY <1>2, <2>6, <2>7
<1>4. ASSUME NEW i \in DOMAIN fetches, FetchFails(i)
      PROVE  TabOK(tab') /\ FetchesOK'
  <2>. DEFINE g == [fetches[i] EXCEPT !.at = "answered"]
  <2>1. g \in Fetch  BY <1>1 DEF Fetch
  <2>2. fetches' = [fetches EXCEPT ![i] = g] /\ UNCHANGED tab  BY <1>4 DEF FetchFails
  <2>. QED BY <1>2, <2>1, <2>2
<1>5. ASSUME NEW i \in DOMAIN fetches, FetchLands(i)
      PROVE  TabOK(tab') /\ FetchesOK'
  <2>1. fetches[i] \in Fetch  BY <1>1
  <2>. DEFINE f == fetches[i]
              t == [tab EXCEPT !.held[f.repo] = f.held, !.counted[f.repo] = f.counted]
  <2>2. fetches' = RemoveAt(fetches, i) /\ tab' = Clamp(t)  BY <1>5 DEF FetchLands
  <2>3. FetchesOK'
    <3>1. RemoveAt(fetches, i) \in Seq(Fetch) /\ Len(RemoveAt(fetches, i)) = Len(fetches) - 1
      BY <1>1, RemovedIsSequence
    <3>2. Len(fetches) \in Nat  BY <1>1
    <3>. QED BY <1>1, <2>2, <3>1, <3>2, ObjectsAre DEF FetchesOK
  <2>. HIDE DEF f
  <2>4. f \in Fetch  BY <2>1 DEF f
  <2>5. t \in TabRec  BY <1>1, <2>4 DEF TabRec, Fetch
  <2>6. HeldIn(t)  BY <1>1, <2>4 DEF HeldIn, TabRec, Fetch
  <2>7. t.selected \cap t.reclaimed = {}  BY <1>1 DEF TabRec, StorageParts, TabOK
  <2>. HIDE DEF t
  <2>8. TabOK(Clamp(t))  BY <2>5, <2>6, <2>7, ClampFits
  <2>. QED BY <2>2, <2>3, <2>8
<1>. QED BY <1>3, <1>4, <1>5 DEF FetchMoves

\* What an operation destroyed leaves the list and the selection.
LEMMA WorkKeeps ==
  ASSUME StorageParts, WorkMoves
  PROVE  TabOK(tab') /\ WorkOK'
<1>1. tab \in TabRec /\ HeldIn(tab) /\ work \in WorkRec /\ work.done \subseteq work.aim
  BY DEF StorageParts, TabOK, WorkOK
<1>2. ASSUME NEW o \in Object, Destroy(o)  PROVE TabOK(tab') /\ WorkOK'
  <2>1. TabOK(tab')  BY <1>2 DEF Destroy, StorageParts
  <2>2. o \in work.aim /\ work' = [work EXCEPT !.done = @ \cup {o}]  BY <1>2 DEF Destroy
  <2>3. WorkOK'  BY <1>1, <2>2 DEF WorkOK, WorkRec
  <2>. QED BY <2>1, <2>3
<1>3. ASSUME DoneLands  PROVE TabOK(tab') /\ WorkOK'
  <2>. DEFINE t == [tab EXCEPT !.reclaimed = @ \cup work.done, !.selected = @ \ work.done]
  <2>1. tab' = Clamp(t) /\ work' = Idle  BY <1>3 DEF DoneLands, Reclaim
  <2>2. WorkOK'  BY <2>1 DEF WorkOK, WorkRec, Idle
  <2>3. t \in TabRec  BY <1>1 DEF TabRec, WorkRec
  <2>4. HeldIn(t) /\ t.selected \cap t.reclaimed = {}
    BY <1>1 DEF HeldIn, TabRec, StorageParts, TabOK
  <2>. HIDE DEF t
  <2>5. TabOK(Clamp(t))  BY <2>3, <2>4, ClampFits
  <2>. QED BY <2>1, <2>2, <2>5
<1>. QED BY <1>2, <1>3 DEF WorkMoves

\* The parts of the tab that a step leaves alone stay as they are.
LEMMA PartsLeft ==
  ASSUME StorageParts
  PROVE  /\ UNCHANGED <<index, offers>> => ApiOK'
         /\ UNCHANGED tab => TabOK(tab')
         /\ UNCHANGED fetches => FetchesOK'
         /\ UNCHANGED work => WorkOK'
         /\ UNCHANGED <<file, copies>> => FilesOK'
<1>1. UNCHANGED <<index, offers>> => ApiOK'  BY DEF StorageParts, ApiOK
<1>2. UNCHANGED tab => TabOK(tab')  BY DEF StorageParts
<1>3. UNCHANGED fetches => FetchesOK'  BY DEF StorageParts, FetchesOK
<1>4. UNCHANGED work => WorkOK'  BY DEF StorageParts, WorkOK
<1>5. UNCHANGED <<file, copies>> => FilesOK'
  BY DEF StorageParts, FilesOK, HalfIsWritten, CopiesBounded
<1>. QED BY <1>1, <1>2, <1>3, <1>4, <1>5

\* A key of the tab.
LEMMA StorageKeyKeeps ==
  ASSUME StorageParts, StorageKey
  PROVE  StorageParts'
<1>1. ASSUME ReclaimKey  PROVE StorageParts'
  <2>1. UNCHANGED <<index, offers>> /\ UNCHANGED fetches /\ UNCHANGED <<file, copies>>
    BY <1>1 DEF ReclaimKey
  <2>. QED BY <1>1, <2>1, PartsLeft, ReclaimKeyKeeps DEF StorageParts
<1>2. ASSUME OpenConfirm \/ ToggleSelect \/ ArtifactsOnly \/ MoveCursor,
             UNCHANGED <<index, offers, fetches, work, file, copies>>
      PROVE  StorageParts'
  <2>1. TabOK(tab')  BY <1>2, ConfirmKeeps, SelectKeeps, ArtifactsOnlyKeeps, CursorKeeps
  <2>2. /\ UNCHANGED <<index, offers>> /\ UNCHANGED fetches /\ UNCHANGED work
        /\ UNCHANGED <<file, copies>>
    BY <1>2
  <2>. QED BY <2>1, <2>2, PartsLeft DEF StorageParts
<1>3. ASSUME StartFetch, UNCHANGED <<index, offers, work, file, copies>>  PROVE StorageParts'
  <2>1. TabOK(tab') /\ FetchesOK'  BY <1>3, AskingKeeps
  <2>2. UNCHANGED <<index, offers>> /\ UNCHANGED work /\ UNCHANGED <<file, copies>>  BY <1>3
  <2>. QED BY <2>1, <2>2, PartsLeft DEF StorageParts
<1>4. ASSUME Download, UNCHANGED <<index, offers, tab, fetches, work>>  PROVE StorageParts'
  <2>1. UNCHANGED <<index, offers>> /\ UNCHANGED tab /\ UNCHANGED fetches /\ UNCHANGED work
    BY <1>4
  <2>2. FilesOK'  BY <1>4, DownloadKeeps
  <2>. QED BY <2>1, <2>2, PartsLeft DEF StorageParts
<1>. QED BY <1>1, <1>2, <1>3, <1>4 DEF StorageKey

\* An answer, or a copy's end.
LEMMA StorageLandKeeps ==
  ASSUME StorageParts, StorageLand
  PROVE  StorageParts'
<1>1. ASSUME FetchMoves  PROVE StorageParts'
  <2>1. UNCHANGED <<index, offers>> /\ UNCHANGED work /\ UNCHANGED <<file, copies>>
    BY <1>1 DEF FetchMoves
  <2>. QED BY <1>1, <2>1, PartsLeft, FetchesKeep DEF StorageParts
<1>2. ASSUME DownloadMoves  PROVE StorageParts'
  <2>1. UNCHANGED <<index, offers>> /\ UNCHANGED tab /\ UNCHANGED fetches /\ UNCHANGED work
    BY <1>2 DEF DownloadMoves
  <2>2. PICK a \in Artifact : CopyEnds(a) \/ CopyFails(a)  BY <1>2 DEF DownloadMoves
  <2>3. FilesOK'  BY <2>2, CopyEndKeeps, CopyFailKeeps
  <2>. QED BY <2>1, <2>3, PartsLeft DEF StorageParts
<1>3. ASSUME WorkMoves  PROVE StorageParts'
  <2>1. UNCHANGED <<index, offers>> /\ UNCHANGED fetches /\ UNCHANGED <<file, copies>>
    BY <1>3 DEF WorkMoves
  <2>. QED BY <1>3, <2>1, PartsLeft, WorkKeeps DEF StorageParts
<1>. QED BY <1>1, <1>2, <1>3 DEF StorageLand

\* A listing drops what was deleted, and a repository is classified again.
LEMMA StorageWorldKeeps ==
  ASSUME StorageParts, StorageWorld
  PROVE  StorageParts'
<1>1. UNCHANGED tab /\ UNCHANGED fetches /\ UNCHANGED work /\ UNCHANGED <<file, copies>>
  BY DEF StorageWorld
<1>2. ApiOK'  BY DEF StorageWorld, StorageParts, ApiOK
<1>. QED BY <1>1, <1>2, PartsLeft DEF StorageParts

\* A visit to another tab leaves this one as it is.
LEMMA StorageStepKeeps ==
  ASSUME StorageParts, [Next]_vars
  PROVE  StorageParts'
<1>1. StorageKey \/ StorageLand \/ StorageWorld \/ UNCHANGED storageVars
  BY DEF Next, KeyPress, World, Land, OutsideWorkflows, OutsideRoot, vars
<1>2. ASSUME UNCHANGED storageVars  PROVE StorageParts'
  BY <1>2, PartsLeft DEF storageVars, StorageParts
<1>. QED BY <1>1, <1>2, StorageKeyKeeps, StorageLandKeeps, StorageWorldKeeps

\* The tab as its first fetch leaves it.
LEMMA StorageStarts ==
  ASSUME StorageInit
  PROVE  StorageParts
<1>1. offers \in [Place -> {"unknown", "ours"}] /\ index = Object  BY DEF StorageInit
<1>2. \A r \in Place : In(r) \subseteq Object  BY DEF In
<1>3. tab \in TabRec /\ HeldIn(tab) /\ tab.cursor = 0 /\ tab.selected = {}
  BY <1>1, <1>2 DEF StorageInit, TabRec, HeldIn, Classification
<1>4. Rows(tab) # {} => 0 < Cardinality(Rows(tab))
  <2>1. IsFiniteSet(Rows(tab)) /\ Cardinality(Rows(tab)) \in Nat  BY <1>3, RowsAre
  <2>2. Cardinality(Rows(tab)) = 0 => Rows(tab) = {}  BY <2>1, FS_EmptySet
  <2>. QED BY <2>1, <2>2
<1>5. TabOK(tab)
  <2>1. 0 <= Cardinality(Object)  BY ObjectsAre
  <2>. QED BY <1>3, <1>4, <2>1 DEF TabOK
<1>6. ApiOK  BY <1>1 DEF ApiOK, Classification
<1>7. FetchesOK  BY ObjectsAre DEF StorageInit, FetchesOK
<1>8. WorkOK  BY DEF StorageInit, WorkOK, WorkRec, Idle
<1>9. FilesOK
  <2>1. 0 \in 0..MaxCopies /\ 0 + 0 <= MaxCopies  BY ObjectsAre
  <2>. QED BY <2>1 DEF StorageInit, FilesOK, CopyRec, HalfIsWritten, CopiesBounded
<1>. QED BY <1>5, <1>6, <1>7, <1>8, <1>9 DEF StorageParts

\* What a figure takes off and what is left are the two parts of what it counted.
LEMMA FigureSplits ==
  ASSUME StorageParts, NEW r \in Place, tab.counted[r] = tab.held[r] \cap Cache
  PROVE  Figure(tab, r) = SumSet(Visible(tab, r) \cap Cache)
<1>. DEFINE S == tab.held[r] \cap Cache
            A == Deducted(tab, r)
            V == Visible(tab, r) \cap Cache
<1>1. S \in SUBSET Nat /\ IsFiniteSet(S)
  <2>1. S \in SUBSET Object  BY ObjectsAre
  <2>. HIDE DEF S
  <2>. QED BY <2>1, ObjectsAre, FS_Subset
<1>2. A \in SUBSET S /\ V = S \ A  BY DEF Deducted, Visible
<1>3. Figure(tab, r) = Clip(SumSet(S) - SumSet(A))  BY DEF Figure
<1>. HIDE DEF S, A, V
<1>4. SumSet(S) = SumSet(A) + SumSet(V)  BY <1>1, <1>2, SumSplits
<1>5. SumSet(A) \in Nat /\ SumSet(V) \in Nat
  <2>1. IsFiniteSet(A) /\ IsFiniteSet(V) /\ A \in SUBSET Nat /\ V \in SUBSET Nat
    BY <1>1, <1>2, FS_Subset
  <2>. QED BY <2>1, SumType
<1>6. Clip(SumSet(S) - SumSet(A)) = SumSet(V)  BY <1>4, <1>5 DEF Clip
<1>. QED BY <1>3, <1>6 DEF V

\* The invariant holds of every state, and says all that the tab shows is so.
LEMMA StorageHolds == Spec => []StorageParts
<1>1. Init => StorageParts  BY StorageStarts DEF Init
<1>2. StorageParts /\ [Next]_vars => StorageParts'  BY StorageStepKeeps
<1>. QED BY <1>1, <1>2, PTL DEF Spec

\* Whatever the objects, however the listings lag, whichever rows are
\* reclaimed and whatever downloads race for a path, a figure of one moment is
\* the sum of what is shown, the cursor is on a row wherever there is one and
\* nothing destroyed is selected, and an archive nobody writes is no half one
\* (storage.go's Usage less reclaimed, displayRows, applyProgress and writeArchive).
THEOREM StorageStaysTrue == Spec => []StorageIsTrue
<1>1. StorageParts => FiguresMatchRows  BY FigureSplits DEF FiguresMatchRows
<1>2. StorageParts => KeysActOnRows
  BY CursorIsOnRow DEF KeysActOnRows, StorageParts, TabOK
<1>3. StorageParts => NoHalfArchive
  <2>. SUFFICES ASSUME StorageParts, NEW a \in Artifact, copies[a] = [on |-> 0, off |-> 0]
                PROVE  file[a] # "part"
    BY DEF NoHalfArchive
  <2>1. ~(copies[a].on > 0)  OBVIOUS
  <2>. QED BY <2>1 DEF StorageParts, FilesOK, HalfIsWritten
<1>4. StorageParts => StorageIsTrue  BY <1>1, <1>2, <1>3 DEF StorageIsTrue
<1>. QED BY <1>4, StorageHolds, PTL

\* The visit is to one of the tabs.
LEMMA VisitsAre == Spec => [](at \in Visit)
<1>1. Init => at \in Visit  BY DEF Init
<1>2. at \in Visit /\ [Next]_vars => (at \in Visit)'
  BY DEF Next, KeyPress, World, Land, vars
<1>. QED BY <1>1, <1>2, PTL DEF Spec

\* The visited tab is of its types, for every value of the constants.
THEOREM TabsTypes == Spec => []TypeOK
<1>1. StorageParts => StorageTypeOK  BY StorageIsItsParts DEF StorageInv
<1>2. at \in Visit /\ StorageTypeOK /\ WorkflowsTypeOK /\ ShellTypeOK => TypeOK
  <2>. SUFFICES ASSUME at \in Visit, StorageTypeOK, WorkflowsTypeOK, ShellTypeOK
                PROVE  TypeOK
    OBVIOUS
  <2>1. /\ "storage" # "workflows" /\ "storage" # "dispatch" /\ "storage" # "root"
        /\ "workflows" # "root" /\ "dispatch" # "root"
    OBVIOUS
  <2>2. at = "storage" \/ at = "workflows" \/ at = "dispatch" \/ at = "root"  BY DEF Visit
  <2>3. ASSUME at = "storage"  PROVE TypeOK  BY <2>1, <2>3, Zenon DEF TypeOK
  <2>4. ASSUME at = "workflows"  PROVE TypeOK  BY <2>1, <2>4, Zenon DEF TypeOK
  <2>5. ASSUME at = "dispatch"  PROVE TypeOK  BY <2>1, <2>5, Zenon DEF TypeOK
  <2>6. ASSUME at = "root"  PROVE TypeOK  BY <2>1, <2>6, Zenon DEF TypeOK
  <2>. QED BY <2>2, <2>3, <2>4, <2>5, <2>6
<1>. QED BY <1>1, <1>2, StorageHolds, WorkflowsTypesHold, ShellTypesHold, VisitsAre, PTL

-----------------------------------------------------------------------------
(***************************************************************************)
(* Sequences joined: the parse of a log, its visible lines and the lines a *)
(* search finds are each built up along a sequence.                        *)
(***************************************************************************)

\* f[n] is what the steps h make of the first n members of s, from a.
Builds(h, a, s, f) ==
  f[0] = a /\ \A n \in 1..Len(s) : f[n] = h[<<f[n - 1], s[n]>>]

\* Whatever is built up along a sequence, step by step, there is.
LEMMA BuiltUp ==
  ASSUME NEW A, NEW B, NEW h \in [A \X B -> A], NEW a \in A, NEW s \in Seq(B)
  PROVE  \E f \in [0..Len(s) -> A] : Builds(h, a, s, f)
<1>. DEFINE Upto(n, f) == f[0] = a /\ \A k \in 1..n : f[k] = h[<<f[k - 1], s[k]>>]
            Bad == {n \in 0..Len(s) : ~ \E f \in [0..n -> A] : Upto(n, f)}
<1>1. Bad = {}
  <2>. SUFFICES ASSUME Bad # {} PROVE FALSE  OBVIOUS
  <2>1. PICK n \in Bad : \A v \in Bad : n <= v
    <3>1. Bad \in SUBSET Nat  OBVIOUS
    <3>. HIDE DEF Bad
    <3>. QED BY <3>1, LeastNumber
  <2>2. n # 0
    <3>1. [k \in 0..0 |-> a] \in [0..0 -> A] /\ Upto(0, [k \in 0..0 |-> a])  OBVIOUS
    <3>2. 0 \notin Bad  BY <3>1
    <3>. QED BY <2>1, <3>2
  <2>3. n - 1 \in 0..Len(s) /\ n - 1 \notin Bad
    <3>1. n \in 0..Len(s) /\ Len(s) \in Nat  OBVIOUS
    <3>. HIDE DEF Bad
    <3>. QED BY <2>1, <2>2, <3>1
  <2>4. PICK f \in [0..(n - 1) -> A] : Upto(n - 1, f)  BY <2>3
  <2>5. s[n] \in B /\ f[n - 1] \in A  BY <2>1, <2>2
  <2>6. h[<<f[n - 1], s[n]>>] \in A  BY <2>5
  <2>. DEFINE g == [k \in 0..n |-> IF k = n THEN h[<<f[n - 1], s[n]>>] ELSE f[k]]
  <2>7. g \in [0..n -> A]  BY <2>6, <2>1
  <2>8. Upto(n, g)
    <3>1. g[0] = a  BY <2>2, <2>4, <2>1
    <3>2. ASSUME NEW k \in 1..n  PROVE g[k] = h[<<g[k - 1], s[k]>>]
      <4>1. g[k - 1] = f[k - 1]  BY <2>1
      <4>2. CASE k = n
        <5>1. n \in 0..n /\ g[n] = h[<<f[n - 1], s[n]>>]  BY <2>1
        <5>. HIDE DEF g
        <5>. QED BY <4>1, <4>2, <5>1
      <4>3. CASE k # n
        <5>1. k \in 1..(n - 1) /\ g[k] = f[k]  BY <4>3, <2>1
        <5>. QED BY <5>1, <4>1, <2>4
      <4>. QED BY <4>2, <4>3
    <3>. HIDE DEF g
    <3>. QED BY <3>1, <3>2
  <2>. HIDE DEF Upto, g
  <2>. QED BY <2>1, <2>7, <2>8
<1>2. Len(s) \in 0..Len(s)  OBVIOUS
<1>3. PICK f \in [0..Len(s) -> A] : Upto(Len(s), f)  BY <1>1, <1>2
<1>. QED BY <1>3 DEF Builds

\* f[k] is the first k of the sequences s, one after the other, up to n of them.
Joined(s, n, f) == f[0] = <<>> /\ \A k \in 1..n : f[k] = f[k - 1] \o s[k]

\* There is one such f, and its last value is s flattened.
LEMMA Flattens ==
  ASSUME NEW T, NEW s \in Seq(Seq(T))
  PROVE  \E f \in [0..Len(s) -> Seq(T)] : Joined(s, Len(s), f) /\ FlattenSeq(s) = f[Len(s)]
<1>. DEFINE h == [p \in Seq(T) \X Seq(T) |-> p[1] \o p[2]]
            N == Len(s)
            Flat(g) == g = [i \in 1..N |-> IF i = 1 THEN s[i] ELSE g[i - 1] \o s[i]]
<1>1. N \in Nat /\ \A n \in 1..N : s[n] \in Seq(T)  OBVIOUS
<1>2. PICK f \in [0..N -> Seq(T)] : Builds(h, <<>>, s, f)
  <2>1. h \in [Seq(T) \X Seq(T) -> Seq(T)] /\ <<>> \in Seq(T)  OBVIOUS
  <2>. HIDE DEF h
  <2>. QED BY <2>1, BuiltUp
<1>3. Joined(s, N, f)
  <2>1. ASSUME NEW n \in 1..N  PROVE f[n] = f[n - 1] \o s[n]
    <3>1. f[n - 1] \in Seq(T) /\ s[n] \in Seq(T)
      <4>1. n - 1 \in 0..N  BY <1>1
      <4>. HIDE DEF N
      <4>. QED BY <4>1, <1>1
    <3>2. h[<<f[n - 1], s[n]>>] = f[n - 1] \o s[n]  BY <3>1
    <3>. QED BY <1>2, <3>2 DEF Builds
  <2>. QED BY <1>2, <2>1 DEF Builds, Joined
<1>4. CASE N = 0
  <2>1. s = <<>> /\ FlattenSeq(s) = <<>>  BY <1>4 DEF FlattenSeq
  <2>. QED BY <1>3, <1>4, <2>1 DEF Joined
<1>5. CASE N # 0
  <2>. DEFINE g == CHOOSE g : Flat(g)
              r == [i \in 1..N |-> f[i]]
  <2>1. Flat(r)
    <3>1. ASSUME NEW i \in 1..N  PROVE f[i] = IF i = 1 THEN s[i] ELSE r[i - 1] \o s[i]
      <4>1. f[i] = f[i - 1] \o s[i]  BY <1>3 DEF Joined
      <4>2. CASE i = 1
        <5>1. f[i - 1] = <<>>  BY <1>3, <4>2 DEF Joined
        <5>. QED BY <4>1, <4>2, <5>1, <1>1
      <4>3. CASE i # 1
        <5>1. r[i - 1] = f[i - 1]  BY <4>3, <1>1
        <5>. QED BY <4>1, <4>3, <5>1
      <4>. QED BY <4>2, <4>3
    <3>. QED BY <3>1
  <2>2. Flat(g)  BY <2>1
  <2>3. FlattenSeq(s) = g[N]  BY <1>5 DEF FlattenSeq
  <2>. HIDE DEF g
  <2>. DEFINE Bad == {n \in 1..N : f[n] # g[n]}
  <2>4. Bad = {}
    <3>. SUFFICES ASSUME Bad # {} PROVE FALSE  OBVIOUS
    <3>1. PICK n \in Bad : \A v \in Bad : n <= v
      <4>1. Bad \in SUBSET Nat  BY <1>1
      <4>. HIDE DEF Bad
      <4>. QED BY <4>1, LeastNumber
    <3>2. g[n] = IF n = 1 THEN s[n] ELSE g[n - 1] \o s[n]  BY <2>2
    <3>3. f[n] = f[n - 1] \o s[n] /\ f[0] = <<>> /\ s[n] \in Seq(T)  BY <1>1, <1>3 DEF Joined
    <3>4. n # 1
      <4>1. ASSUME n = 1  PROVE f[n] = g[n]
        <5>1. f[n - 1] = <<>>  BY <3>3, <4>1
        <5>. QED BY <5>1, <3>2, <3>3, <4>1
      <4>. QED BY <4>1
    <3>5. n - 1 \in 1..N  BY <3>4, <1>1
    <3>6. n - 1 \notin Bad
      <4>1. n \in 1..N  OBVIOUS
      <4>. HIDE DEF Bad
      <4>. QED BY <3>1, <4>1, <1>1
    <3>. QED BY <3>2, <3>3, <3>4, <3>5, <3>6
  <2>5. g[N] = f[N]
    <3>1. N \in 1..N  BY <1>1, <1>5
    <3>2. N \notin Bad
      <4>. HIDE DEF Bad
      <4>. QED BY <2>4
    <3>. QED BY <3>1, <3>2
  <2>. QED BY <1>3, <2>3, <2>5
<1>. QED BY <1>4, <1>5

\* It is the only one.
Alike(m, n, f, g) == \A k \in m..n : f[k] = g[k]
LEMMA JoinedOnce ==
  ASSUME NEW s, NEW N \in Nat, NEW f, Joined(s, N, f), NEW g, Joined(s, N, g)
  PROVE  Alike(0, N, f, g)
<1>. DEFINE Bad == {n \in 0..N : f[n] # g[n]}
<1>. SUFFICES ASSUME Bad # {} PROVE FALSE  BY DEF Alike
<1>1. PICK n \in Bad : \A v \in Bad : n <= v
  <2>1. Bad \in SUBSET Nat  OBVIOUS
  <2>. HIDE DEF Bad
  <2>. QED BY <2>1, LeastNumber
<1>2. n # 0 /\ n \in 0..N  BY DEF Joined
<1>3. n - 1 \in 0..N /\ n - 1 \notin Bad
  <2>. HIDE DEF Bad
  <2>. QED BY <1>1, <1>2
<1>4. f[n - 1] = g[n - 1] /\ n \in 1..N  BY <1>2, <1>3
<1>5. f[n] = f[n - 1] \o s[n] /\ g[n] = g[n - 1] \o s[n]  BY <1>4 DEF Joined
<1>. QED BY <1>4, <1>5

\* To join three is to join the last two first.
LEMMA JoinRegroups ==
  ASSUME NEW T, NEW a \in Seq(T), NEW b \in Seq(T), NEW c \in Seq(T)
  PROVE  a \o (b \o c) = (a \o b) \o c
<1>1. /\ b \o c \in Seq(T) /\ Len(b \o c) = Len(b) + Len(c)
      /\ a \o b \in Seq(T) /\ Len(a \o b) = Len(a) + Len(b)
  OBVIOUS
<1>. DEFINE l == a \o (b \o c)
            r == (a \o b) \o c
<1>2. l \in Seq(T) /\ r \in Seq(T) /\ Len(l) = Len(r) /\ Len(l) = Len(a) + Len(b) + Len(c)
  BY <1>1
<1>3. ASSUME NEW i \in 1..Len(l)  PROVE l[i] = r[i]
  <2>1. CASE i <= Len(a)  BY <1>1, <1>2, <2>1
  <2>2. CASE i > Len(a) /\ i <= Len(a) + Len(b)  BY <1>1, <1>2, <2>2
  <2>3. CASE i > Len(a) + Len(b)  BY <1>1, <1>2, <2>3
  <2>. QED BY <1>2, <2>1, <2>2, <2>3
<1>. HIDE DEF l, r
<1>. QED BY <1>2, <1>3 DEF l, r

\* What joins two sequences is one, as long as both.
LEMMA JoinIs ==
  ASSUME NEW T, NEW a \in Seq(T), NEW b \in Seq(T)
  PROVE  /\ a \o b \in Seq(T) /\ Len(a \o b) = Len(a) + Len(b)
         /\ Len(a) \in Nat /\ Len(b) \in Nat
OBVIOUS

\* What joins them begins with the first.
LEMMA JoinBegins ==
  ASSUME NEW T, NEW a \in Seq(T), NEW b \in Seq(T), NEW n \in 1..Len(a)
  PROVE  (a \o b)[n] = a[n]
OBVIOUS

\* The empty sequence joined to one leaves it.
LEMMA JoinEmpty ==
  ASSUME NEW T, NEW a \in Seq(T)
  PROVE  a \o <<>> = a /\ <<>> \o a = a
OBVIOUS

\* Sequences that are joined end to end flatten to what each flattens to, joined.
LEMMA FlattenJoins ==
  ASSUME NEW T, NEW s \in Seq(Seq(T)), NEW t \in Seq(Seq(T))
  PROVE  FlattenSeq(s \o t) = FlattenSeq(s) \o FlattenSeq(t)
<1>0. ASSUME NEW a \in Seq(T), NEW b \in Seq(T), NEW c \in Seq(T)
      PROVE  a \o (b \o c) = (a \o b) \o c
  BY JoinRegroups
<1>. DEFINE st == s \o t
<1>. SUFFICES ASSUME NEW N, N = Len(s), NEW M, M = Len(t)
              PROVE  FlattenSeq(st) = FlattenSeq(s) \o FlattenSeq(t)
  OBVIOUS
<1>1. PICK f \in [0..N -> Seq(T)] :
        Joined(s, N, f) /\ FlattenSeq(s) = f[N]
  BY Flattens
<1>2. PICK g \in [0..M -> Seq(T)] :
        Joined(t, M, g) /\ FlattenSeq(t) = g[M]
  BY Flattens
<1>3. /\ N \in Nat /\ M \in Nat /\ st \in Seq(Seq(T)) /\ Len(st) = N + M
      /\ \A n \in 1..N : st[n] = s[n]
      /\ \A n \in 1..M : st[n + N] = t[n] /\ t[n] \in Seq(T)
  OBVIOUS
<1>. HIDE DEF st
<1>4. PICK e \in [0..(N + M) -> Seq(T)] :
        Joined(st, N + M, e) /\ FlattenSeq(st) = e[N + M]
  <2>1. \E e \in [0..Len(st) -> Seq(T)] : Joined(st, Len(st), e) /\ FlattenSeq(st) = e[Len(st)]
    BY <1>3, Flattens
  <2>. QED BY <1>3, <2>1
<1>. DEFINE r == [n \in 0..(N + M) |-> IF n <= N THEN f[n] ELSE f[N] \o g[n - N]]
<1>5. f[N] \in Seq(T)
  <2>1. N \in 0..N  BY <1>3
  <2>. QED BY <2>1
<1>6. \A n \in 0..N : r[n] = f[n]  BY <1>3
<1>7. ASSUME NEW k \in 0..M  PROVE r[k + N] = f[N] \o g[k] /\ g[k] \in Seq(T)
  <2>1. CASE k = 0
    <3>1. r[k + N] = f[N]  BY <1>3, <1>6, <2>1
    <3>2. g[k] = <<>>  BY <1>2, <2>1 DEF Joined
    <3>. QED BY <1>5, <3>1, <3>2, JoinEmpty
  <2>2. CASE k # 0
    <3>1. k + N \in 0..(N + M) /\ ~(k + N <= N) /\ (k + N) - N = k  BY <1>3, <2>2
    <3>. QED BY <3>1
  <2>. QED BY <2>1, <2>2
<1>. HIDE DEF r
<1>8. ASSUME NEW n \in 1..(N + M)  PROVE r[n] = r[n - 1] \o st[n]
  <2>1. CASE n \in 1..N
    <3>1. n - 1 \in 0..N /\ n \in 0..N  BY <1>3, <2>1
    <3>2. f[n] = f[n - 1] \o s[n]  BY <1>1, <2>1 DEF Joined
    <3>. QED BY <1>3, <1>6, <2>1, <3>1, <3>2
  <2>2. CASE n \notin 1..N
    <3>1. PICK k \in 1..M : n = k + N
      <4>1. n - N \in 1..M /\ n = (n - N) + N  BY <1>3, <2>2
      <4>. QED BY <4>1
    <3>2. k - 1 \in 0..M /\ k \in 0..M /\ n - 1 = (k - 1) + N  BY <1>3, <3>1
    <3>3. r[n] = f[N] \o g[k] /\ r[n - 1] = f[N] \o g[k - 1] /\ g[k - 1] \in Seq(T)
      BY <1>7, <3>1, <3>2
    <3>4. g[k] = g[k - 1] \o t[k] /\ st[n] = t[k] /\ t[k] \in Seq(T)
      BY <1>2, <1>3, <3>1 DEF Joined
    <3>5. f[N] \o (g[k - 1] \o t[k]) = (f[N] \o g[k - 1]) \o t[k]
      <4>. DEFINE a == f[N]
                  b == g[k - 1]
                  c == t[k]
      <4>1. a \in Seq(T) /\ b \in Seq(T) /\ c \in Seq(T)  BY <1>5, <3>3, <3>4
      <4>. HIDE DEF a, b, c
      <4>2. a \o (b \o c) = (a \o b) \o c  BY <4>1, <1>0
      <4>. QED BY <4>2 DEF a, b, c
    <3>. QED BY <3>3, <3>4, <3>5
  <2>. QED BY <2>1, <2>2
<1>9. e[N + M] = r[N + M]
  <2>1. N + M \in Nat /\ r[0] = <<>> /\ N + M \in 0..(N + M)  BY <1>1, <1>3, <1>6 DEF Joined
  <2>2. Joined(st, N + M, r)  BY <1>8, <2>1 DEF Joined
  <2>3. Alike(0, N + M, e, r)  BY <1>4, <2>1, <2>2, JoinedOnce
  <2>. QED BY <2>1, <2>3 DEF Alike
<1>10. r[N + M] = f[N] \o g[M]
  <2>1. M \in 0..M /\ M + N = N + M  BY <1>3
  <2>. QED BY <1>7, <2>1
<1>. QED BY <1>1, <1>2, <1>4, <1>9, <1>10

\* One sequence flattens to itself.
LEMMA FlattenOne ==
  ASSUME NEW T, NEW x \in Seq(T)
  PROVE  FlattenSeq(<<x>>) = x
<1>1. <<x>> \in Seq(Seq(T)) /\ Len(<<x>>) = 1 /\ <<x>>[1] = x  OBVIOUS
<1>2. PICK f \in [0..1 -> Seq(T)] : Joined(<<x>>, 1, f) /\ FlattenSeq(<<x>>) = f[1]
  <2>. DEFINE s == <<x>>
  <2>1. s \in Seq(Seq(T)) /\ Len(s) = 1  BY <1>1
  <2>. HIDE DEF s
  <2>2. \E f \in [0..1 -> Seq(T)] : Joined(s, 1, f) /\ FlattenSeq(s) = f[1]
    BY <2>1, Flattens
  <2>. QED BY <2>2 DEF s
<1>3. f[0] = <<>> /\ f[1] = <<>> \o x
  <2>. DEFINE s == <<x>>
  <2>1. f[0] = <<>> /\ f[1] = f[1 - 1] \o s[1]
    <3>. HIDE DEF s
    <3>1. Joined(s, 1, f)  BY <1>2 DEF s
    <3>2. 1 \in 1..1  OBVIOUS
    <3>. QED BY <3>1, <3>2 DEF Joined
  <2>. QED BY <1>1, <2>1
<1>. QED BY <1>2, <1>3

\* The members of a sequence, each by itself, flatten to the sequence.
LEMMA FlattenSingles ==
  ASSUME NEW T, NEW x \in Seq(T)
  PROVE  FlattenSeq([k \in 1..Len(x) |-> <<x[k]>>]) = x
<1>. DEFINE s == [k \in 1..Len(x) |-> <<x[k]>>]
            N == Len(x)
            r == [n \in 0..N |-> [k \in 1..n |-> x[k]]]
<1>1. N \in Nat /\ s \in Seq(Seq(T)) /\ Len(s) = N /\ \A n \in 1..N : s[n] = <<x[n]>>
  OBVIOUS
<1>2. PICK f \in [0..N -> Seq(T)] : Joined(s, N, f) /\ FlattenSeq(s) = f[N]
  <2>. HIDE DEF s, N
  <2>. QED BY <1>1, Flattens
<1>3. r[0] = <<>>
  <2>1. r[0] = [k \in 1..0 |-> x[k]]  BY <1>1
  <2>. QED BY <2>1
<1>4. ASSUME NEW n \in 1..N  PROVE r[n] = r[n - 1] \o s[n]
  <2>1. /\ r[n] = [k \in 1..n |-> x[k]] /\ r[n - 1] = [k \in 1..(n - 1) |-> x[k]]
        /\ s[n] = <<x[n]>> /\ n \in 1..N
    BY <1>1
  <2>. DEFINE a == [k \in 1..(n - 1) |-> x[k]]
  <2>2. \A k \in 1..n : x[k] \in T  OBVIOUS
  <2>3. a \in Seq(T) /\ Len(a) = n - 1 /\ x[n] \in T  BY <2>2
  <2>4. a \o <<x[n]>> = [k \in 1..n |-> x[k]]
    <3>1. Len(a \o <<x[n]>>) = n /\ a \o <<x[n]>> \in Seq(T)  BY <2>3
    <3>2. ASSUME NEW k \in 1..n  PROVE (a \o <<x[n]>>)[k] = x[k]
      <4>1. CASE k <= n - 1
        <5>1. a[k] = x[k] /\ k \in 1..Len(a)  BY <2>3, <4>1
        <5>. HIDE DEF a
        <5>. QED BY <2>3, <5>1
      <4>2. CASE k = n
        <5>. HIDE DEF a
        <5>. QED BY <2>3, <4>2
      <4>. QED BY <4>1, <4>2
    <3>. HIDE DEF a
    <3>. QED BY <3>1, <3>2
  <2>. HIDE DEF r, s, N
  <2>. QED BY <2>1, <2>4
<1>. HIDE DEF r
<1>5. \A n \in 0..N : f[n] = r[n]
  <2>1. Joined(s, N, r)
    <3>. HIDE DEF s, N
    <3>. QED BY <1>3, <1>4 DEF Joined
  <2>2. N \in Nat  BY <1>1
  <2>. HIDE DEF s, N
  <2>3. Alike(0, N, f, r)  BY <1>2, <2>1, <2>2, JoinedOnce
  <2>. QED BY <2>3 DEF Alike
<1>6. r[N] = x  BY <1>1 DEF r
<1>. QED BY <1>1, <1>2, <1>5, <1>6

-----------------------------------------------------------------------------
(***************************************************************************)
(* The log, parsed and shown.                                              *)
(***************************************************************************)
LogBlock == [fold : BOOLEAN, body : Seq(Line), expanded : BOOLEAN]
LogLine == [heads : Nat, line : Line]

\* What the blocks of a log hold.
Bodies(blocks) == [i \in DOMAIN blocks |-> blocks[i].body]
Held(blocks) == FlattenSeq(Bodies(blocks))

\* The lines of a block taken in hold what it does.
LEMMA HeldAppend ==
  ASSUME NEW bs \in Seq(LogBlock), NEW b \in LogBlock
  PROVE  Held(Append(bs, b)) = Held(bs) \o b.body /\ Append(bs, b) \in Seq(LogBlock)
<1>. DEFINE s == Bodies(bs)
            x == b.body
            all == Bodies(Append(bs, b))
<1>1. x \in Seq(Line) /\ Append(bs, b) \in Seq(LogBlock)  BY DEF LogBlock
<1>2. s \in Seq(Seq(Line)) /\ Len(s) = Len(bs)
  <2>1. ASSUME NEW i \in 1..Len(bs)  PROVE bs[i].body \in Seq(Line)
    <3>1. bs[i] \in LogBlock  OBVIOUS
    <3>. QED BY <3>1 DEF LogBlock
  <2>2. DOMAIN bs = 1..Len(bs) /\ Len(bs) \in Nat  OBVIOUS
  <2>. DEFINE q == [i \in 1..Len(bs) |-> bs[i].body]
  <2>3. q \in [1..Len(bs) -> Seq(Line)]  BY <2>1
  <2>4. q \in Seq(Seq(Line)) /\ Len(q) = Len(bs)
    <3>. HIDE DEF q
    <3>. QED BY <2>2, <2>3
  <2>. QED BY <2>2, <2>4 DEF Bodies
<1>3. <<x>> \in Seq(Seq(Line)) /\ FlattenSeq(<<x>>) = x
  <2>. HIDE DEF x
  <2>. QED BY <1>1, FlattenOne
<1>4. all = s \o <<x>>
  <2>. DEFINE t == s \o <<x>>
  <2>1. Len(t) = Len(bs) + 1 /\ t \in Seq(Seq(Line))  BY <1>2, <1>3
  <2>2. DOMAIN all = 1..(Len(bs) + 1) /\ DOMAIN t = 1..(Len(bs) + 1)
    BY <1>1, <2>1 DEF Bodies
  <2>3. ASSUME NEW i \in 1..(Len(bs) + 1)  PROVE all[i] = t[i]
    <3>1. CASE i \in 1..Len(bs)
      <4>1. all[i] = bs[i].body  BY <3>1, <1>1 DEF Bodies
      <4>2. t[i] = s[i] /\ s[i] = bs[i].body  BY <3>1, <1>2, <1>3 DEF Bodies
      <4>. QED BY <4>1, <4>2
    <3>2. CASE i = Len(bs) + 1
      <4>1. all[i] = x  BY <3>2, <1>1 DEF Bodies
      <4>2. t[i] = x
        <5>. HIDE DEF s, x
        <5>. QED BY <3>2, <1>2, <1>3, <1>1
      <4>. QED BY <4>1, <4>2
    <3>3. i \in 1..Len(bs) \/ i = Len(bs) + 1
      <4>1. Len(bs) \in Nat  OBVIOUS
      <4>. QED BY <4>1
    <3>. QED BY <3>1, <3>2, <3>3
  <2>4. t = [i \in 1..(Len(bs) + 1) |-> t[i]]  BY <2>1
  <2>5. all = [i \in 1..(Len(bs) + 1) |-> all[i]]  BY <2>2 DEF Bodies
  <2>. HIDE DEF all, t
  <2>. QED BY <2>3, <2>4, <2>5 DEF t
<1>. HIDE DEF s, x
<1>5. FlattenSeq(s \o <<x>>) = FlattenSeq(s) \o FlattenSeq(<<x>>)
  BY <1>2, <1>3, FlattenJoins
<1>. QED BY <1>1, <1>3, <1>4, <1>5 DEF Held, s, x

\* The contents of some lines, and of those after them.
Piece(l) == IF l.heads # 0 THEN <<>> ELSE <<l.line>>
LEMMA ContentsJoin ==
  ASSUME NEW a \in Seq(LogLine), NEW b \in Seq(LogLine)
  PROVE  Contents(a \o b) = Contents(a) \o Contents(b) /\ Contents(a) \in Seq(Line)
<1>. DEFINE P(l) == [k \in DOMAIN l |-> Piece(l[k])]
<1>1. ASSUME NEW l \in Seq(LogLine)
      PROVE  P(l) \in Seq(Seq(Line)) /\ Contents(l) = FlattenSeq(P(l)) /\ Len(P(l)) = Len(l)
  <2>1. ASSUME NEW k \in 1..Len(l)  PROVE Piece(l[k]) \in Seq(Line)
    <3>1. l[k] \in LogLine  OBVIOUS
    <3>2. l[k].line \in Line  BY <3>1 DEF LogLine
    <3>. QED BY <3>2 DEF Piece
  <2>2. DOMAIN l = 1..Len(l) /\ Len(l) \in Nat  OBVIOUS
  <2>3. P(l) \in Seq(Seq(Line)) /\ Len(P(l)) = Len(l)
    <3>1. P(l) \in [1..Len(l) -> Seq(Line)]  BY <2>1, <2>2
    <3>. HIDE DEF P
    <3>. QED BY <2>2, <3>1
  <2>. QED BY <2>3 DEF Contents, Piece
<1>2. P(a \o b) = P(a) \o P(b)
  <2>. DEFINE r == P(a) \o P(b)
              N == Len(a)
              M == Len(b)
  <2>1. /\ N \in Nat /\ M \in Nat /\ Len(a \o b) = N + M /\ a \o b \in Seq(LogLine)
        /\ Len(r) = N + M /\ r \in Seq(Seq(Line))
    <3>1. /\ P(a) \in Seq(Seq(Line)) /\ Len(P(a)) = N
          /\ P(b) \in Seq(Seq(Line)) /\ Len(P(b)) = M
      BY <1>1
    <3>2. N \in Nat /\ M \in Nat /\ Len(a \o b) = N + M /\ a \o b \in Seq(LogLine)  OBVIOUS
    <3>. DEFINE pa == P(a)
                pb == P(b)
    <3>3. pa \in Seq(Seq(Line)) /\ pb \in Seq(Seq(Line)) /\ Len(pa) = N /\ Len(pb) = M  BY <3>1
    <3>. HIDE DEF P, N, M, pa, pb
    <3>4. Len(pa \o pb) = Len(pa) + Len(pb) /\ pa \o pb \in Seq(Seq(Line))
      BY <3>3, JoinIs
    <3>. QED BY <3>2, <3>3, <3>4 DEF pa, pb
  <2>2. DOMAIN P(a \o b) = 1..(N + M)  BY <2>1
  <2>3. ASSUME NEW i \in 1..(N + M)  PROVE P(a \o b)[i] = r[i]
    <3>1. P(a \o b)[i] = Piece((a \o b)[i])  BY <2>1
    <3>2. CASE i \in 1..N
      <4>1. (a \o b)[i] = a[i] /\ r[i] = P(a)[i] /\ P(a)[i] = Piece(a[i])  BY <1>1, <2>1, <3>2
      <4>. QED BY <3>1, <4>1
    <3>3. CASE i \notin 1..N
      <4>1. i - N \in 1..M /\ (a \o b)[i] = b[i - N]  BY <2>1, <3>3
      <4>2. r[i] = P(b)[i - N]  BY <1>1, <2>1, <3>3
      <4>3. P(b)[i - N] = Piece(b[i - N])  BY <4>1, <2>1
      <4>. QED BY <3>1, <4>1, <4>2, <4>3
    <3>. QED BY <3>2, <3>3
  <2>4. r = [i \in 1..(N + M) |-> r[i]]
    <3>. HIDE DEF r, N, M
    <3>. QED BY <2>1
  <2>5. P(a \o b) = [i \in 1..(N + M) |-> P(a \o b)[i]]  BY <2>2
  <2>. HIDE DEF P, r, N, M
  <2>. QED BY <2>3, <2>4, <2>5 DEF r
<1>3. a \o b \in Seq(LogLine)  OBVIOUS
<1>4. Contents(a) \in Seq(Line)
  <2>. HIDE DEF P
  <2>1. PICK f \in [0..Len(P(a)) -> Seq(Line)] : FlattenSeq(P(a)) = f[Len(P(a))]
    BY <1>1, Flattens
  <2>2. Len(P(a)) \in 0..Len(P(a))  BY <1>1
  <2>. QED BY <1>1, <2>1, <2>2
<1>. HIDE DEF P
<1>5. FlattenSeq(P(a) \o P(b)) = FlattenSeq(P(a)) \o FlattenSeq(P(b))  BY <1>1, FlattenJoins
<1>. QED BY <1>1, <1>2, <1>3, <1>4, <1>5

\* The content of a block is its body, and its header adds none.
LEMMA ShownHolds ==
  ASSUME NEW i \in Nat \ {0}, NEW b \in LogBlock
  PROVE  /\ Shown(i, b) \in Seq(LogLine) /\ Content(b) \in Seq(LogLine)
         /\ (b.fold => b.expanded) => Contents(Shown(i, b)) = b.body
<1>. DEFINE x == b.body
            c == Content(b)
            h == <<Header(i)>>
<1>1. x \in Seq(Line) /\ b.fold \in BOOLEAN /\ b.expanded \in BOOLEAN  BY DEF LogBlock
<1>2. c \in Seq(LogLine) /\ Len(c) = Len(x)
      /\ \A k \in 1..Len(x) : c[k].heads = 0 /\ c[k].line = x[k]
  <2>1. DOMAIN x = 1..Len(x) /\ Len(x) \in Nat /\ \A k \in 1..Len(x) : x[k] \in Line
    <3>. HIDE DEF x
    <3>. QED BY <1>1
  <2>2. c = [k \in 1..Len(x) |-> [heads |-> 0, line |-> x[k]]]  BY <2>1 DEF Content
  <2>. HIDE DEF x, c
  <2>3. ASSUME NEW k \in 1..Len(x)
        PROVE  c[k].heads = 0 /\ c[k].line = x[k] /\ c[k] \in LogLine
    BY <2>1, <2>2 DEF LogLine
  <2>4. c \in [1..Len(x) -> LogLine]  BY <2>2, <2>3
  <2>. QED BY <2>1, <2>3, <2>4
<1>3. Contents(c) = x
  <2>1. [k \in DOMAIN c |-> IF c[k].heads # 0 THEN <<>> ELSE <<c[k].line>>]
          = [k \in 1..Len(x) |-> <<x[k]>>]
    <3>1. DOMAIN c = 1..Len(x)  BY <1>2
    <3>2. ASSUME NEW k \in 1..Len(x)
          PROVE  (IF c[k].heads # 0 THEN <<>> ELSE <<c[k].line>>) = <<x[k]>>
      <4>1. c[k].heads = 0 /\ c[k].line = x[k]
        <5>. HIDE DEF c, x
        <5>. QED BY <1>2
      <4>. QED BY <4>1
    <3>. HIDE DEF c, x
    <3>. QED BY <3>1, <3>2
  <2>. HIDE DEF x, c
  <2>2. FlattenSeq([k \in 1..Len(x) |-> <<x[k]>>]) = x  BY <1>1, FlattenSingles
  <2>. QED BY <2>1, <2>2 DEF Contents
<1>4. Header(i) \in LogLine /\ Header(i).heads # 0  BY DEF Header, LogLine, Line, Marker
<1>5. h \in Seq(LogLine) /\ Contents(h) = <<>>
  <2>1. h \in Seq(LogLine) /\ DOMAIN h = 1..1 /\ h[1] = Header(i)  BY <1>4
  <2>2. [k \in DOMAIN h |-> IF h[k].heads # 0 THEN <<>> ELSE <<h[k].line>>] = << <<>> >>
    <3>1. ASSUME NEW k \in 1..1
          PROVE  (IF h[k].heads # 0 THEN <<>> ELSE <<h[k].line>>) = <<>>
      BY <1>4, <2>1
    <3>. HIDE DEF h
    <3>2. [k \in DOMAIN h |-> IF h[k].heads # 0 THEN <<>> ELSE <<h[k].line>>] = [k \in 1..1 |-> <<>>]
      BY <2>1, <3>1
    <3>. QED BY <3>2
  <2>3. FlattenSeq(<< <<>> >>) = <<>>
    <3>1. <<>> \in Seq(Line)  OBVIOUS
    <3>. QED BY <3>1, FlattenOne
  <2>. QED BY <2>1, <2>2, <2>3 DEF Contents
<1>6. Content(b) \in Seq(LogLine)  BY <1>2
<1>. HIDE DEF c, h, x
<1>7. CASE ~b.fold
  <2>1. Shown(i, b) = c  BY <1>7 DEF Shown, c
  <2>. QED BY <1>2, <1>3, <1>6, <2>1 DEF x
<1>8. CASE b.fold /\ b.expanded
  <2>1. Shown(i, b) = h \o c  BY <1>8 DEF Shown, c, h
  <2>2. Contents(h \o c) = <<>> \o x  BY <1>2, <1>3, <1>5, ContentsJoin
  <2>. QED BY <1>1, <1>2, <1>5, <1>6, <2>1, <2>2, JoinIs, JoinEmpty DEF x
<1>9. CASE b.fold /\ ~b.expanded
  <2>1. Shown(i, b) = h \o <<>>  BY <1>9 DEF Shown, h
  <2>. QED BY <1>5, <1>9, <1>6, <2>1
<1>. QED BY <1>1, <1>7, <1>8, <1>9

\* The lines on screen, block by block.
Rendered(blocks) == [i \in DOMAIN blocks |-> Shown(i, blocks[i])]

\* Sequences of blocks are such sequences, and so is what they show.
LEMMA RenderedIs ==
  ASSUME NEW bs \in Seq(LogBlock)
  PROVE  /\ DOMAIN bs = 1..Len(bs) /\ Len(bs) \in Nat
         /\ Rendered(bs) \in Seq(Seq(LogLine)) /\ Len(Rendered(bs)) = Len(bs)
         /\ Bodies(bs) \in Seq(Seq(Line)) /\ Len(Bodies(bs)) = Len(bs)
<1>1. DOMAIN bs = 1..Len(bs) /\ Len(bs) \in Nat  OBVIOUS
<1>2. ASSUME NEW i \in 1..Len(bs)
      PROVE  Shown(i, bs[i]) \in Seq(LogLine) /\ bs[i].body \in Seq(Line)
  <2>1. bs[i] \in LogBlock /\ i \in Nat \ {0}  BY <1>1
  <2>. QED BY <2>1, ShownHolds DEF LogBlock
<1>. DEFINE r == Rendered(bs)
            b == Bodies(bs)
<1>3. r \in [1..Len(bs) -> Seq(LogLine)]  BY <1>1, <1>2 DEF Rendered
<1>4. b \in [1..Len(bs) -> Seq(Line)]  BY <1>1, <1>2 DEF Bodies
<1>. HIDE DEF r, b
<1>5. r \in Seq(Seq(LogLine)) /\ Len(r) = Len(bs)  BY <1>1, <1>3
<1>6. b \in Seq(Seq(Line)) /\ Len(b) = Len(bs)  BY <1>1, <1>4
<1>. QED BY <1>1, <1>5, <1>6 DEF r, b

\* With every fold open, what is on screen is what the blocks hold.
LEMMA AllIsShown ==
  ASSUME NEW bs \in Seq(LogBlock), \A i \in DOMAIN bs : bs[i].fold => bs[i].expanded
  PROVE  Contents(VisibleLines(bs)) = Held(bs)
<1>. DEFINE R == Rendered(bs)
            B == Bodies(bs)
            N == Len(bs)
<1>1. /\ DOMAIN bs = 1..N /\ N \in Nat /\ R \in Seq(Seq(LogLine)) /\ Len(R) = N
      /\ B \in Seq(Seq(Line)) /\ Len(B) = N
  BY RenderedIs
<1>2. ASSUME NEW i \in 1..N  PROVE R[i] \in Seq(LogLine) /\ Contents(R[i]) = B[i]
  <2>1. bs[i] \in LogBlock /\ i \in Nat \ {0} /\ (bs[i].fold => bs[i].expanded)
    <3>1. i \in DOMAIN bs /\ i \in Nat \ {0}  BY <1>1
    <3>2. bs[i] \in LogBlock  OBVIOUS
    <3>. QED BY <3>1, <3>2
  <2>2. R[i] = Shown(i, bs[i]) /\ B[i] = bs[i].body  BY <1>1 DEF Rendered, Bodies
  <2>3. /\ Shown(i, bs[i]) \in Seq(LogLine) /\ Contents(Shown(i, bs[i])) = bs[i].body
    BY <2>1, ShownHolds
  <2>. QED BY <2>2, <2>3
<1>3. VisibleLines(bs) = FlattenSeq(R) /\ Held(bs) = FlattenSeq(B)
  BY DEF VisibleLines, Rendered, Held
<1>. HIDE DEF R, B, N
<1>4. PICK f \in [0..N -> Seq(LogLine)] : Joined(R, N, f) /\ FlattenSeq(R) = f[N]
  BY <1>1, Flattens
<1>5. PICK g \in [0..N -> Seq(Line)] : Joined(B, N, g) /\ FlattenSeq(B) = g[N]
  BY <1>1, Flattens
<1>. DEFINE c == [n \in 0..N |-> Contents(f[n])]
<1>6. Joined(B, N, c)
  <2>1. c[0] = <<>>
    <3>1. f[0] = <<>> /\ 0 \in 0..N  BY <1>1, <1>4 DEF Joined
    <3>2. Contents(<<>>) = <<>>
      <4>1. [k \in DOMAIN <<>> |-> IF <<>>[k].heads # 0 THEN <<>> ELSE << <<>>[k].line >>] = <<>>
        OBVIOUS
      <4>2. FlattenSeq(<<>>) = <<>>  BY DEF FlattenSeq
      <4>. QED BY <4>1, <4>2 DEF Contents
    <3>. QED BY <3>1, <3>2
  <2>2. ASSUME NEW n \in 1..N  PROVE c[n] = c[n - 1] \o B[n]
    <3>1. n \in 0..N /\ n - 1 \in 0..N  BY <1>1
    <3>2. f[n - 1] \in Seq(LogLine) /\ R[n] \in Seq(LogLine) /\ Contents(R[n]) = B[n]
      BY <1>2, <3>1
    <3>3. f[n] = f[n - 1] \o R[n]  BY <1>4 DEF Joined
    <3>4. Contents(f[n - 1] \o R[n]) = Contents(f[n - 1]) \o Contents(R[n])
      BY <3>2, ContentsJoin
    <3>. QED BY <3>1, <3>2, <3>3, <3>4
  <2>. HIDE DEF c
  <2>. QED BY <2>1, <2>2 DEF Joined
<1>7. c[N] = Contents(f[N]) /\ N \in 0..N  BY <1>1
<1>. HIDE DEF c
<1>8. c[N] = g[N]
  <2>1. Alike(0, N, c, g)  BY <1>1, <1>5, <1>6, JoinedOnce
  <2>. QED BY <2>1, <1>7 DEF Alike
<1>. QED BY <1>3, <1>4, <1>5, <1>7, <1>8

\* What is kept of the lines of a log.
KeptOf(raw) == [i \in DOMAIN raw |-> IF raw[i] \in Marker THEN <<>> ELSE <<raw[i]>>]

\* A parse so far: the blocks, and the fold that is open.
Parsed == [blocks : Seq(LogBlock), open : LogBlock]
Start == [blocks |-> <<>>, open |-> NoFold]
HoldsOf(a) == IF a.open.fold THEN Held(a.blocks) \o a.open.body ELSE Held(a.blocks)

\* The fold that is open is taken in with what it holds.
LEMMA FlushKeeps ==
  ASSUME NEW a \in Parsed
  PROVE  /\ Flush(a) \in Parsed /\ ~Flush(a).open.fold
         /\ Held(Flush(a).blocks) = HoldsOf(a)
<1>1. a.blocks \in Seq(LogBlock) /\ a.open \in LogBlock /\ a.open.fold \in BOOLEAN
  BY DEF Parsed, LogBlock
<1>2. NoFold \in LogBlock /\ NoFold.fold = FALSE  BY DEF NoFold, LogBlock
<1>3. CASE a.open.fold
  <2>. DEFINE b == Append(a.blocks, a.open)
  <2>1. b \in Seq(LogBlock) /\ Held(b) = Held(a.blocks) \o a.open.body
    BY <1>1, HeldAppend
  <2>. HIDE DEF b
  <2>2. Flush(a) = [blocks |-> b, open |-> NoFold]  BY <1>3 DEF Flush, b
  <2>. QED BY <1>2, <1>3, <2>1, <2>2 DEF Parsed, HoldsOf
<1>4. CASE ~a.open.fold  BY <1>1, <1>4 DEF Flush, HoldsOf
<1>. QED BY <1>1, <1>3, <1>4

\* What blocks hold is a sequence of lines.
LEMMA HeldIs ==
  ASSUME NEW bs \in Seq(LogBlock)
  PROVE  Held(bs) \in Seq(Line)
<1>. DEFINE B == Bodies(bs)
<1>1. B \in Seq(Seq(Line)) /\ Len(B) \in Nat  BY RenderedIs
<1>. HIDE DEF B
<1>2. PICK g \in [0..Len(B) -> Seq(Line)] : FlattenSeq(B) = g[Len(B)]  BY <1>1, Flattens
<1>3. Len(B) \in 0..Len(B)  BY <1>1
<1>. QED BY <1>2, <1>3 DEF Held, B

\* One line parsed is kept at the end of what was held, a marker is not.
LEMMA ParseLineKeeps ==
  ASSUME NEW a \in Parsed, NEW l \in Line
  PROVE  /\ ParseLine(a, l) \in Parsed
         /\ HoldsOf(ParseLine(a, l)) = HoldsOf(a) \o (IF l \in Marker THEN <<>> ELSE <<l>>)
<1>1. /\ a.blocks \in Seq(LogBlock) /\ a.open \in LogBlock /\ a.open.fold \in BOOLEAN
      /\ a.open.body \in Seq(Line)
  BY DEF Parsed, LogBlock
<1>2. Held(a.blocks) \in Seq(Line) /\ HoldsOf(a) \in Seq(Line)
  BY <1>1, HeldIs, JoinIs DEF HoldsOf
<1>3. CASE l = "group"
  <2>. DEFINE o == [NoFold EXCEPT !.fold = TRUE]
              b == Flush(a).blocks
  <2>1. o \in LogBlock /\ o.fold = TRUE /\ o.body = <<>>
    <3>1. NoFold \in LogBlock /\ NoFold.body = <<>>  BY DEF NoFold, LogBlock
    <3>. QED BY <3>1 DEF LogBlock
  <2>2. Flush(a) \in Parsed /\ Held(b) = HoldsOf(a)  BY FlushKeeps
  <2>3. b \in Seq(LogBlock)  BY <2>2 DEF Parsed
  <2>. HIDE DEF o
  <2>4. ParseLine(a, l) = [Flush(a) EXCEPT !.open = o]
    <3>1. l # "endgroup" /\ l \in Marker  BY <1>3 DEF Marker
    <3>. QED BY <1>3, <3>1, Zenon DEF ParseLine, o
  <2>5. ParseLine(a, l) = [blocks |-> b, open |-> o]  BY <2>2, <2>4 DEF Parsed
  <2>. HIDE DEF b
  <2>6. ParseLine(a, l) \in Parsed  BY <2>1, <2>3, <2>5 DEF Parsed
  <2>7. HoldsOf(ParseLine(a, l)) = HoldsOf(a) \o <<>>
    <3>1. HoldsOf([blocks |-> b, open |-> o]) = Held(b) \o <<>>  BY <2>1 DEF HoldsOf
    <3>. QED BY <2>2, <2>5, <3>1
  <2>. QED BY <1>3, <2>6, <2>7 DEF Marker
<1>4. CASE l = "endgroup"
  <2>1. ParseLine(a, l) = Flush(a)
    <3>1. l # "group" /\ l \in Marker  BY <1>4 DEF Marker
    <3>. QED BY <1>4, <3>1, Zenon DEF ParseLine
  <2>2. Flush(a) \in Parsed /\ HoldsOf(Flush(a)) = HoldsOf(a)  BY FlushKeeps DEF HoldsOf
  <2>3. HoldsOf(a) \o <<>> = HoldsOf(a)  BY <1>2, JoinEmpty
  <2>. QED BY <1>4, <2>1, <2>2, <2>3 DEF Marker
<1>5. CASE l \notin Marker /\ a.open.fold
  <2>. DEFINE body == Append(a.open.body, l)
              held == Held(a.blocks)
              was == a.open.body
  <2>1. body \in Seq(Line)  BY <1>1
  <2>2. held \o (was \o <<l>>) = (held \o was) \o <<l>>
    <3>1. held \in Seq(Line) /\ was \in Seq(Line) /\ <<l>> \in Seq(Line)  BY <1>1, <1>2
    <3>. HIDE DEF held, was
    <3>2. ASSUME NEW x \in Seq(Line), NEW y \in Seq(Line), NEW z \in Seq(Line)
          PROVE  x \o (y \o z) = (x \o y) \o z
      BY JoinRegroups
    <3>. QED BY <3>1, <3>2
  <2>3. body = was \o <<l>>  BY <1>1
  <2>. HIDE DEF body, held, was
  <2>4. ParseLine(a, l) = [a EXCEPT !.open.body = body]
    BY <1>5 DEF ParseLine, Marker, body
  <2>5. /\ ParseLine(a, l) \in Parsed /\ ParseLine(a, l).open.fold = a.open.fold
        /\ ParseLine(a, l).blocks = a.blocks /\ ParseLine(a, l).open.body = body
    BY <2>1, <2>4 DEF Parsed, LogBlock
  <2>6. HoldsOf(ParseLine(a, l)) = held \o body  BY <1>5, <2>5 DEF HoldsOf, held
  <2>7. HoldsOf(a) = held \o was  BY <1>5 DEF HoldsOf, held, was
  <2>. QED BY <1>5, <2>2, <2>3, <2>5, <2>6, <2>7
<1>6. CASE l \notin Marker /\ ~a.open.fold
  <2>. DEFINE b == Append(a.blocks, LineBlock(l))
  <2>1. LineBlock(l) \in LogBlock /\ LineBlock(l).body = <<l>>  BY DEF LineBlock, LogBlock
  <2>2. b \in Seq(LogBlock) /\ Held(b) = Held(a.blocks) \o <<l>>
    BY <1>1, <2>1, HeldAppend
  <2>. HIDE DEF b
  <2>3. ParseLine(a, l) = [a EXCEPT !.blocks = b]  BY <1>6 DEF ParseLine, Marker, b
  <2>4. ParseLine(a, l) \in Parsed /\ ParseLine(a, l).open = a.open /\ ParseLine(a, l).blocks = b
    BY <2>2, <2>3 DEF Parsed
  <2>. QED BY <1>6, <2>2, <2>4 DEF HoldsOf
<1>. QED BY <1>3, <1>4, <1>5, <1>6 DEF Marker

\* A log parsed holds every line of it in order but its markers, however they
\* are nested or cut off.
LEMMA ParseIsWhole ==
  ASSUME NEW raw \in Seq(Line)
  PROVE  ParseLog(raw) \in Seq(LogBlock) /\ Held(ParseLog(raw)) = Kept(raw)
<1>. DEFINE N == Len(raw)
            h == [p \in Parsed \X Line |-> ParseLine(p[1], p[2])]
            Parse(g) == g = [n \in 0..N |-> IF n = 0 THEN Start ELSE ParseLine(g[n - 1], raw[n])]
            K == KeptOf(raw)
<1>1. N \in Nat /\ (\A n \in 1..N : raw[n] \in Line) /\ DOMAIN raw = 1..N  OBVIOUS
<1>2. Start \in Parsed /\ HoldsOf(Start) = <<>>
  <2>1. NoFold \in LogBlock /\ NoFold.fold = FALSE  BY DEF NoFold, LogBlock
  <2>2. <<>> \in Seq(LogBlock) /\ Bodies(<<>>) = <<>>  BY DEF Bodies
  <2>3. Held(<<>>) = <<>>  BY <2>2 DEF Held, FlattenSeq
  <2>. QED BY <2>1, <2>2, <2>3 DEF Start, Parsed, HoldsOf
<1>3. PICK f \in [0..N -> Parsed] : Builds(h, Start, raw, f)
  <2>1. h \in [Parsed \X Line -> Parsed]  BY ParseLineKeeps
  <2>. HIDE DEF h
  <2>. QED BY <1>2, <2>1, BuiltUp
<1>4. ASSUME NEW n \in 1..N  PROVE f[n] = ParseLine(f[n - 1], raw[n]) /\ f[n - 1] \in Parsed
  <2>1. f[n - 1] \in Parsed /\ raw[n] \in Line
    <3>1. n - 1 \in 0..N  BY <1>1
    <3>. HIDE DEF N
    <3>. QED BY <3>1, <1>1
  <2>2. h[<<f[n - 1], raw[n]>>] = ParseLine(f[n - 1], raw[n])  BY <2>1
  <2>. QED BY <1>3, <2>1, <2>2 DEF Builds
<1>. HIDE DEF h
<1>5. f[0] = Start  BY <1>3 DEF Builds
<1>. DEFINE g == CHOOSE g : Parse(g)
<1>6. Parse(g)
  <2>1. Parse(f)
    <3>1. ASSUME NEW n \in 0..N
          PROVE  f[n] = IF n = 0 THEN Start ELSE ParseLine(f[n - 1], raw[n])
      <4>1. n = 0 \/ n \in 1..N  BY <1>1
      <4>. HIDE DEF N
      <4>. QED BY <4>1, <1>4, <1>5
    <3>2. f = [n \in 0..N |-> f[n]]  OBVIOUS
    <3>. QED BY <3>1, <3>2
  <2>. QED BY <2>1
<1>7. ParseLog(raw) = Flush(g[N]).blocks  BY DEF ParseLog, Start
<1>. HIDE DEF g
<1>8. f[N] = g[N]
  <2>. DEFINE Bad == {n \in 0..N : f[n] # g[n]}
  <2>1. Bad = {}
    <3>. SUFFICES ASSUME Bad # {} PROVE FALSE  OBVIOUS
    <3>1. PICK n \in Bad : \A v \in Bad : n <= v
      <4>1. Bad \in SUBSET Nat  BY <1>1
      <4>. HIDE DEF Bad
      <4>. QED BY <4>1, LeastNumber
    <3>2. n \in 0..N /\ f[n] # g[n]  OBVIOUS
    <3>3. g[n] = IF n = 0 THEN Start ELSE ParseLine(g[n - 1], raw[n])  BY <1>6, <3>2
    <3>4. n # 0  BY <1>5, <3>2, <3>3
    <3>5. n - 1 \in 0..N /\ n - 1 \notin Bad /\ n \in 1..N
      <4>. HIDE DEF Bad
      <4>. QED BY <1>1, <3>1, <3>2, <3>4
    <3>6. f[n - 1] = g[n - 1]  BY <3>5
    <3>. QED BY <1>4, <3>2, <3>3, <3>4, <3>5, <3>6
  <2>2. N \in 0..N /\ N \notin Bad  BY <1>1, <2>1
  <2>. QED BY <2>2
<1>9. f[N] \in Parsed
  <2>1. N \in 0..N  BY <1>1
  <2>. HIDE DEF N
  <2>. QED BY <2>1
<1>10. ParseLog(raw) \in Seq(LogBlock) /\ Held(ParseLog(raw)) = HoldsOf(f[N])
  <2>1. Flush(f[N]) \in Parsed /\ Held(Flush(f[N]).blocks) = HoldsOf(f[N])  BY <1>9, FlushKeeps
  <2>2. Flush(f[N]).blocks \in Seq(LogBlock)  BY <2>1 DEF Parsed
  <2>. QED BY <1>7, <1>8, <2>1, <2>2
<1>11. K \in Seq(Seq(Line)) /\ Len(K) = N
       /\ \A n \in 1..N : K[n] = IF raw[n] \in Marker THEN <<>> ELSE <<raw[n]>>
  <2>1. K \in [1..N -> Seq(Line)]  BY <1>1 DEF KeptOf
  <2>2. \A n \in 1..N : K[n] = IF raw[n] \in Marker THEN <<>> ELSE <<raw[n]>>
    BY <1>1 DEF KeptOf
  <2>. HIDE DEF K, N
  <2>. QED BY <1>1, <2>1, <2>2
<1>12. Kept(raw) = FlattenSeq(K)  BY DEF Kept, KeptOf
<1>. HIDE DEF K, N
<1>13. PICK k \in [0..N -> Seq(Line)] : Joined(K, N, k) /\ FlattenSeq(K) = k[N]
  BY <1>11, Flattens
<1>. DEFINE c == [n \in 0..N |-> HoldsOf(f[n])]
<1>14. Joined(K, N, c)
  <2>1. c[0] = <<>>  BY <1>1, <1>2, <1>5
  <2>2. ASSUME NEW n \in 1..N  PROVE c[n] = c[n - 1] \o K[n]
    <3>1. n \in 0..N /\ n - 1 \in 0..N  BY <1>1
    <3>2. HoldsOf(ParseLine(f[n - 1], raw[n])) = HoldsOf(f[n - 1]) \o K[n]
      BY <1>1, <1>4, <1>11, ParseLineKeeps
    <3>. QED BY <1>4, <3>1, <3>2
  <2>. HIDE DEF c
  <2>. QED BY <2>1, <2>2 DEF Joined
<1>15. c[N] = HoldsOf(f[N]) /\ N \in 0..N  BY <1>1
<1>. HIDE DEF c
<1>16. c[N] = k[N]
  <2>1. Alike(0, N, c, k)  BY <1>1, <1>13, <1>14, JoinedOnce
  <2>. QED BY <2>1, <1>15 DEF Alike
<1>. QED BY <1>10, <1>12, <1>13, <1>15, <1>16

-----------------------------------------------------------------------------
\* Longer pieces make a longer whole.
LEMMA LongerPieces ==
  ASSUME NEW T, NEW N \in Nat, NEW s, NEW t, \A n \in 1..N : s[n] \in Seq(T) /\ t[n] \in Seq(T),
         \A n \in 1..N : Len(s[n]) <= Len(t[n]),
         NEW f \in [0..N -> Seq(T)], Joined(s, N, f), NEW g \in [0..N -> Seq(T)], Joined(t, N, g)
  PROVE  Len(f[N]) <= Len(g[N])
<1>. DEFINE Bad == {n \in 0..N : ~ (Len(f[n]) <= Len(g[n]))}
<1>1. Bad = {}
  <2>. SUFFICES ASSUME Bad # {} PROVE FALSE  OBVIOUS
  <2>1. PICK n \in Bad : \A v \in Bad : n <= v
    <3>1. Bad \in SUBSET Nat  OBVIOUS
    <3>. HIDE DEF Bad
    <3>. QED BY <3>1, LeastNumber
  <2>2. n \in 0..N /\ ~ (Len(f[n]) <= Len(g[n]))  OBVIOUS
  <2>3. f[0] = <<>> /\ g[0] = <<>>  BY DEF Joined
  <2>4. n # 0
    <3>1. Len(f[0]) <= Len(g[0])  BY <2>3
    <3>. QED BY <2>2, <3>1
  <2>5. n - 1 \in 0..N /\ n - 1 \notin Bad /\ n \in 1..N
    <3>. HIDE DEF Bad
    <3>. QED BY <2>1, <2>2, <2>4
  <2>6. Len(f[n - 1]) <= Len(g[n - 1])  BY <2>5
  <2>7. f[n] = f[n - 1] \o s[n] /\ g[n] = g[n - 1] \o t[n]  BY <2>5 DEF Joined
  <2>8. f[n - 1] \in Seq(T) /\ g[n - 1] \in Seq(T) /\ s[n] \in Seq(T) /\ t[n] \in Seq(T)
    BY <2>5
  <2>9. Len(s[n]) <= Len(t[n])  BY <2>5
  <2>. DEFINE a == Len(f[n - 1])
              b == Len(s[n])
              c == Len(g[n - 1])
              d == Len(t[n])
              x == Len(f[n])
              y == Len(g[n])
  <2>10. x = a + b /\ a \in Nat /\ b \in Nat
    <3>1. Len(f[n - 1] \o s[n]) = a + b /\ a \in Nat /\ b \in Nat  BY <2>8, JoinIs
    <3>. QED BY <2>7, <3>1
  <2>11. y = c + d /\ c \in Nat /\ d \in Nat
    <3>1. Len(g[n - 1] \o t[n]) = c + d /\ c \in Nat /\ d \in Nat  BY <2>8, JoinIs
    <3>. QED BY <2>7, <3>1
  <2>12. ~(x <= y) /\ a <= c /\ b <= d  BY <2>2, <2>6, <2>9
  <2>. HIDE DEF Bad, a, b, c, d, x, y
  <2>. QED BY <2>10, <2>11, <2>12
<1>2. N \in 0..N /\ N \notin Bad
  <2>. HIDE DEF Bad
  <2>. QED BY <1>1
<1>. QED BY <1>2

\* What is joined of two sequences is the same as far as they are.
LEMMA JoinedAgree ==
  ASSUME NEW s, NEW t, NEW N \in Nat, NEW f, Joined(s, N, f), NEW g, Joined(t, N, g),
         NEW m \in 0..N, Alike(1, m, s, t)
  PROVE  Alike(0, m, f, g)
<1>1. m \in Nat /\ \A n \in 1..m : n \in 1..N  OBVIOUS
<1>2. Joined(s, m, f) /\ Joined(s, m, g)  BY <1>1 DEF Joined, Alike
<1>. QED BY <1>1, <1>2, JoinedOnce

\* The whole is no shorter than what it begins with.
LEMMA WholeIsLonger ==
  ASSUME NEW T, NEW N \in Nat, NEW s, \A n \in 1..N : s[n] \in Seq(T),
         NEW f \in [0..N -> Seq(T)], Joined(s, N, f), NEW m \in 0..N
  PROVE  Len(f[m]) <= Len(f[N])
<1>. DEFINE Bad == {n \in m..N : ~ (Len(f[m]) <= Len(f[n]))}
<1>0. \A n \in 0..N : Len(f[n]) \in Nat  OBVIOUS
<1>1. Bad = {}
  <2>. SUFFICES ASSUME Bad # {} PROVE FALSE  OBVIOUS
  <2>1. PICK n \in Bad : \A v \in Bad : n <= v
    <3>1. Bad \in SUBSET Nat  OBVIOUS
    <3>. HIDE DEF Bad
    <3>. QED BY <3>1, LeastNumber
  <2>2. n \in m..N /\ ~ (Len(f[m]) <= Len(f[n])) /\ n \in 0..N  OBVIOUS
  <2>3. n # m  BY <1>0, <2>2
  <2>4. n - 1 \in m..N /\ n - 1 \in 0..N /\ n - 1 \notin Bad /\ n \in 1..N
    <3>. HIDE DEF Bad
    <3>. QED BY <2>1, <2>2, <2>3
  <2>5. Len(f[m]) <= Len(f[n - 1])  BY <2>4
  <2>6. f[n] = f[n - 1] \o s[n]  BY <2>4 DEF Joined
  <2>. DEFINE a == Len(f[n - 1])
              b == Len(s[n])
              c == Len(f[m])
              x == Len(f[n])
  <2>7. x = a + b /\ a \in Nat /\ b \in Nat
    <3>1. f[n - 1] \in Seq(T) /\ s[n] \in Seq(T)  BY <2>4
    <3>2. Len(f[n - 1] \o s[n]) = a + b /\ a \in Nat /\ b \in Nat  BY <3>1, JoinIs
    <3>. QED BY <2>6, <3>2
  <2>8. c \in Nat /\ c <= a /\ ~(c <= x)  BY <1>0, <2>2, <2>5
  <2>. HIDE DEF Bad, a, b, c, x
  <2>. QED BY <2>7, <2>8
<1>2. N \in m..N /\ N \notin Bad
  <2>. HIDE DEF Bad
  <2>. QED BY <1>1
<1>. QED BY <1>2

\* Every place of the whole is one of a piece.
LiesIn(s, n, f, p) ==
  \E j \in 1..n : \E k \in 1..Len(s[j]) : p = Len(f[j - 1]) + k /\ f[n][p] = s[j][k]
LEMMA Located ==
  ASSUME NEW T, NEW N \in Nat, NEW s, \A n \in 1..N : s[n] \in Seq(T),
         NEW f \in [0..N -> Seq(T)], Joined(s, N, f), NEW p \in 1..Len(f[N])
  PROVE  LiesIn(s, N, f, p)
<1>. DEFINE At(n) == \E j \in 1..n : \E k \in 1..Len(s[j]) :
                       p = Len(f[j - 1]) + k /\ f[n][p] = s[j][k]
            Bad == {n \in 0..N : p \in 1..Len(f[n]) /\ ~At(n)}
<1>0. ASSUME NEW n \in 1..N
      PROVE  /\ n \in 0..N /\ n - 1 \in 0..N
             /\ f[n - 1] \in Seq(T) /\ s[n] \in Seq(T) /\ f[n] = f[n - 1] \o s[n]
             /\ Len(f[n]) = Len(f[n - 1]) + Len(s[n])
             /\ Len(f[n - 1]) \in Nat /\ Len(s[n]) \in Nat
  <2>1. n \in 0..N /\ n - 1 \in 0..N  OBVIOUS
  <2>2. f[n] = f[n - 1] \o s[n]  BY DEF Joined
  <2>3. f[n - 1] \in Seq(T) /\ s[n] \in Seq(T)  BY <2>1
  <2>4. Len(f[n - 1] \o s[n]) = Len(f[n - 1]) + Len(s[n])  BY <2>3, JoinIs
  <2>. QED BY <2>1, <2>2, <2>3, <2>4
<1>1. Bad = {}
  <2>. SUFFICES ASSUME Bad # {} PROVE FALSE  OBVIOUS
  <2>1. PICK n \in Bad : \A v \in Bad : n <= v
    <3>1. Bad \in SUBSET Nat  OBVIOUS
    <3>. HIDE DEF Bad
    <3>. QED BY <3>1, LeastNumber
  <2>2. n \in 0..N /\ p \in 1..Len(f[n]) /\ ~At(n)  OBVIOUS
  <2>3. f[0] = <<>>  BY DEF Joined
  <2>4. n # 0
    <3>1. Len(f[0]) = 0  BY <2>3
    <3>. QED BY <2>2, <3>1
  <2>5. n - 1 \in 0..N /\ n - 1 \notin Bad /\ n \in 1..N
    <3>. HIDE DEF Bad, At
    <3>. QED BY <2>1, <2>2, <2>4
  <2>. DEFINE a == f[n - 1]
              b == s[n]
  <2>6. /\ a \in Seq(T) /\ b \in Seq(T) /\ f[n] = a \o b
        /\ Len(f[n]) = Len(a) + Len(b) /\ Len(a) \in Nat /\ Len(b) \in Nat
    BY <1>0, <2>5
  <2>7. CASE p <= Len(a)
    <3>1. p \in 1..Len(f[n - 1])  BY <2>2, <2>6, <2>7
    <3>2. At(n - 1)  BY <2>5, <3>1
    <3>3. PICK j \in 1..(n - 1) : \E k \in 1..Len(s[j]) :
                       p = Len(f[j - 1]) + k /\ f[n - 1][p] = s[j][k]
      BY <3>2
    <3>4. f[n][p] = f[n - 1][p]
      <4>1. (a \o b)[p] = a[p]
        <5>1. p \in 1..Len(a)  BY <3>1
        <5>. HIDE DEF a, b
        <5>. QED BY <2>6, <5>1
      <4>. QED BY <2>6, <4>1
    <3>5. j \in 1..n  BY <2>2
    <3>6. At(n)  BY <3>3, <3>4, <3>5
    <3>. QED BY <2>2, <3>6
  <2>8. CASE p > Len(a)
    <3>. DEFINE k == p - Len(a)
    <3>1. k \in 1..Len(b) /\ p = Len(a) + k
      <4>. HIDE DEF a, b
      <4>. QED BY <2>2, <2>6, <2>8
    <3>2. (a \o b)[p] = b[k]
      <4>. HIDE DEF a, b, k
      <4>. QED BY <2>6, <3>1
    <3>3. n \in 1..n  BY <2>5
    <3>. HIDE DEF k
    <3>4. At(n)  BY <2>6, <3>1, <3>2, <3>3
    <3>. QED BY <2>2, <3>4
  <2>9. p \in Nat  BY <2>2
  <2>. HIDE DEF a, At, Bad
  <2>. QED BY <2>6, <2>7, <2>8, <2>9
<1>2. N \in 0..N /\ N \notin Bad
  <2>. HIDE DEF Bad
  <2>. QED BY <1>1
<1>. QED BY <1>2 DEF LiesIn

-----------------------------------------------------------------------------
\* What the log view keeps true of itself, open or not, and where its cursor is.
Place1(n) == 1..LastOr1(n)
LogRight(l) ==
  /\ l.blocks \in Seq(LogBlock) /\ Held(l.blocks) = Kept(l.raw)
  /\ l.cursor \in Nat \ {0}
  /\ l.matches \in Seq(Nat \ {0}) /\ l.at \in Place1(Len(l.matches))
  /\ l.state = "loaded" /\ l.query => l.matches = Hits(VisibleLines(Expanded(l.blocks)))
OnLine(l) == l.state = "loaded" => l.cursor \in Place1(Len(VisibleLines(l.blocks)))
LogParts(l) == LogRight(l) /\ OnLine(l)

\* The lines on screen are lines, and there are some number of them.
LEMMA LinesAre ==
  ASSUME NEW bs \in Seq(LogBlock)
  PROVE  VisibleLines(bs) \in Seq(LogLine) /\ Len(VisibleLines(bs)) \in Nat
<1>. DEFINE R == Rendered(bs)
<1>1. R \in Seq(Seq(LogLine)) /\ Len(R) \in Nat /\ VisibleLines(bs) = FlattenSeq(R)
  BY RenderedIs DEF VisibleLines, Rendered
<1>. HIDE DEF R
<1>2. PICK f \in [0..Len(R) -> Seq(LogLine)] : FlattenSeq(R) = f[Len(R)]  BY <1>1, Flattens
<1>3. Len(R) \in 0..Len(R)  BY <1>1
<1>4. VisibleLines(bs) \in Seq(LogLine)  BY <1>1, <1>2, <1>3
<1>. QED BY <1>4

\* What a search finds are places.
LEMMA HitsAre ==
  ASSUME NEW ls \in Seq(LogLine)
  PROVE  Hits(ls) \in Seq(Nat \ {0})
<1>. DEFINE T == Nat \ {0}
            H == [k \in DOMAIN ls |-> IF ls[k].line = "hit" THEN <<k>> ELSE <<>>]
<1>1. DOMAIN ls = 1..Len(ls) /\ Len(ls) \in Nat  OBVIOUS
<1>2. H \in [1..Len(ls) -> Seq(T)]
  <2>1. ASSUME NEW k \in 1..Len(ls)
        PROVE  (IF ls[k].line = "hit" THEN <<k>> ELSE <<>>) \in Seq(T)
    <3>1. k \in T  BY <1>1
    <3>. HIDE DEF T
    <3>2. <<k>> \in Seq(T) /\ <<>> \in Seq(T)  BY <3>1
    <3>. QED BY <3>2
  <2>. HIDE DEF T
  <2>. QED BY <1>1, <2>1
<1>3. Hits(ls) = FlattenSeq(H)  BY DEF Hits
<1>. HIDE DEF H, T
<1>4. H \in Seq(Seq(T)) /\ Len(H) \in Nat  BY <1>1, <1>2
<1>5. PICK f \in [0..Len(H) -> Seq(T)] : FlattenSeq(H) = f[Len(H)]  BY <1>4, Flattens
<1>6. Len(H) \in 0..Len(H)  BY <1>4
<1>. QED BY <1>3, <1>5, <1>6 DEF T

\* Blocks with every fold open are the same blocks.
LEMMA ExpandedIs ==
  ASSUME NEW bs \in Seq(LogBlock)
  PROVE  /\ Expanded(bs) \in Seq(LogBlock) /\ Len(Expanded(bs)) = Len(bs)
         /\ \A i \in 1..Len(bs) : /\ Expanded(bs)[i] = [bs[i] EXCEPT !.expanded = bs[i].fold]
                                  /\ Expanded(bs)[i].fold = bs[i].fold
                                  /\ Expanded(bs)[i].expanded = bs[i].fold
                                  /\ Expanded(bs)[i].body = bs[i].body
         /\ Held(Expanded(bs)) = Held(bs)
<1>. DEFINE e == Expanded(bs)
<1>1. DOMAIN bs = 1..Len(bs) /\ Len(bs) \in Nat  OBVIOUS
<1>2. ASSUME NEW i \in 1..Len(bs)
      PROVE  /\ e[i] = [bs[i] EXCEPT !.expanded = bs[i].fold] /\ e[i] \in LogBlock
             /\ e[i].fold = bs[i].fold /\ e[i].expanded = bs[i].fold /\ e[i].body = bs[i].body
  <2>1. bs[i] \in LogBlock  OBVIOUS
  <2>2. e[i] = [bs[i] EXCEPT !.expanded = bs[i].fold]  BY <1>1 DEF Expanded
  <2>. HIDE DEF e
  <2>. QED BY <2>1, <2>2 DEF LogBlock
<1>3. DOMAIN e = 1..Len(bs)  BY <1>1 DEF Expanded
<1>4. e = [i \in 1..Len(bs) |-> e[i]]  BY <1>1 DEF Expanded
<1>. HIDE DEF e
<1>5. e \in Seq(LogBlock) /\ Len(e) = Len(bs)
  <2>1. e \in [1..Len(bs) -> LogBlock]  BY <1>2, <1>4
  <2>. QED BY <1>1, <2>1
<1>6. Bodies(e) = Bodies(bs)  BY <1>1, <1>2, <1>3 DEF Bodies
<1>. QED BY <1>2, <1>5, <1>6 DEF e, Held

\* Opening the folds hides no line.
LEMMA ExpandedIsLonger ==
  ASSUME NEW bs \in Seq(LogBlock)
  PROVE  Len(VisibleLines(bs)) <= Len(VisibleLines(Expanded(bs)))
<1>. DEFINE e == Expanded(bs)
            N == Len(bs)
            R == Rendered(bs)
            S == Rendered(e)
<1>1. /\ e \in Seq(LogBlock) /\ Len(e) = N
      /\ \A i \in 1..N : e[i].fold = bs[i].fold /\ e[i].expanded = bs[i].fold /\ e[i].body = bs[i].body
  BY ExpandedIs
<1>2. /\ N \in Nat /\ DOMAIN bs = 1..N /\ R \in Seq(Seq(LogLine)) /\ Len(R) = N
  BY RenderedIs
<1>3. DOMAIN e = 1..N /\ S \in Seq(Seq(LogLine)) /\ Len(S) = N
  <2>. HIDE DEF e, N
  <2>. QED BY <1>1, RenderedIs
<1>4. VisibleLines(bs) = FlattenSeq(R) /\ VisibleLines(e) = FlattenSeq(S)
  BY DEF VisibleLines, Rendered
<1>5. ASSUME NEW i \in 1..N
      PROVE  R[i] \in Seq(LogLine) /\ S[i] \in Seq(LogLine) /\ Len(R[i]) <= Len(S[i])
  <2>1. R[i] = Shown(i, bs[i]) /\ S[i] = Shown(i, e[i])  BY <1>2, <1>3 DEF Rendered
  <2>2. R[i] \in Seq(LogLine) /\ S[i] \in Seq(LogLine)
    <3>. HIDE DEF R, S, N, e
    <3>. QED BY <1>2, <1>3
  <2>3. /\ e[i].fold = bs[i].fold /\ e[i].expanded = bs[i].fold /\ e[i].body = bs[i].body
        /\ bs[i].fold \in BOOLEAN
    <3>1. bs[i] \in LogBlock  OBVIOUS
    <3>2. bs[i].fold \in BOOLEAN  BY <3>1 DEF LogBlock
    <3>. QED BY <1>1, <3>2
  <2>. DEFINE c == Content(bs[i])
              h == <<Header(i)>>
  <2>4. Content(e[i]) = c  BY <2>3 DEF Content
  <2>. HIDE DEF R, S, e, N
  <2>5. CASE ~bs[i].fold \/ bs[i].expanded
    <3>1. Shown(i, e[i]) = Shown(i, bs[i])  BY <2>3, <2>4, <2>5 DEF Shown
    <3>2. Len(R[i]) \in Nat  BY <2>2
    <3>. QED BY <2>1, <2>2, <3>1, <3>2
  <2>6. CASE bs[i].fold /\ ~bs[i].expanded
    <3>1. R[i] = h \o <<>> /\ S[i] = h \o c  BY <2>1, <2>3, <2>4, <2>6 DEF Shown
    <3>2. h \in Seq(LogLine) /\ Len(h) = 1
      <4>1. Header(i) \in LogLine  BY <1>2 DEF Header, LogLine, Line, Marker
      <4>. QED BY <4>1
    <3>3. c \in Seq(LogLine)
      <4>1. bs[i] \in LogBlock  BY DEF N
      <4>2. i \in Nat \ {0}  BY <1>2
      <4>. QED BY <4>1, <4>2, ShownHolds
    <3>. HIDE DEF h, c
    <3>4. Len(h \o <<>>) = 1  BY <3>2
    <3>5. Len(h \o c) = 1 + Len(c) /\ Len(c) \in Nat  BY <3>2, <3>3, JoinIs
    <3>. QED BY <2>2, <3>1, <3>4, <3>5
  <2>. QED BY <2>2, <2>3, <2>5, <2>6
<1>. HIDE DEF e, N, R, S
<1>6. PICK f \in [0..N -> Seq(LogLine)] : Joined(R, N, f) /\ FlattenSeq(R) = f[N]
  BY <1>2, Flattens
<1>7. PICK g \in [0..N -> Seq(LogLine)] : Joined(S, N, g) /\ FlattenSeq(S) = g[N]
  BY <1>3, Flattens
<1>8. Len(f[N]) <= Len(g[N])  BY <1>2, <1>5, <1>6, <1>7, LongerPieces
<1>. QED BY <1>4, <1>6, <1>7, <1>8 DEF e

\* Shown lines tell the block they head: only its first line does.
HeadedBy(ls, p) == ls[p].heads
LEMMA ShownHeads ==
  ASSUME NEW j \in Nat \ {0}, NEW b \in LogBlock, NEW k \in 1..Len(Shown(j, b)),
         HeadedBy(Shown(j, b), k) # 0
  PROVE  b.fold /\ k = 1 /\ HeadedBy(Shown(j, b), k) = j
<1>. DEFINE c == Content(b)
            h == <<Header(j)>>
<1>1. c \in Seq(LogLine) /\ \A n \in 1..Len(c) : c[n].heads = 0
  <2>1. c \in Seq(LogLine)  BY ShownHolds
  <2>2. DOMAIN b.body = 1..Len(b.body) /\ Len(b.body) \in Nat
    <3>1. b.body \in Seq(Line)  BY DEF LogBlock
    <3>. QED BY <3>1
  <2>3. \A n \in 1..Len(b.body) : c[n].heads = 0  BY <2>2 DEF Content
  <2>4. Len(c) = Len(b.body)  BY <2>2 DEF Content
  <2>. HIDE DEF c
  <2>. QED BY <2>1, <2>3, <2>4
<1>2. h \in Seq(LogLine) /\ Len(h) = 1 /\ h[1].heads = j
  BY DEF Header, LogLine, Line, Marker
<1>3. b.fold \in BOOLEAN /\ b.expanded \in BOOLEAN  BY DEF LogBlock
<1>4. b.fold
  <2>. SUFFICES ASSUME ~b.fold PROVE FALSE  BY <1>3
  <2>1. Shown(j, b) = c  BY DEF Shown
  <2>. HIDE DEF c
  <2>. QED BY <1>1, <2>1 DEF HeadedBy
<1>. DEFINE t == IF b.expanded THEN c ELSE <<>>
<1>5. Shown(j, b) = h \o t  BY <1>4 DEF Shown
<1>6. t \in Seq(LogLine) /\ \A n \in 1..Len(t) : t[n].heads = 0
  <2>1. <<>> \in Seq(LogLine) /\ Len(<<>>) = 0  OBVIOUS
  <2>2. CASE b.expanded
    <3>. HIDE DEF c
    <3>. QED BY <1>1, <2>2
  <2>3. CASE ~b.expanded  BY <2>1, <2>3
  <2>. QED BY <2>2, <2>3
<1>. HIDE DEF c, h, t
<1>7. Len(h \o t) = 1 + Len(t) /\ Len(t) \in Nat
  <2>1. h \in Seq(LogLine) /\ t \in Seq(LogLine) /\ Len(h) = 1  BY <1>2, <1>6
  <2>2. Len(h \o t) = Len(h) + Len(t) /\ Len(t) \in Nat  BY <2>1, JoinIs
  <2>. QED BY <2>1, <2>2
<1>8. k = 1
  <2>. SUFFICES ASSUME k # 1 PROVE FALSE  OBVIOUS
  <2>1. k - 1 \in 1..Len(t)  BY <1>5, <1>7
  <2>2. (h \o t)[k] = t[k - 1]  BY <1>2, <1>5, <1>6, <1>7, <2>1
  <2>. QED BY <1>5, <1>6, <2>1, <2>2 DEF HeadedBy
<1>9. (h \o t)[k] = h[k]
  <2>1. h \in Seq(LogLine) /\ t \in Seq(LogLine) /\ Len(h) = 1  BY <1>2, <1>6
  <2>2. k \in 1..Len(h)  BY <1>8, <2>1
  <2>. QED BY <2>1, <2>2, JoinBegins
<1>. QED BY <1>2, <1>4, <1>5, <1>8, <1>9 DEF HeadedBy

\* The header of a block is the line after all of the blocks before it.
HeadsAt(bs, n, f, p) ==
  \E i \in 1..n : i = HeadedBy(f[n], p) /\ bs[i].fold /\ p = Len(f[i - 1]) + 1
LEMMA HeaderIsAt ==
  ASSUME NEW bs \in Seq(LogBlock), NEW N \in Nat, N = Len(bs),
         NEW f \in [0..N -> Seq(LogLine)], Joined(Rendered(bs), N, f),
         NEW p \in 1..Len(f[N]), HeadedBy(f[N], p) # 0
  PROVE  HeadsAt(bs, N, f, p)
<1>. DEFINE R == Rendered(bs)
<1>1. \A n \in 1..N : R[n] = Shown(n, bs[n]) /\ R[n] \in Seq(LogLine)
  <2>1. R \in Seq(Seq(LogLine)) /\ Len(R) = N /\ DOMAIN bs = 1..N  BY RenderedIs
  <2>2. \A n \in 1..N : R[n] = Shown(n, bs[n])  BY <2>1 DEF Rendered
  <2>. HIDE DEF R
  <2>. QED BY <2>1, <2>2
<1>2. Joined(R, N, f)  OBVIOUS
<1>3. PICK j \in 1..N : \E k \in 1..Len(R[j]) : p = Len(f[j - 1]) + k /\ f[N][p] = R[j][k]
  <2>1. \A n \in 1..N : R[n] \in Seq(LogLine)  BY <1>1
  <2>2. LiesIn(R, N, f, p)
    <3>. HIDE DEF R
    <3>. QED BY <1>2, <2>1, Located
  <2>. HIDE DEF R
  <2>. QED BY <2>2 DEF LiesIn
<1>. HIDE DEF R
<1>4. PICK k \in 1..Len(R[j]) : p = Len(f[j - 1]) + k /\ f[N][p] = R[j][k]  BY <1>3
<1>5. R[j] = Shown(j, bs[j]) /\ bs[j] \in LogBlock /\ j \in Nat \ {0}  BY <1>1
<1>6. k \in 1..Len(Shown(j, bs[j])) /\ HeadedBy(Shown(j, bs[j]), k) = HeadedBy(f[N], p)
  BY <1>4, <1>5 DEF HeadedBy
<1>7. bs[j].fold /\ k = 1 /\ HeadedBy(Shown(j, bs[j]), k) = j
  BY <1>5, <1>6, ShownHeads
<1>. QED BY <1>4, <1>6, <1>7 DEF HeadsAt

\* A fold toggled under its header keeps its lines, and the header its place.
Toggled(bs, i) == [bs EXCEPT ![i].expanded = ~@]
LEMMA ToggleKeeps ==
  ASSUME NEW bs \in Seq(LogBlock), NEW p \in 1..Len(VisibleLines(bs)),
         NEW i, i = HeadedBy(VisibleLines(bs), p), i # 0
  PROVE  /\ Toggled(bs, i) \in Seq(LogBlock) /\ Held(Toggled(bs, i)) = Held(bs)
         /\ Expanded(Toggled(bs, i)) = Expanded(bs) /\ p <= Len(VisibleLines(Toggled(bs, i)))
<1>. DEFINE cs == Toggled(bs, i)
            N == Len(bs)
            R == Rendered(bs)
            S == Rendered(cs)
<1>1. /\ N \in Nat /\ DOMAIN bs = 1..N /\ R \in Seq(Seq(LogLine)) /\ Len(R) = N
      /\ VisibleLines(bs) = FlattenSeq(R)
  BY RenderedIs DEF VisibleLines, Rendered
<1>2. \A n \in 1..N : R[n] = Shown(n, bs[n]) /\ R[n] \in Seq(LogLine)
  <2>1. \A n \in 1..N : R[n] = Shown(n, bs[n])  BY <1>1 DEF Rendered
  <2>. HIDE DEF R
  <2>. QED BY <1>1, <2>1
<1>3. PICK f \in [0..N -> Seq(LogLine)] : Joined(R, N, f) /\ VisibleLines(bs) = f[N]
  <2>. HIDE DEF R, N
  <2>. QED BY <1>1, Flattens
<1>4. p \in 1..Len(f[N]) /\ HeadedBy(f[N], p) = i  BY <1>3
<1>5. PICK j \in 1..N : j = HeadedBy(f[N], p) /\ bs[j].fold /\ p = Len(f[j - 1]) + 1
  <2>1. N = Len(bs) /\ Joined(Rendered(bs), N, f)  BY <1>3
  <2>2. HeadsAt(bs, N, f, p)
    <3>. HIDE DEF N, R
    <3>. QED BY <1>1, <1>4, <2>1, HeaderIsAt
  <2>. HIDE DEF N
  <2>. QED BY <2>2 DEF HeadsAt
<1>7. bs[i].fold /\ i \in 1..N /\ p = Len(f[i - 1]) + 1  BY <1>4, <1>5
<1>8. bs[i] \in LogBlock  BY <1>7
<1>. DEFINE b == [bs[i] EXCEPT !.expanded = ~@]
<1>9. b \in LogBlock /\ b.fold = bs[i].fold /\ b.body = bs[i].body  BY <1>8 DEF LogBlock
<1>10. cs = [bs EXCEPT ![i] = b]  BY DEF Toggled
<1>11. b.expanded = ~bs[i].expanded  BY <1>8 DEF LogBlock
<1>. HIDE DEF b, cs
<1>12. /\ cs \in Seq(LogBlock) /\ Len(cs) = N /\ DOMAIN cs = 1..N
       /\ \A n \in 1..N : cs[n] = IF n = i THEN b ELSE bs[n]
  <2>1. bs \in [1..N -> LogBlock]  BY <1>1
  <2>2. cs \in [1..N -> LogBlock] /\ \A n \in 1..N : cs[n] = IF n = i THEN b ELSE bs[n]
    BY <1>7, <1>9, <1>10, <2>1
  <2>3. cs \in Seq(LogBlock) /\ Len(cs) = N /\ DOMAIN cs = 1..N
    <3>. HIDE DEF N
    <3>. QED BY <1>1, <2>2
  <2>. QED BY <2>2, <2>3
<1>13. /\ S \in Seq(Seq(LogLine)) /\ Len(S) = N /\ VisibleLines(cs) = FlattenSeq(S)
       /\ \A n \in 1..N : S[n] = Shown(n, cs[n])
  <2>1. S \in Seq(Seq(LogLine)) /\ Len(S) = N
    <3>. HIDE DEF N
    <3>. QED BY <1>12, RenderedIs
  <2>2. \A n \in 1..N : S[n] = Shown(n, cs[n])  BY <1>12 DEF Rendered
  <2>. QED BY <2>1, <2>2 DEF VisibleLines, Rendered
<1>14. Held(cs) = Held(bs)
  <2>1. \A n \in 1..N : cs[n].body = bs[n].body  BY <1>9, <1>12
  <2>2. Bodies(cs) = Bodies(bs)  BY <1>1, <1>12, <2>1 DEF Bodies
  <2>. QED BY <2>2 DEF Held
<1>15. Expanded(cs) = Expanded(bs)
  <2>1. ASSUME NEW n \in 1..N
        PROVE  [cs[n] EXCEPT !.expanded = cs[n].fold] = [bs[n] EXCEPT !.expanded = bs[n].fold]
    <3>1. CASE n # i  BY <1>12, <3>1
    <3>2. CASE n = i
      <4>1. [b EXCEPT !.expanded = b.fold] = [bs[i] EXCEPT !.expanded = bs[i].fold]
        <5>. DEFINE x == [b EXCEPT !.expanded = b.fold]
                    y == [bs[i] EXCEPT !.expanded = bs[i].fold]
        <5>1. x \in LogBlock /\ x.fold = b.fold /\ x.expanded = b.fold /\ x.body = b.body
          BY <1>9 DEF LogBlock
        <5>2. y \in LogBlock /\ y.fold = bs[i].fold /\ y.expanded = bs[i].fold /\ y.body = bs[i].body
          BY <1>8 DEF LogBlock
        <5>. HIDE DEF x, y
        <5>3. x = [fold |-> x.fold, body |-> x.body, expanded |-> x.expanded]  BY <5>1 DEF LogBlock
        <5>4. y = [fold |-> y.fold, body |-> y.body, expanded |-> y.expanded]  BY <5>2 DEF LogBlock
        <5>5. x = y  BY <5>1, <5>2, <5>3, <5>4, <1>9
        <5>. QED BY <5>5 DEF x, y
      <4>. QED BY <1>12, <3>2, <4>1
    <3>. QED BY <3>1, <3>2
  <2>. QED BY <1>1, <1>12, <2>1 DEF Expanded
<1>16. PICK g \in [0..N -> Seq(LogLine)] : Joined(S, N, g) /\ VisibleLines(cs) = g[N]
  <2>. HIDE DEF S, N
  <2>. QED BY <1>1, <1>13, Flattens
<1>17. f[i - 1] = g[i - 1]
  <2>1. i - 1 \in Nat /\ \A n \in 1..(i - 1) : n \in 1..N /\ n # i  BY <1>1, <1>7
  <2>2. \A n \in 1..(i - 1) : R[n] = S[n]  BY <1>2, <1>12, <1>13, <2>1
  <2>3. i - 1 \in 0..N  BY <1>1, <1>7
  <2>. DEFINE m == i - 1
  <2>4. m \in 0..N /\ m \in 0..m /\ Alike(1, m, R, S)  BY <2>2, <2>3 DEF Alike
  <2>5. N \in Nat /\ Joined(R, N, f) /\ Joined(S, N, g)  BY <1>1, <1>3, <1>16
  <2>. HIDE DEF R, S, N, m
  <2>6. Alike(0, m, f, g)  BY <2>4, <2>5, JoinedAgree
  <2>7. f[m] = g[m]  BY <2>4, <2>6 DEF Alike
  <2>. QED BY <2>7 DEF m
<1>18. Len(g[i]) <= Len(g[N])
  <2>1. i \in 0..N /\ \A n \in 1..N : S[n] \in Seq(LogLine)
    <3>1. i \in 0..N  BY <1>1, <1>7
    <3>. HIDE DEF S, N
    <3>. QED BY <1>13, <3>1
  <2>. HIDE DEF S, N
  <2>. QED BY <1>1, <1>16, <2>1, WholeIsLonger
<1>19. Len(g[i]) = Len(g[i - 1]) + Len(S[i]) /\ Len(S[i]) >= 1 /\ Len(g[i - 1]) \in Nat
  <2>1. i - 1 \in 0..N  BY <1>1, <1>7
  <2>2. g[i] = g[i - 1] \o S[i] /\ S[i] \in Seq(LogLine)
    <3>1. i \in 1..N /\ S \in Seq(Seq(LogLine)) /\ Len(S) = N  BY <1>7, <1>13
    <3>. HIDE DEF S, N
    <3>2. g[i] = g[i - 1] \o S[i]  BY <3>1, <1>16 DEF Joined
    <3>3. S[i] \in Seq(LogLine)  BY <3>1
    <3>. QED BY <3>2, <3>3
  <2>3. g[i - 1] \in Seq(LogLine)
    <3>. HIDE DEF N
    <3>. QED BY <2>1
  <2>4. S[i] = Shown(i, b)  BY <1>7, <1>12, <1>13
  <2>5. Len(Shown(i, b)) >= 1
    <3>. DEFINE h == <<Header(i)>>
    <3>1. h \in Seq(LogLine) /\ Len(h) = 1
      <4>1. Header(i) \in LogLine  BY <1>1, <1>7 DEF Header, LogLine, Line, Marker
      <4>. QED BY <4>1
    <3>2. PICK t \in {Content(b), <<>>} : Shown(i, b) = h \o t  BY <1>7, <1>9 DEF Shown
    <3>3. t \in Seq(LogLine)
      <4>1. i \in Nat \ {0}  BY <1>1, <1>7
      <4>2. Content(b) \in Seq(LogLine)  BY <1>9, <4>1, ShownHolds
      <4>3. <<>> \in Seq(LogLine)  OBVIOUS
      <4>. QED BY <3>2, <4>2, <4>3
    <3>. HIDE DEF h
    <3>4. Len(h \o t) = Len(h) + Len(t) /\ Len(t) \in Nat  BY <3>1, <3>3, JoinIs
    <3>. QED BY <3>1, <3>2, <3>4
  <2>. HIDE DEF S, N
  <2>6. Len(g[i - 1] \o S[i]) = Len(g[i - 1]) + Len(S[i]) /\ Len(g[i - 1]) \in Nat
    BY <2>2, <2>3, JoinIs
  <2>. QED BY <2>2, <2>4, <2>5, <2>6
<1>20. p = Len(f[i - 1]) + 1  BY <1>7
<1>21. Len(g[N]) \in Nat /\ Len(S[i]) \in Nat
  <2>1. g[N] \in Seq(LogLine) /\ S[i] \in Seq(LogLine)
    <3>1. N \in 0..N  BY <1>1
    <3>. HIDE DEF S, N
    <3>. QED BY <1>7, <1>13, <3>1
  <2>. HIDE DEF S, N
  <2>. QED BY <2>1, JoinIs
<1>22. p <= Len(VisibleLines(cs))
  <2>. DEFINE x == Len(g[N])
              y == Len(g[i])
              z == Len(g[i - 1])
              w == Len(S[i])
  <2>1. y <= x /\ y = z + w /\ w >= 1 /\ p = z + 1 /\ x \in Nat /\ z \in Nat /\ w \in Nat
    BY <1>17, <1>18, <1>19, <1>20, <1>21
  <2>. HIDE DEF x, y, z, w
  <2>2. p <= x  BY <2>1
  <2>. QED BY <1>16, <2>2 DEF x
<1>. QED BY <1>12, <1>14, <1>15, <1>22 DEF cs

-----------------------------------------------------------------------------
\* What was opened stays open when it is opened again.
LEMMA ExpandedOnce ==
  ASSUME NEW bs \in Seq(LogBlock)
  PROVE  Expanded(Expanded(bs)) = Expanded(bs)
<1>. DEFINE e == Expanded(bs)
<1>1. /\ e \in Seq(LogBlock) /\ Len(e) = Len(bs)
      /\ \A i \in 1..Len(bs) : e[i].expanded = bs[i].fold /\ e[i].fold = bs[i].fold
  BY ExpandedIs
<1>. HIDE DEF e
<1>2. /\ Expanded(e) \in Seq(LogBlock) /\ Len(Expanded(e)) = Len(e)
      /\ \A i \in 1..Len(e) : Expanded(e)[i] = [e[i] EXCEPT !.expanded = e[i].fold]
  BY <1>1, ExpandedIs
<1>3. ASSUME NEW i \in 1..Len(e)  PROVE Expanded(e)[i] = e[i]
  <2>1. e[i] \in LogBlock /\ e[i].expanded = e[i].fold  BY <1>1
  <2>. DEFINE b == e[i]
  <2>2. b \in LogBlock /\ b.expanded = b.fold  BY <2>1
  <2>. HIDE DEF b
  <2>3. [b EXCEPT !.expanded = b.fold] = b  BY <2>2 DEF LogBlock
  <2>. QED BY <1>2, <2>3 DEF b
<1>4. Expanded(e) = e  BY <1>1, <1>2, <1>3
<1>. QED BY <1>4 DEF e

\* A cursor clamped to the lines is on one, or on the first of none.
LEMMA ClampedFits ==
  ASSUME NEW m, DOMAIN m = DOMAIN ClosedLog, LogRight(m)
  PROVE  LogParts(ClampLine(m))
<1>. DEFINE n == Len(VisibleLines(m.blocks))
            c == IF m.cursor > n THEN LastOr1(n) ELSE m.cursor
<1>1. n \in Nat  BY LinesAre DEF LogRight
<1>2. ClampLine(m) = [m EXCEPT !.cursor = c]  BY DEF ClampLine
<1>3. c \in Place1(n) /\ c \in Nat \ {0}
  <2>1. m.cursor \in Nat \ {0}  BY DEF LogRight
  <2>. HIDE DEF n
  <2>. QED BY <1>1, <2>1 DEF Place1, LastOr1
<1>4. \E k \in Nat \ {0} : k \in Place1(n) /\ ClampLine(m) = [m EXCEPT !.cursor = k]
  BY <1>2, <1>3
<1>. HIDE DEF c, n
<1>5. PICK k \in Nat \ {0} : k \in Place1(n) /\ ClampLine(m) = [m EXCEPT !.cursor = k]
  BY <1>4
<1>6. /\ ClampLine(m).blocks = m.blocks /\ ClampLine(m).raw = m.raw
      /\ ClampLine(m).matches = m.matches /\ ClampLine(m).at = m.at
      /\ ClampLine(m).state = m.state /\ ClampLine(m).query = m.query
      /\ ClampLine(m).cursor = k
  BY <1>5 DEF ClosedLog
<1>7. LogRight(ClampLine(m))  BY <1>6 DEF LogRight
<1>. QED BY <1>5, <1>6, <1>7 DEF LogParts, OnLine, n

\* What changes none of these fields changes none of it.
Unmoved(l, m) ==
  /\ m.blocks = l.blocks /\ m.raw = l.raw /\ m.cursor = l.cursor /\ m.matches = l.matches
  /\ m.at = l.at /\ m.state = l.state /\ m.query = l.query
LEMMA UnmovedKeeps ==
  ASSUME NEW l, NEW m, LogParts(l), Unmoved(l, m)
  PROVE  LogParts(m)
BY DEF LogParts, LogRight, OnLine, Unmoved

\* A search given up leaves its log as it is.
LEMMA NoSearchKeeps ==
  ASSUME NEW l, DOMAIN l = DOMAIN ClosedLog, l.blocks \in Seq(LogBlock),
         Held(l.blocks) = Kept(l.raw), l.cursor \in Nat \ {0}, OnLine(l)
  PROVE  LogParts(NoSearch(l))
<1>1. /\ NoSearch(l).blocks = l.blocks /\ NoSearch(l).raw = l.raw
      /\ NoSearch(l).cursor = l.cursor /\ NoSearch(l).state = l.state
      /\ NoSearch(l).matches = <<>> /\ NoSearch(l).at = 1 /\ NoSearch(l).query = FALSE
  BY DEF NoSearch, ClosedLog
<1>2. Len(<<>>) = 0 /\ <<>> \in Seq(Nat \ {0}) /\ 1 \in Place1(0)  BY DEF Place1, LastOr1
<1>3. LogRight(NoSearch(l))  BY <1>1, <1>2 DEF LogRight
<1>. QED BY <1>1, <1>3 DEF LogParts, OnLine

\* A search opens every fold, finds all there is, and goes to the first of it.
LEMMA SearchKeeps ==
  ASSUME LogInv, LogParts(log)
  PROVE  LogParts(ApplySearch(log))
<1>. DEFINE begun == [log EXCEPT !.searching = FALSE, !.query = TRUE, !.at = 1]
            all == Expanded(begun.blocks)
            hits == Hits(VisibleLines(all))
            m == [begun EXCEPT !.blocks = all, !.matches = hits]
<1>0. DOMAIN log = DOMAIN ClosedLog  BY DEF LogInv, Fields13
<1>1. ~log.typed => LogParts(ApplySearch(log))
  <2>1. ~log.typed => ApplySearch(log) = NoSearch(log)  BY DEF ApplySearch
  <2>. QED BY <1>0, <2>1, NoSearchKeeps DEF LogParts, LogRight
<1>2. Collect(begun) = m  BY DEF Collect
<1>3. /\ DOMAIN begun = DOMAIN ClosedLog
      /\ begun.blocks = log.blocks /\ begun.raw = log.raw /\ begun.cursor = log.cursor
      /\ begun.at = 1 /\ begun.state = log.state
  BY <1>0 DEF ClosedLog
<1>4. /\ all \in Seq(LogBlock) /\ Held(all) = Held(log.blocks) /\ Expanded(all) = all
      /\ hits \in Seq(Nat \ {0}) /\ Len(hits) \in Nat
      /\ Len(VisibleLines(log.blocks)) \in Nat /\ Len(VisibleLines(all)) \in Nat
      /\ Len(VisibleLines(log.blocks)) <= Len(VisibleLines(all))
  <2>1. log.blocks \in Seq(LogBlock)  BY DEF LogParts, LogRight
  <2>2. all = Expanded(log.blocks)  BY <1>3
  <2>3. /\ all \in Seq(LogBlock) /\ Held(all) = Held(log.blocks) /\ Expanded(all) = all
        /\ Len(VisibleLines(log.blocks)) <= Len(VisibleLines(all))
    BY <2>1, <2>2, ExpandedIs, ExpandedOnce, ExpandedIsLonger
  <2>4. VisibleLines(all) \in Seq(LogLine) /\ Len(VisibleLines(all)) \in Nat
        /\ Len(VisibleLines(log.blocks)) \in Nat
    BY <2>1, <2>3, LinesAre
  <2>. HIDE DEF all
  <2>5. hits \in Seq(Nat \ {0})  BY <2>4, HitsAre
  <2>. HIDE DEF hits
  <2>6. Len(hits) \in Nat  BY <2>5
  <2>. QED BY <2>3, <2>4, <2>5, <2>6
<1>5. /\ DOMAIN m = DOMAIN ClosedLog /\ m.blocks = all /\ m.raw = log.raw
      /\ m.cursor = log.cursor /\ m.matches = hits /\ m.at = 1 /\ m.state = log.state
  <2>. HIDE DEF all, hits, begun
  <2>. QED BY <1>3 DEF ClosedLog
<1>6. hits = Hits(VisibleLines(all))  OBVIOUS
<1>7. ApplySearch(log) = IF ~log.typed THEN NoSearch(log)
                         ELSE IF m.matches = <<>> THEN m
                              ELSE ClampLine([m EXCEPT !.cursor = m.matches[1]])
  BY <1>2 DEF ApplySearch
<1>. HIDE DEF begun, all, hits, m
<1>8. ASSUME NEW l, DOMAIN l = DOMAIN ClosedLog, l.blocks = all, l.raw = log.raw,
             l.cursor \in Nat \ {0}, l.matches = hits, l.at = 1
      PROVE  LogRight(l)
  <2>1. Held(all) = Kept(log.raw)  BY <1>4 DEF LogParts, LogRight
  <2>2. 1 \in Place1(Len(hits))  BY <1>4 DEF Place1, LastOr1
  <2>. QED BY <1>4, <1>6, <1>8, <2>1, <2>2 DEF LogRight
<1>9. log.cursor \in Nat \ {0}  BY DEF LogParts, LogRight
<1>10. LogParts(m)
  <2>1. LogRight(m)  BY <1>5, <1>8, <1>9
  <2>2. ASSUME m.state = "loaded"  PROVE m.cursor \in Place1(Len(VisibleLines(m.blocks)))
    <3>1. log.cursor \in Place1(Len(VisibleLines(log.blocks)))
      BY <1>5, <2>2 DEF LogParts, OnLine
    <3>. DEFINE a == Len(VisibleLines(log.blocks))
                b == Len(VisibleLines(all))
    <3>2. a \in Nat /\ b \in Nat /\ a <= b /\ log.cursor \in Place1(a)  BY <1>4, <3>1
    <3>. HIDE DEF a, b
    <3>3. log.cursor \in Place1(b)  BY <1>9, <3>2 DEF Place1, LastOr1
    <3>. QED BY <1>5, <3>3 DEF b
  <2>. QED BY <2>1, <2>2 DEF LogParts, OnLine
<1>11. ASSUME m.matches # <<>>
       PROVE  LogParts(ClampLine([m EXCEPT !.cursor = m.matches[1]]))
  <2>1. hits[1] \in Nat \ {0}  BY <1>4, <1>5, <1>11
  <2>. DEFINE k == hits[1]
              l == [m EXCEPT !.cursor = k]
  <2>2. k \in Nat \ {0}  BY <2>1
  <2>. HIDE DEF k
  <2>3. /\ DOMAIN l = DOMAIN ClosedLog /\ l.blocks = all /\ l.raw = log.raw /\ l.cursor = k
        /\ l.matches = hits /\ l.at = 1
    BY <1>5 DEF ClosedLog
  <2>. HIDE DEF l
  <2>4. LogRight(l)  BY <1>8, <2>2, <2>3
  <2>5. LogParts(ClampLine(l))  BY <2>3, <2>4, ClampedFits
  <2>. QED BY <1>5, <2>5 DEF l, k
<1>. QED BY <1>1, <1>7, <1>10, <1>11

\* The cursor moves to a line there is.
LEMMA MoveLineKeeps ==
  ASSUME LogInv, LogParts(log), MoveLine
  PROVE  LogParts(log')
<1>1. Len(Lines) \in Nat  BY LinesAre DEF LogParts, LogRight, Lines
<1>2. PICK k \in Place1(Len(Lines)) : log' = [log EXCEPT !.cursor = k]
  BY DEF MoveLine, Place1
<1>3. k \in Nat \ {0}  BY <1>1, <1>2 DEF Place1, LastOr1
<1>4. /\ log'.blocks = log.blocks /\ log'.raw = log.raw /\ log'.matches = log.matches
      /\ log'.at = log.at /\ log'.state = log.state /\ log'.query = log.query /\ log'.cursor = k
  BY <1>2 DEF LogInv, Fields13, ClosedLog
<1>5. LogRight(log')  BY <1>3, <1>4 DEF LogParts, LogRight
<1>. QED BY <1>2, <1>4, <1>5 DEF LogParts, OnLine, Lines

\* A fold is opened or closed under the cursor.
LEMMA ToggleFoldKeeps ==
  ASSUME LogInv, LogParts(log), ToggleFold
  PROVE  LogParts(log')
<1>. DEFINE p == log.cursor
            ls == VisibleLines(log.blocks)
            i == HeadedBy(ls, p)
            cs == Toggled(log.blocks, i)
<1>1. log.blocks \in Seq(LogBlock)  BY DEF LogParts, LogRight
<1>2. ls \in Seq(LogLine) /\ Len(ls) \in Nat  BY <1>1, LinesAre
<1>3. p \in 1..Len(ls) /\ i # 0
  BY <1>2 DEF ToggleFold, Lines, HeadedBy
<1>4. log' = [log EXCEPT !.blocks = cs]
  <2>1. log' = [log EXCEPT !.blocks[ls[p].heads].expanded = ~@]  BY DEF ToggleFold, Lines
  <2>. DEFINE h == ls[p].heads
  <2>2. log' = [log EXCEPT !.blocks[h].expanded = ~@] /\ i = h  BY <2>1 DEF HeadedBy
  <2>. HIDE DEF h, i
  <2>3. [log EXCEPT !.blocks[i].expanded = ~@] = [log EXCEPT !.blocks = Toggled(log.blocks, i)]
    BY DEF Toggled
  <2>. QED BY <2>2, <2>3
<1>. HIDE DEF cs, i, ls
<1>5. /\ cs \in Seq(LogBlock) /\ Held(cs) = Held(log.blocks)
      /\ Expanded(cs) = Expanded(log.blocks) /\ p <= Len(VisibleLines(cs))
  BY <1>1, <1>3, ToggleKeeps DEF cs, i, ls
<1>6. Len(VisibleLines(cs)) \in Nat  BY <1>5, LinesAre
<1>7. p \in Place1(Len(VisibleLines(cs)))
  <2>. DEFINE n == Len(VisibleLines(cs))
              m == Len(ls)
  <2>1. p \in 1..m /\ m \in Nat /\ n \in Nat /\ p <= n  BY <1>2, <1>3, <1>5, <1>6
  <2>. HIDE DEF n, m, p
  <2>2. p \in Place1(n)  BY <2>1 DEF Place1, LastOr1
  <2>. QED BY <2>2 DEF n
<1>8. /\ log'.blocks = cs /\ log'.raw = log.raw /\ log'.matches = log.matches
      /\ log'.at = log.at /\ log'.state = log.state /\ log'.query = log.query
      /\ log'.cursor = log.cursor
  BY <1>4 DEF LogInv, Fields13, ClosedLog
<1>9. LogRight(log')  BY <1>5, <1>8 DEF LogParts, LogRight
<1>. QED BY <1>7, <1>8, <1>9 DEF LogParts, OnLine

\* The next match is gone to, or the one before, around the end.
LEMMA MoveMatchKeeps ==
  ASSUME LogInv, LogParts(log), NEW forward \in BOOLEAN, MoveMatch(forward)
  PROVE  LogParts(log')
<1>. DEFINE n == Len(log.matches)
            k == IF forward THEN (log.at % n) + 1 ELSE ((log.at + n - 2) % n) + 1
            c == log.matches[k]
            m == [log EXCEPT !.at = k, !.cursor = c]
<1>1. log.matches \in Seq(Nat \ {0}) /\ log.at \in Place1(n) /\ log.matches # <<>>
  BY DEF LogParts, LogRight, MoveMatch
<1>2. n \in Nat \ {0}  BY <1>1
<1>3. k \in 1..n
  <2>. HIDE DEF n
  <2>1. log.at \in 1..n  BY <1>1, <1>2 DEF Place1, LastOr1
  <2>2. log.at % n \in 0..(n - 1) /\ (log.at + n - 2) % n \in 0..(n - 1)  BY <1>2, <2>1
  <2>. QED BY <1>2, <2>2
<1>4. log' = ClampLine(m)  BY DEF MoveMatch
<1>5. c \in Nat \ {0}
  <2>. HIDE DEF k
  <2>. QED BY <1>1, <1>3
<1>6. k \in Place1(n)
  <2>. HIDE DEF k, n
  <2>. QED BY <1>2, <1>3 DEF Place1, LastOr1
<1>. HIDE DEF k, c
<1>7. /\ DOMAIN m = DOMAIN ClosedLog
      /\ m.blocks = log.blocks /\ m.raw = log.raw /\ m.matches = log.matches /\ m.at = k
      /\ m.cursor = c /\ m.state = log.state /\ m.query = log.query
  BY DEF LogInv, Fields13, ClosedLog
<1>. HIDE DEF m
<1>8. LogRight(m)  BY <1>5, <1>6, <1>7 DEF LogParts, LogRight
<1>. QED BY <1>4, <1>7, <1>8, ClampedFits

\* Every key of an open log.
LEMMA LogKeyIsWhole ==
  ASSUME LogInv, LogParts(log), LogKey
  PROVE  LogParts(log')
<1>. USE DEF LogInv, Fields13, ClosedLog
<1>1. ASSUME Unmoved(log, log')  PROVE LogParts(log')
  BY <1>1, UnmovedKeeps
<1>2. CASE ConfirmKey  BY <1>1, <1>2 DEF ConfirmKey, Unmoved
<1>3. CASE SearchKey
  <2>1. CASE log' = ApplySearch(log)  BY <2>1, SearchKeeps
  <2>2. CASE log' = [log EXCEPT !.searching = FALSE, !.typed = FALSE]
    BY <1>1, <2>2 DEF Unmoved
  <2>3. CASE log' = [log EXCEPT !.typed = ~@]  BY <1>1, <2>3 DEF Unmoved
  <2>. QED BY <1>3, <2>1, <2>2, <2>3 DEF SearchKey
<1>4. CASE PlainKey
  <2>1. CASE CloseLog  BY <1>1, <2>1 DEF CloseLog, Unmoved
  <2>2. CASE MoveLine  BY <2>2, MoveLineKeeps
  <2>3. CASE ToggleFold  BY <2>3, ToggleFoldKeeps
  <2>4. CASE OpenSearch  BY <1>1, <2>4 DEF OpenSearch, Unmoved
  <2>5. CASE MoveMatch(TRUE) \/ MoveMatch(FALSE)  BY <2>5, MoveMatchKeeps
  <2>6. CASE OpenDelete
    <3>. DEFINE asks == log.job[1] \in Writable
    <3>1. log' = [log EXCEPT !.asking = asks]  BY <2>6 DEF OpenDelete
    <3>. HIDE DEF asks
    <3>. QED BY <1>1, <3>1 DEF Unmoved
  <2>7. CASE Refetch  BY <1>1, <2>7 DEF Refetch, Unmoved
  <2>. QED BY <1>4, <2>1, <2>2, <2>3, <2>4, <2>5, <2>6, <2>7 DEF PlainKey
<1>. QED BY <1>2, <1>3, <1>4 DEF LogKey

\* A log that is opened is empty, and holds all of nothing.
LEMMA ClosedIsWhole ==
  ASSUME NEW l, l.blocks = <<>>, l.raw = <<>>, l.cursor = 1, l.matches = <<>>, l.at = 1,
         l.state = "loading", l.query = FALSE
  PROVE  LogParts(l)
<1>1. Bodies(<<>>) = <<>> /\ KeptOf(<<>>) = <<>>  BY DEF Bodies, KeptOf
<1>2. Held(<<>>) = FlattenSeq(<<>>) /\ Kept(<<>>) = FlattenSeq(<<>>)
  BY <1>1 DEF Held, Kept, KeptOf
<1>3. Len(<<>>) = 0 /\ <<>> \in Seq(Nat \ {0}) /\ <<>> \in Seq(LogBlock) /\ 1 \in Place1(0)
  BY DEF Place1, LastOr1
<1>. QED BY <1>2, <1>3 DEF LogParts, LogRight, OnLine

\* The answer to a fetch.
LEMMA FetchedIsWhole ==
  ASSUME LogInv, LogParts(log), NEW j \in Job, Fetched(j)
  PROVE  LogParts(log')
<1>. USE DEF LogInv, Fields13, ClosedLog
<1>1. PICK raw \in Bytes :
        log' = IF ~ForThisJob(j) THEN log
               ELSE IF raw = <<>>
               THEN [log EXCEPT !.state = "empty", !.of = j, !.raw = <<>>, !.blocks = <<>>]
               ELSE NoSearch([log EXCEPT !.state = "loaded", !.of = j, !.raw = raw,
                                !.blocks = ParseLog(raw), !.cursor = 1])
  BY DEF Fetched
<1>2. CASE log' = log  BY <1>2
<1>3. CASE log' = [log EXCEPT !.state = "empty", !.of = j, !.raw = <<>>, !.blocks = <<>>]
  <2>1. Held(<<>>) = Kept(<<>>)
    <3>1. Bodies(<<>>) = <<>> /\ KeptOf(<<>>) = <<>>  BY DEF Bodies, KeptOf
    <3>. QED BY <3>1 DEF Held, Kept, KeptOf
  <2>2. /\ log'.blocks = <<>> /\ log'.raw = <<>> /\ log'.state = "empty"
        /\ log'.cursor = log.cursor /\ log'.matches = log.matches /\ log'.at = log.at
    BY <1>3
  <2>3. <<>> \in Seq(LogBlock) /\ "empty" # "loaded"  OBVIOUS
  <2>. QED BY <2>1, <2>2, <2>3 DEF LogParts, LogRight, OnLine
<1>4. CASE /\ raw # <<>>
           /\ log' = NoSearch([log EXCEPT !.state = "loaded", !.of = j, !.raw = raw,
                                !.blocks = ParseLog(raw), !.cursor = 1])
  <2>. DEFINE b == ParseLog(raw)
              l == [log EXCEPT !.state = "loaded", !.of = j, !.raw = raw, !.blocks = b, !.cursor = 1]
  <2>1. raw \in Seq(Line)  BY <1>4, LogAssumption DEF Bytes
  <2>2. b \in Seq(LogBlock) /\ Held(b) = Kept(raw)  BY <2>1, ParseIsWhole
  <2>3. log' = NoSearch(l)  BY <1>4
  <2>. HIDE DEF b
  <2>4. /\ DOMAIN l = DOMAIN ClosedLog /\ l.blocks = b /\ l.raw = raw /\ l.cursor = 1
    OBVIOUS
  <2>5. Len(VisibleLines(b)) \in Nat  BY <2>2, LinesAre
  <2>6. 1 \in Place1(Len(VisibleLines(b))) /\ 1 \in Nat \ {0}
    <3>. DEFINE n == Len(VisibleLines(b))
    <3>1. n \in Nat  BY <2>5
    <3>. HIDE DEF n
    <3>2. 1 \in Place1(n)  BY <3>1 DEF Place1, LastOr1
    <3>. QED BY <3>2 DEF n
  <2>. HIDE DEF l
  <2>7. OnLine(l)  BY <2>4, <2>6 DEF OnLine
  <2>. QED BY <2>2, <2>3, <2>4, <2>6, <2>7, NoSearchKeeps
<1>. QED BY <1>1, <1>2, <1>3, <1>4

\* What is right of the log says what its view shows.
LEMMA RightIsWhole ==
  ASSUME LogParts(log)
  PROVE  LogIsWhole
<1>. DEFINE c == log.blocks
            bs == Expanded(c)
<1>1. c \in Seq(LogBlock)  BY DEF LogParts, LogRight
<1>. HIDE DEF c
<1>2. /\ bs \in Seq(LogBlock) /\ Len(bs) = Len(c) /\ Held(bs) = Held(c)
      /\ \A i \in 1..Len(c) : bs[i].expanded = c[i].fold /\ bs[i].fold = c[i].fold
  BY <1>1, ExpandedIs
<1>. HIDE DEF bs
<1>3. \A i \in DOMAIN bs : bs[i].fold => bs[i].expanded
  <2>1. DOMAIN bs = 1..Len(c)  BY <1>2
  <2>. QED BY <1>2, <2>1
<1>4. Contents(VisibleLines(bs)) = Held(bs)  BY <1>2, <1>3, AllIsShown
<1>5. Contents(VisibleLines(Expanded(log.blocks))) = Kept(log.raw)
  BY <1>2, <1>4 DEF bs, c, LogParts, LogRight
<1>. QED BY <1>5 DEF LogParts, LogRight, OnLine, LogIsWhole, Place1, Lines

\* Whatever else there is to do in the panes leaves the log, or closes it.
LEMMA PanesKeepLog ==
  ASSUME PanesInv, LogParts(log), PanesNext
  PROVE  LogParts(log')
<1>. USE DEF PanesInv, DetailSide
<1>1. ASSUME log' = log \/ log' = [log EXCEPT !.open = FALSE]
      PROVE  LogParts(log')
  <2>1. Unmoved(log, log')  BY <1>1 DEF Unmoved, LogInv, Fields13, ClosedLog
  <2>. QED BY <2>1, UnmovedKeeps
<1>2. ASSUME NEW u, NEW g, Retarget(u, g)  PROVE LogParts(log')
  <2>1. log' = log \/ log' = [log EXCEPT !.open = FALSE]  BY <1>2 DEF Retarget, LogLeft
  <2>. QED BY <1>1, <2>1
<1>3. CASE DetailSideKey
  <2>1. CASE DetailKey
    <3>1. CASE LogKey  BY <3>1, LogKeyIsWhole
    <3>2. CASE (LeaveJobs \/ MoveJob) /\ UNCHANGED logVars  BY <1>1, <3>2 DEF logVars
    <3>3. CASE OpenLog(<<pane.run, pane.row + 1>>)
      <4>. DEFINE j == <<pane.run, pane.row + 1>>
      <4>1. log' = [ClosedLog EXCEPT !.open = TRUE, !.job = j]  BY <3>3 DEF OpenLog
      <4>. HIDE DEF j
      <4>2. /\ log'.blocks = <<>> /\ log'.raw = <<>> /\ log'.cursor = 1 /\ log'.matches = <<>>
            /\ log'.at = 1 /\ log'.state = "loading" /\ log'.query = FALSE
        BY <4>1 DEF ClosedLog
      <4>. QED BY <4>2, ClosedIsWhole
    <3>. QED BY <2>1, <3>1, <3>2, <3>3 DEF DetailKey, JobFocusKey
  <2>2. CASE MoveRow  BY <1>2, <2>2 DEF MoveRow
  <2>3. CASE Narrow \/ OpenDetail \/ CloseDetail
    BY <1>1, <2>3 DEF Narrow, OpenDetail, CloseDetail, logVars
  <2>. QED BY <1>3, <2>1, <2>2, <2>3 DEF DetailSideKey
<1>4. CASE ApprovalSideKey  BY <1>1, <1>4 DEF ApprovalSideKey, logVars
<1>5. CASE DetailSideWorld
  <2>1. CASE Repaint  BY <1>2, <2>1 DEF Repaint
  <2>2. CASE UNCHANGED logVars  BY <1>1, <2>2 DEF logVars
  <2>. QED BY <1>5, <2>1, <2>2 DEF DetailSideWorld
<1>6. CASE ApprovalSideWorld  BY <1>1, <1>6 DEF ApprovalSideWorld, logVars
<1>7. CASE Landing
  <2>1. CASE \E j \in Job : Fetched(j)  BY <2>1, FetchedIsWhole
  <2>2. CASE UNCHANGED logVars  BY <1>1, <2>2 DEF logVars
  <2>. QED BY <1>7, <2>1, <2>2 DEF Landing
<1>. QED BY <1>3, <1>4, <1>5, <1>6, <1>7 DEF PanesNext, PanesKey, PanesWorld, PanesLand

\* What is right of the log stays so in every behaviour of the panes.
LEMMA LogStaysRight == PanesSpec => []LogParts(log)
<1>1. PanesInit => LogParts(log)
  <2>. SUFFICES ASSUME PanesInit PROVE LogParts(log)  OBVIOUS
  <2>1. CASE AtRestInit
    <3>1. log = ClosedLog  BY <2>1 DEF AtRestInit, LogInit
    <3>2. /\ log.blocks = <<>> /\ log.raw = <<>> /\ log.cursor = 1 /\ log.matches = <<>>
          /\ log.at = 1 /\ log.state = "loading" /\ log.query = FALSE
      BY <3>1 DEF ClosedLog
    <3>. QED BY <3>2, ClosedIsWhole
  <2>2. CASE AtLogInit
    <3>. DEFINE opened(j) == [ClosedLog EXCEPT !.open = TRUE, !.job = j]
    <3>0. \E j : log = opened(j)
      <4>1. PICK r \in Run : log = opened(<<r, 1>>)  BY <2>2, Zenon DEF AtLogInit
      <4>. QED BY <4>1, Zenon
    <3>1. PICK j : log = opened(j)  BY <3>0
    <3>2. /\ log.blocks = <<>> /\ log.raw = <<>> /\ log.cursor = 1 /\ log.matches = <<>>
          /\ log.at = 1 /\ log.state = "loading" /\ log.query = FALSE
      BY <3>1 DEF ClosedLog
    <3>. QED BY <3>2, ClosedIsWhole
  <2>. QED BY <2>1, <2>2 DEF PanesInit
<1>2. PanesInv /\ LogParts(log) /\ [PanesNext]_panesVars => LogParts(log)'
  <2>1. UNCHANGED panesVars => UNCHANGED log  BY DEF panesVars, paneState, logVars
  <2>. QED BY <2>1, PanesKeepLog
<1>. QED BY <1>1, <1>2, PanesStayInOrder, PTL DEF PanesSpec

\* Answers come in any order and for Runs the pane has left, and yet the Jobs, the
\* open log and its lines are always of the Run the pane is over, whose liveness
\* it knows; and whatever is folded, searched, fetched again or cut off in the
\* middle of a group, no line of an open log is lost, its cursor is on a line, and
\* its matches are all there are (rundetail.onJobs, feed.retargetDetail,
\* logview.parse, onFetched, applySearch, toggleFold and clamp).
THEOREM PanesStayRight == PanesSpec => []PanesShowRightly
<1>1. LogParts(log) => LogIsWhole  BY RightIsWhole
<1>. QED BY <1>1, LogStaysRight, PanesAreOfTheirRun, PTL DEF PanesShowRightly
==============================================================================
