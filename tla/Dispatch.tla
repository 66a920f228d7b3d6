------------------------------- MODULE Dispatch -------------------------------
(***************************************************************************)
(* The dispatch form (internal/tui/dispatch, internal/ops/dispatch.go): a  *)
(* Workflow's inputs as its YAML at one ref declares them, and the POST    *)
(* that makes a Run of them.  Every answer comes on a command of its own,  *)
(* into a form that may be closed, or another Workflow's, by then.         *)
(*   A form has one input, required: a choice among its options, or free   *)
(* text where it has none.  Each Workflow is of a repository of its own.   *)
(***************************************************************************)
EXTENDS Naturals, FiniteSets

CONSTANTS
  Workflow,
  Ref,         \* branches and tags, "main" among them
  Text,        \* what an input can hold, "" among it
  Schema,      \* <<Workflow, Ref>> -> [dispatchable, options, default]
  RefsOf,      \* Workflow -> the refs of its repository
  MaxOut       \* bound: equal reads out at once

ASSUME DispatchAssumption ==
  /\ "main" \in Ref /\ "" \in Text /\ MaxOut \in Nat \ {0}
  /\ \A f \in Workflow \X Ref : Schema[f].options \subseteq Text /\ Schema[f].default \in Text
  /\ \A w \in Workflow : RefsOf[w] \subseteq Ref

Sending == Workflow \X Ref \X Text    \* dispatchTarget: everything that is sent
NoForm == <<>>

VARIABLES
  form,      \* Model
  issued,    \* the re-submit guard: Sending -> none, in flight, done
  doc,       \* the remembered inputs of a Workflow, {} for none
  resolves,  \* RefResolved out, by the Workflow they were asked for
  yamls,     \* YAMLLoaded out, by <<Workflow, Ref>>
  lists,     \* RefsLoaded out, by Workflow
  posts,     \* POSTs out, by Sending
  created,   \* Runs made, by Sending
  lost       \* of those, the ones whose answer was an error

dispatchVars ==
  <<form, issued, doc, resolves, yamls, lists, posts, created, lost>>
outside == <<doc, posts, created, lost>>

ClosedForm ==
  [open |-> FALSE, wf |-> 0, ref |-> "", home |-> "", refs |-> {}, asked |-> FALSE, of |-> NoForm,
   loading |-> FALSE, loadErr |-> FALSE, value |-> "", row |-> 0, editing |-> FALSE, shows |-> {}]

DispatchInit ==
  /\ form = ClosedForm
  /\ issued = [k \in Sending |-> "none"] /\ doc = [w \in Workflow |-> {}]
  /\ resolves = [w \in Workflow |-> 0] /\ lists = [w \in Workflow |-> 0]
  /\ yamls = [f \in Workflow \X Ref |-> 0]
  /\ posts = [k \in Sending |-> 0] /\ created = [k \in Sending |-> 0] /\ lost = [k \in Sending |-> 0]

FormTypeOK ==
  /\ form.open => form.wf \in Workflow
  /\ {form.ref, form.home} \subseteq Ref \cup {""} /\ form.refs \subseteq Ref
  /\ form.of \in {NoForm} \cup (Workflow \X Ref)
  /\ form.value \in Text /\ form.row \in {0, 1} /\ form.shows \subseteq Sending
DispatchTypeOK ==
  /\ FormTypeOK
  /\ issued \in [Sending -> {"none", "inflight", "done"}] /\ doc \in [Workflow -> SUBSET Text]
  /\ resolves \in [Workflow -> 0..MaxOut] /\ yamls \in [Workflow \X Ref -> 0..MaxOut]
  /\ lists \in [Workflow -> Nat]
  /\ posts \in [Sending -> Nat] /\ created \in [Sending -> Nat] /\ lost \in [Sending -> Nat]
  /\ \A k \in Sending : lost[k] <= created[k]

-----------------------------------------------------------------------------
\* ParseForm: the inputs there are, of a YAML that can be dispatched.
HasInput(f) == f.of # NoForm /\ Schema[f.of].dispatchable
Options(of) == Schema[of].options

\* InitialValues: what is remembered where it still fits, else the default.
Fits(of, v) == Options(of) = {} \/ v \in Options(of)
InitialValue(of, remembered) ==
  IF \E v \in remembered : Fits(of, v) THEN CHOOSE v \in remembered : Fits(of, v)
  ELSE Schema[of].default

LoadYAML(w, r) == yamls[<<w, r>>] < MaxOut /\ yamls' = [yamls EXCEPT ![<<w, r>>] = @ + 1]

\* Open: everything but the guard is reset; a ref nobody named is resolved.
OpenForm(w, named) ==
  /\ form' = [ClosedForm EXCEPT !.open = TRUE, !.wf = w, !.ref = named, !.home = named, !.loading = TRUE]
  /\ UNCHANGED issued
  /\ \/ named = "" /\ resolves[w] < MaxOut /\ resolves' = [resolves EXCEPT ![w] = @ + 1]
          /\ UNCHANGED yamls
     \/ named # "" /\ LoadYAML(w, named) /\ UNCHANGED resolves
  /\ UNCHANGED <<outside, lists>>
CloseForm == form' = [form EXCEPT !.open = FALSE, !.editing = FALSE]

-----------------------------------------------------------------------------
\* cycleRef: the first press lists the refs, once; a later one takes the next,
\* of them and of the ref the form opened on, and loads its YAML.
CycleNames(f) == f.refs \cup ({f.home} \ {""})
CycleRef ==
  IF ~form.asked
  THEN /\ form' = [form EXCEPT !.asked = TRUE]
       /\ lists' = [lists EXCEPT ![form.wf] = @ + 1] /\ UNCHANGED yamls
  ELSE \E r \in CycleNames(form) \ {form.ref} :
         /\ form' = [form EXCEPT !.ref = r, !.loading = TRUE, !.loadErr = FALSE]
         /\ LoadYAML(form.wf, r) /\ UNCHANGED lists

\* beginEdit, handleEditKey and cycleFocused, on the input's row.
InputKey ==
  \/ ~form.editing /\ form.row = 1 /\ HasInput(form) /\ Options(form.of) = {}
       /\ form' = [form EXCEPT !.editing = TRUE]
  \/ form.editing /\ \E v \in Text : form' = [form EXCEPT !.editing = FALSE, !.value = v]
CycleInput ==
  /\ form.row = 1 /\ HasInput(form)
  /\ \E v \in Options(form.of) \ {form.value} : form' = [form EXCEPT !.value = v]
MoveRowCursor ==
  \E row \in (IF HasInput(form) THEN {0, 1} ELSE {0}) \ {form.row} : form' = [form EXCEPT !.row = row]

\* submit, whose guards are those of the ref, the YAML, the required input and
\* the Dispatches issued before; the Workflows tab opens no form over a
\* repository that may not be written to.
DispatchTarget(f) == <<f.wf, f.ref, IF HasInput(f) THEN f.value ELSE "">>
SubmitDispatch ==
  LET k == DispatchTarget(form)
  IN  /\ form.ref # "" /\ ~form.loadErr /\ HasInput(form) /\ form.value # ""
      /\ issued[k] = "none"
      /\ issued' = [issued EXCEPT ![k] = "inflight"]
      /\ posts' = [posts EXCEPT ![k] = @ + 1]

FormKey ==
  \/ ~form.editing /\ CloseForm /\ UNCHANGED <<issued, outside, resolves, yamls, lists>>
  \/ ~form.editing /\ SubmitDispatch /\ UNCHANGED <<form, doc, created, lost, resolves, yamls, lists>>
  \/ ~form.editing /\ form.row = 0 /\ CycleRef /\ UNCHANGED <<issued, outside, resolves>>
  \/ (InputKey \/ (~form.editing /\ (CycleInput \/ MoveRowCursor)))
       /\ UNCHANGED <<issued, outside, resolves, yamls, lists>>

-----------------------------------------------------------------------------
\* applyRef: unless a ref is chosen by now; "main" where none is answered.
RefResolves(w) ==
  /\ resolves[w] > 0 /\ resolves' = [resolves EXCEPT ![w] = @ - 1]
  /\ IF form.open /\ form.ref = ""
     THEN \E r \in RefsOf[w] \cup {"main"} :
            /\ form' = [form EXCEPT !.ref = r, !.home = r]
            /\ LoadYAML(form.wf, r)
     ELSE UNCHANGED <<form, yamls>>
  /\ UNCHANGED <<issued, outside, lists>>

\* Mutant: any answer is for the form that is open.
ForAnyRef(f, r) == TRUE

\* applyYAML: an answer for another ref than the form's is dropped.
ForItsRef(f, r) == f.ref = r
YAMLLands(w, r) ==
  /\ yamls[<<w, r>>] > 0 /\ yamls' = [yamls EXCEPT ![<<w, r>>] = @ - 1]
  /\ \/ ~(form.open /\ ForItsRef(form, r)) /\ UNCHANGED form
     \/ /\ form.open /\ ForItsRef(form, r)
        /\ form' \in {[form EXCEPT !.loading = FALSE, !.loadErr = TRUE],
                      [form EXCEPT !.loading = FALSE, !.loadErr = FALSE, !.of = <<w, r>>, !.row = 0,
                                   !.value = InitialValue(<<w, r>>, doc[form.wf])]}
  /\ UNCHANGED <<issued, outside, resolves, lists>>

\* applyRefs: a picker that could not be listed is not asked for again.
RefsLand(w) ==
  /\ lists[w] > 0 /\ lists' = [lists EXCEPT ![w] = @ - 1]
  /\ form' \in {form} \cup (IF form.open THEN {[form EXCEPT !.refs = RefsOf[w]]} ELSE {})
  /\ UNCHANGED <<issued, outside, resolves, yamls>>

\* settle: a record goes from in flight to done or away, open form or not.
SettleRecord(k, ok) == IF issued[k] # "inflight" THEN issued[k] ELSE IF ok THEN "done" ELSE "none"
\* showsOutcomeFor: the form the Dispatch was made in.
ShowsOutcome(k) == form.wf = k[1]

\* The API makes the Run, or refuses, or makes it and its answer is lost.
PostEnds(k) ==
  \E made, ok \in BOOLEAN :
    /\ posts[k] > 0 /\ (ok => made)
    /\ posts' = [posts EXCEPT ![k] = @ - 1]
    /\ created' = [created EXCEPT ![k] = IF made THEN @ + 1 ELSE @]
    /\ lost' = [lost EXCEPT ![k] = IF made /\ ~ok THEN @ + 1 ELSE @]
    /\ issued' = [issued EXCEPT ![k] = SettleRecord(k, ok)]
    /\ IF ok /\ form.open /\ ShowsOutcome(k)
       THEN /\ form' = [form EXCEPT !.shows = {k}]
            /\ doc' = [doc EXCEPT ![form.wf] = IF HasInput(form) THEN {form.value} ELSE {}]
       ELSE UNCHANGED <<form, doc>>
    /\ UNCHANGED <<resolves, yamls, lists>>

DispatchLand ==
  \/ \E w \in Workflow : RefResolves(w) \/ RefsLand(w)
  \/ \E w \in Workflow, r \in Ref : YAMLLands(w, r)
  \/ \E k \in Sending : PostEnds(k)

-----------------------------------------------------------------------------
\* A Dispatch makes one Run, whatever is pressed, closed, reopened or answered
\* late; only one whose answer was an error can be made again (R16).  And the
\* Run a form names is of its own Workflow.
OneRunPerDispatch ==
  /\ \A k \in Sending : created[k] + posts[k] <= 1 + lost[k]
  /\ form.open => \A k \in form.shows : k[1] = form.wf

\* The answers to the reads of several refs come in any order, into one form:
\* the inputs it is given are those of the ref it is on, not of one it has left,
\* and what is remembered from another ref's form only fills one where it is
\* still among the options (R10, R24, R25).
FormsArriveForTheirRef ==
  [][form'.of # form.of /\ form'.of # NoForm =>
       /\ form'.of[2] = form'.ref /\ ~form'.loading
       /\ Fits(form'.of, form'.value) \/ form'.value = Schema[form'.of].default]_dispatchVars

\* The two together, of a tab that keeps its forms apart.
FormsKeepTheirWord == []OneRunPerDispatch /\ FormsArriveForTheirRef
=============================================================================
