--------------------------------- MODULE MCTabs ---------------------------------
EXTENDS Tabs

MCMaxKeys == [storage |-> 3, workflows |-> 2, dispatch |-> 5, root |-> 6]
MCMaxWorld == [storage |-> 1, workflows |-> 1, dispatch |-> 0, root |-> 1]

\* Three objects of one repository, and an expired Artifact of another.
MCHome == [o \in {1, 2, 4, 8} |-> IF o = 8 THEN "s" ELSE "r"]

\* A Workflow whose form differs by ref, and one that only "main" can dispatch.
Form(d, options, default) == [dispatchable |-> d, options |-> options, default |-> default]
MCSchema == [f \in {1, 2} \X {"main", "dev"} |->
  CASE f = <<1, "main">> -> Form(TRUE, {}, "a")
    [] f = <<1, "dev">>  -> Form(TRUE, {"b"}, "b")
    [] f = <<2, "main">> -> Form(TRUE, {}, "")
    [] f = <<2, "dev">>  -> Form(FALSE, {}, "")]
MCRefsOf == <<{"main", "dev"}, {"main"}>>
MCNamed == <<"main", "">>

\* No file, one that cannot be read, one that is no mapping; and mappings with
\* a number too large and entries that do not parse, with values of the wrong
\* type or out of their set, and with all in order.
Nothing == [k \in Setting |-> Absent]
Wrong == [is |-> "wrong", v |-> {}]
Mapping(selector, number, repos, filter) ==
  [kind |-> "mapping",
   node |-> [selector |-> selector, number |-> number, repos |-> repos, filter |-> filter]]
MCFiles ==
  {[kind |-> k, node |-> Nothing] : k \in {"missing", "unreadable", "broken"}} \cup
  {Mapping(Absent, Node({9}), Node({"malformed", "b"}), Node({"misfiled", "unknown"})),
   Mapping(Node({"emacs"}), Wrong, Absent, Node({"branch"})),
   Mapping(Node({"vim"}), Node({0}), Node({"a"}), Wrong)}
=============================================================================
