-------------------------------- MODULE MCPanes --------------------------------
EXTENDS Panes

MCMaxPressed == [detail |-> 3, log |-> 5, approval |-> 6]
MCMaxHappened == [detail |-> 2, log |-> 0, approval |-> 1]

\* A log of six lines: two matches of the search inside fold groups, one outside.
MCBody == {<<"hit", "group", "miss", "hit", "group", "hit">>}
=============================================================================
