--------------------------------- MODULE MCFeed ---------------------------------
EXTENDS Feed, TLC

\* One Run in each of two repositories: a going one where the account may write,
\* and one yet to be created, of a deleted Workflow, where it may only read and
\* which alone the narrow filter matches.
MCRun == {1, 2}
MCRepo == {"a", "b"}
MCRepoOf == (1 :> "a") @@ (2 :> "b")
MCCapability == ("a" :> "writable") @@ ("b" :> "read-only")
MCOrphans == {2}
MCInitial == (1 :> "done") @@ (2 :> "unborn")
MCFlaky == {"a"}
MCMatching == {2}
=============================================================================
