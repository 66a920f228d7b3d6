---------------------------- MODULE MCDiscovery ----------------------------
\* One repository, in whose clone a session is launched or not, and which it
\* excludes or not: repositories meet only in the documents.
EXTENDS Discovery

CONSTANTS r1
MCExcludes == {{}, {r1}}
=============================================================================
