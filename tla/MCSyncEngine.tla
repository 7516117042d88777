---------------------------- MODULE MCSyncEngine ----------------------------
EXTENDS SyncEngine, TLC

CONSTANTS f1, f2
MCFiles == {f1, f2}

\* A repository of one file, a provider of two versions with a file each.
Epel(cleanup, atRoot, unique) ==
    {[epel |-> TRUE, cleanup |-> cleanup, atRoot |-> atRoot, unique |-> unique, parts |-> {{f}}] : f \in MCFiles}
Versions ==
    {[epel |-> FALSE, cleanup |-> FALSE, atRoot |-> FALSE, unique |-> TRUE, parts |-> {{f} : f \in MCFiles}]}

\* EPEL as the example configuration has it, and at its root with metadata of
\* fixed names.
MCConfigs == Versions \cup Epel(TRUE, FALSE, TRUE) \cup Epel(TRUE, TRUE, FALSE)
EpelOnly == Epel(TRUE, FALSE, TRUE)
VersionsOnly == Versions

\* The files are interchangeable; every property checked here is safety.
Symmetric == Permutations(MCFiles)
=============================================================================
