-------------------------- MODULE MCDownloadClient --------------------------
EXTENDS DownloadClient

\* Two versions of different sizes, so that a resumed download may splice them
\* and its range may lie past the end of what is served.
CONSTANTS old, new
MCVersions == {old, new}
MCSize == [v \in MCVersions |-> IF v = old THEN 1 ELSE 3]
=============================================================================
