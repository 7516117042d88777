--------------------------- MODULE MCDownloadPool ---------------------------
EXTENDS DownloadPool

CONSTANTS w1, w2
MCWorkers == {w1, w2}

=============================================================================
