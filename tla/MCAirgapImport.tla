--------------------------- MODULE MCAirgapImport ---------------------------
EXTENDS AirgapImport, TLC

CONSTANTS i1, i2
MCImports == {i1, i2}

\* Imports differ in nothing but their names; only safety is checked.
Symmetric == Permutations(MCImports)
=============================================================================
