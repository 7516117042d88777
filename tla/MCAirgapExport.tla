--------------------------- MODULE MCAirgapExport ---------------------------
EXTENDS AirgapExport, TLC

CONSTANTS e1, e2
MCExports == {e1, e2}

\* Exports differ in nothing but their names; only safety is checked.
Symmetric == Permutations(MCExports)

MCRequested == <<"rhcos", "epel">>
MCFiles == {"iso", "rpm"}
MCOwner == [iso |-> "rhcos", rpm |-> "epel"]
\* The example configuration puts EPEL into a directory below its name.
MCLayouts == {[iso |-> <<"rhcos">>, rpm |-> <<"epel">>], [iso |-> <<"rhcos">>, rpm |-> <<"epel", "9">>]}
MCScanRoot == [epel |-> <<>>, rhcos |-> <<"rhcos">>]
MCSize == [iso |-> <<2, 0>>, rpm |-> <<3>>]
=============================================================================
