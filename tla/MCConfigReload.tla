--------------------------- MODULE MCConfigReload ---------------------------
EXTENDS ConfigReload

CONSTANTS h1, h2, p1
MCHandlers == {h1, h2}
MCPasses == {p1}

Entry(e, s) == [enabled |-> e, settings |-> s]
MCInputs == {"refused", "null"}
MCYamlFiles == {<<Entry(TRUE, "x"), Entry(FALSE, "x")>>, <<Entry(TRUE, "custom_files")>>}
=============================================================================
