--------------------------- MODULE MCImageMirror ---------------------------
EXTENDS ImageMirror

MCImages == <<"tag", "pin">>
MCPinned == {"pin"}
\* A tag names an index of an image that is a reference of its own and of a
\* manifest that the plan cannot parse, or a plain image with a blob under a
\* digest that is no sha256.
MCManifests == {"index", "amd", "odd", "plain"}
MCBlobs == {"x", "y"}
MCRoots == [tag |-> {"index", "plain"}, pin |-> {"amd"}]
MCChildren == [index |-> {"amd", "odd"}, amd |-> {}, odd |-> {}, plain |-> {}]
MCRefs == [index |-> {}, amd |-> {"x"}, odd |-> {"x"}, plain |-> {"y"}]
MCIndexes == {"index"}
MCUnparsed == {"odd"}
MCUnchecked == {"y"}
=============================================================================
