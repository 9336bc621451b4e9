------------------------------ MODULE MCBrowse ------------------------------
(* A small instance of Browse: pages of history with the anchor twice, and *)
(* diffs with every class of entry, an edit in place (a kept path whose    *)
(* contents differ) included.                                              *)
EXTENDS Browse

CONSTANTS x, y, z

MCSignature == {x, y, z}

MCListings == {<<>>, <<x, y, x, z>>, <<x, y, z, y>>}

E(node, action, moved, from, to) ==
    [node |-> node, action |-> action, moved |-> moved, from |-> from, to |-> to]

MCDiffs == {
    <<E("file", "add", FALSE, "none", "text"), E("conflict", "keep", FALSE, "none", "none"),
      E("file", "move", TRUE, "text", "other"), E("file", "copy", TRUE, "binary", "text")>>,
    <<E("file", "keep", FALSE, "text", "text"), E("file", "delete", FALSE, "large", "none"),
      E("link", "add", FALSE, "none", "text")>>,
    <<E("dir", "add", FALSE, "none", "none"), E("file", "keep", FALSE, "text", "other"),
      E("file", "move", TRUE, "text", "text")>>}

=============================================================================
