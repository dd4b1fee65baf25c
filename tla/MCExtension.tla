----------------------------- MODULE MCExtension -----------------------------
(* A folder whose setting or workspace server starts, fails or is too old. *)
EXTENDS Extension

Launch0(source, real, starts, concepts) ==
  [source |-> source, real |-> real, exists |-> TRUE, starts |-> starts, concepts |-> concepts,
   actions |-> TRUE, lsp |-> 0, owner |-> "none", nested |-> 0, sibling |-> 0, own |-> 0]
MCBundled == Launch0("bundled", "b", TRUE, TRUE)
Bin(starts, concepts) == Launch0("workspace", "w", starts, concepts)
Folder(setting, bin) == [setting |-> setting, bin |-> bin]
None == [Bin(TRUE, TRUE) EXCEPT !.exists = FALSE]
Falls == <<Folder(None, Bin(TRUE, FALSE)), Folder(None, [Bin(TRUE, TRUE) EXCEPT !.lsp = 1])>>
Fails == <<Folder(Launch0("setting", "s", FALSE, FALSE), [Bin(TRUE, TRUE) EXCEPT !.owner = "plugin", !.sibling = 1])>>
Works == <<Folder(None, [Bin(TRUE, TRUE) EXCEPT !.owner = "lsp", !.own = 2])>>
MCWorkspaces == {Falls, Fails, Works}

(* Three changes from any workspace; one among updates; updates alone; the  *)
(* user's steps and a change.                                               *)
Case(fs, changes, updates, steps) ==
  [folders |-> fs, budget |-> [changes |-> changes, updates |-> updates, steps |-> steps]]
MCCases == {Case(fs, 3, 0, 0) : fs \in MCWorkspaces}
           \cup {Case(Works, 1, 1, 0), Case(Works, 0, 2, 0), Case(Fails, 1, 0, 3)}
=============================================================================
