---------------------------- MODULE MCOutputNames ----------------------------
(* Two files of one name, and two that differ in their extension. *)
EXTENDS OutputNames

File(dir, stem, ext) == [dir |-> dir, stem |-> stem, ext |-> ext]
MCFiles == {File(1, 2, "tif"), File(2, 2, "tif"), File(1, 3, "tif"), File(1, 3, "jpg")}
MCProjects == {<<File(1, 2, "tif"), File(1, 3, "tif")>>}

Budget(file, empty, remove, rename, relink, output, reopen) ==
    [file |-> file, empty |-> empty, remove |-> remove, rename |-> rename,
     relink |-> relink, output |-> output, reopen |-> reopen]
MCBudgets ==
    {Budget(0, 5, 1, 0, 0, 0, 0), Budget(1, 2, 1, 0, 0, 0, 1), Budget(1, 0, 2, 0, 0, 2, 2),
     Budget(2, 0, 1, 0, 0, 2, 1), Budget(0, 0, 0, 1, 0, 2, 1), Budget(1, 0, 1, 1, 0, 1, 1), Budget(1, 0, 1, 0, 1, 1, 1),
     Budget(0, 1, 0, 1, 1, 1, 1), Budget(1, 0, 0, 0, 1, 2, 1)}
=============================================================================
