----------------------------- MODULE ProjectFile -----------------------------
(***************************************************************************)
(* How a project gets to the disk: saving, saving under a name, closing     *)
(* (which compares the project with its file and may ask), opening, and the *)
(* autosave timer, which works with copies of the file beside it:           *)
(*   <name>.as, <name>.bak, Backup.<name>, and UnnamedAutoSave for a        *)
(* project that has no name yet.  Everything runs on the GUI thread; the    *)
(* timer fires from any event loop, that of a dialog too, while its signals *)
(* are not blocked.  A crash may come between any two file operations, and  *)
(* an operation may fail; an error while a file is being written, as        *)
(* against opening it, goes unnoticed, since ProjectWriter::write() asks    *)
(* only whether it could open the file.                                     *)
(*                                                                         *)
(* A project is known by a version, which grows with every edit, and by the *)
(* size of its file.  All projects have their images in one directory.      *)
(***************************************************************************)
EXTENDS Naturals

CONSTANTS
    Names,          \* project files, among them the unnamed autosave
    Unnamed,        \* <input directory>/UnnamedAutoSave.Scantailor
    Absent, Broken, \* contents: no file; cut off while being written
    None,           \* no project; no name
    Sizes,          \* sizes of complete files
    MaxVersion,     \* bound: new projects and edits
    MaxFaults,      \* bound: operations that fail
    MaxCrashes      \* bound

ASSUME ProjectFileAssumption ==
    /\ Unnamed \in Names
    /\ None \notin Names
    /\ Sizes \subseteq Nat \ {0}
    /\ \A nothing \in {Absent, Broken, None} : nothing \notin [version : Nat, size : Nat]
    /\ MaxVersion \in Nat /\ MaxFaults \in Nat /\ MaxCrashes \in Nat

VARIABLES
    files,          \* what is at each path
    project,        \* the project in memory
    projectFile,    \* m_projectFile
    timer,          \* m_autosave_timer: "none", "on" or "blocked" (blockSignals)
    pc,             \* what the GUI thread is in
    target,         \* the project file that is being written
    caller,         \* who saves: "menu" (Save As), "save" or "close"
    cause,          \* why the project is being closed
    auto,           \* how far autoSaveProject() is
    version, faults, crashes,
    saved,          \* per name, the last version the user was told is saved, or opened
    spoiled         \* names whose file a Backup cut off in writing has replaced

promises == <<saved, spoiled>>
disk == <<files, faults, promises>>
saving == <<target, caller>>
control == <<timer, pc, saving, cause>>
counts == <<version, crashes>>
vars == <<disk, project, projectFile, control, auto, counts>>

Kinds == {"project", "as", "bak", "Backup"}
Project(v, size) == [version |-> v, size |-> size]
Complete(content) == content \notin {Absent, Broken}
Size(content) == IF Complete(content) THEN content.size ELSE 0

Loaded == project # None
File(kind) == files[<<projectFile, kind>>]
UnnamedFile == <<Unnamed, "project">>
(* What the user may count on from here on; 0 for nothing. *)
Promise(name, v) ==
    saved' = [saved EXCEPT ![name] = v] /\ spoiled' = spoiled \ {name}

(* A file operation: its effect, or one of the failures left. *)
Put(path, content) == files' = [files EXCEPT ![path] = content] /\ UNCHANGED faults
Fail == faults < MaxFaults /\ faults' = faults + 1 /\ UNCHANGED files

Pause == timer' = IF timer = "none" THEN "none" ELSE "blocked"
Resume == timer' = IF timer = "none" THEN "none" ELSE "on"

-----------------------------------------------------------------------------
Init ==
    /\ files = [path \in Names \X Kinds |-> Absent]
    /\ project = None /\ projectFile = None
    /\ timer \in {"none", "on"}
    /\ pc = "idle" /\ target = None /\ caller = "menu" /\ cause = "none"
    /\ auto = "off"
    /\ version = 0 /\ faults = 0 /\ crashes = 0
    /\ saved = [name \in Names |-> 0] /\ spoiled = {}

(* closeProjectWithoutSaving; then what the project was closed for. *)
Close ==
    /\ project' = None /\ projectFile' = None
    /\ cause' = "none"
    /\ pc' = CASE cause = "new" -> "creating" [] cause = "open" -> "openDialog" [] OTHER -> "idle"
CloseEnds == IF cause \in {"new", "open"} THEN UNCHANGED timer ELSE Resume
\* Mutant: the timer is not resumed when the user cancels.
StayPaused ==
    /\ pc' = "idle" /\ cause' = "none"
    /\ UNCHANGED <<project, projectFile, timer>>

Stay ==             \* closeProjectInteractive() returns false
    /\ pc' = "idle" /\ cause' = "none"
    /\ Resume
    /\ UNCHANGED <<project, projectFile>>
(* saveProjectTriggered() resumes the timer, and the project is closed      *)
(* whatever became of its saving.                                           *)
SaveReturns(name) ==
    /\ IF caller = "close" THEN Close /\ Resume
       ELSE /\ pc' = "idle" /\ projectFile' = name
            /\ IF caller = "save" THEN Resume ELSE UNCHANGED timer
            /\ UNCHANGED <<project, cause>>
    /\ target' = None /\ caller' = "menu"
    /\ UNCHANGED <<auto, counts>>

-----------------------------------------------------------------------------
(* Saving *)

(* The old contents are gone once the file is open for writing. *)
OpenForSaving(name, by) ==
    /\ Put(<<name, "project">>, Broken)
    /\ pc' = "writing" /\ target' = name /\ caller' = by
    /\ Promise(name, 0)
    /\ UNCHANGED <<project, projectFile, cause, auto, counts>>

SaveProjectTriggered ==
    /\ pc = "idle" /\ auto = "off" /\ Loaded
    /\ IF projectFile # None THEN
          \/ Pause /\ OpenForSaving(projectFile, "save")
          \/ Fail /\ Resume /\ UNCHANGED <<promises, project, projectFile, pc, saving, cause, auto, counts>>
       ELSE Pause /\ pc' = "saveDialog" /\ caller' = "save"
                  /\ UNCHANGED <<disk, project, projectFile, target, cause, auto, counts>>

SaveProjectAsTriggered ==
    /\ pc = "idle" /\ auto = "off" /\ Loaded
    /\ pc' = "saveDialog" /\ caller' = "menu"
    /\ UNCHANGED <<disk, project, projectFile, timer, target, cause, auto, counts>>

SaveDialogAccepted(name) ==
    /\ pc = "saveDialog" /\ auto = "off"
    /\ \/ OpenForSaving(name, caller) /\ UNCHANGED timer
       \/ Fail /\ SaveReturns(projectFile) /\ UNCHANGED promises

SaveDialogCancelled ==
    /\ pc = "saveDialog" /\ auto = "off"
    /\ UNCHANGED disk
    /\ SaveReturns(projectFile)

Saved ==
    /\ pc = "writing"
    /\ \/ /\ Put(<<target, "project">>, project)
          /\ Promise(target, project.version)
       \/ Fail /\ UNCHANGED promises
    /\ SaveReturns(target)

-----------------------------------------------------------------------------
(* Closing *)

CloseProjectInteractive(why) ==
    /\ pc = "idle" /\ auto = "off" /\ (Loaded \/ why # "close")
    /\ cause' = why
    /\ Pause
    /\ IF ~Loaded THEN
          /\ pc' = CASE why = "new" -> "creating" [] why = "open" -> "openDialog"
          /\ UNCHANGED <<files, faults>>
       ELSE IF projectFile = None THEN pc' = "askUnnamed" /\ UNCHANGED <<files, faults>>
       ELSE \/ Put(<<projectFile, "Backup">>, Broken) /\ pc' = "backup"
            \/ /\ faults < MaxFaults /\ faults' = faults + 1
               /\ files' = [files EXCEPT ![<<projectFile, "Backup">>] = Absent]
               /\ pc' = "askNoBackup"
    /\ UNCHANGED <<promises, project, projectFile, saving, auto, counts>>

BackupWritten ==
    /\ pc = "backup"
    /\ Put(<<projectFile, "Backup">>, project) \/ Fail
    /\ pc' = "compare"
    /\ UNCHANGED <<promises, project, projectFile, timer, saving, cause, auto, counts>>

(* compareFiles: the sizes alone. *)
FilesCompared ==
    /\ pc = "compare"
    /\ IF files[<<projectFile, "project">>] # Absent /\ Size(File("project")) = Size(File("Backup"))
       THEN /\ Put(<<projectFile, "Backup">>, Absent) \/ Fail
            /\ Close /\ CloseEnds
       ELSE pc' = "ask" /\ UNCHANGED <<files, faults, project, projectFile, timer, cause>>
    /\ UNCHANGED <<promises, saving, auto, counts>>

(* The answers to promptProjectSave(): Save, Discard, Cancel. *)
SaveAnswered ==
    /\ \/ /\ pc = "ask"
          /\ \/ /\ files' = [files EXCEPT ![<<projectFile, "project">>] = File("Backup"),
                                          ![<<projectFile, "Backup">>] = Absent]
                /\ \/ /\ Complete(File("Backup"))
                      /\ Promise(projectFile, project.version)
                   \/ /\ ~Complete(File("Backup"))
                      /\ spoiled' = spoiled \cup {projectFile} /\ UNCHANGED saved
                /\ Close /\ CloseEnds
                /\ UNCHANGED <<faults, saving>>
             \/ Fail /\ Stay /\ UNCHANGED <<promises, saving>>
       \/ /\ pc = "askUnnamed"
          /\ pc' = "saveDialog" /\ caller' = "close"
          /\ UNCHANGED <<files, faults, promises, project, projectFile, timer, cause, target>>
       \/ /\ pc = "askNoBackup"
          /\ \/ /\ Put(<<projectFile, "project">>, Broken)
                /\ Promise(projectFile, 0)
                /\ pc' = "writing" /\ target' = projectFile /\ caller' = "close"
                /\ UNCHANGED <<project, projectFile, timer, cause>>
             \/ Fail /\ Close /\ Resume /\ UNCHANGED <<promises, saving>>
    /\ UNCHANGED <<auto, counts>>

DiscardAnswered ==
    /\ pc \in {"ask", "askUnnamed", "askNoBackup"}
    /\ IF pc = "ask" THEN Put(<<projectFile, "Backup">>, Absent) \/ Fail
                     ELSE UNCHANGED <<files, faults>>
    /\ Close /\ CloseEnds
    /\ UNCHANGED <<promises, saving, auto, counts>>

CancelAnswered ==
    /\ pc \in {"ask", "askUnnamed", "askNoBackup"}
    /\ Stay
    /\ UNCHANGED <<disk, saving, auto, counts>>

-----------------------------------------------------------------------------
(* A project is created or opened; who cancels leaves the timer blocked,    *)
(* until the next project.                                                  *)
NewProjectCreated(size) ==
    /\ pc = "creating" /\ version < MaxVersion
    /\ version' = version + 1
    /\ project' = Project(version', size) /\ projectFile' = None
    /\ pc' = "idle" /\ cause' = "none" /\ Resume
    /\ UNCHANGED <<disk, saving, auto, crashes>>

DialogsCancelled ==
    /\ pc \in {"creating", "opening"}
    /\ pc' = "idle" /\ cause' = "none" /\ target' = None
    /\ UNCHANGED <<disk, project, projectFile, timer, caller, auto, counts>>

OpenProject(name) ==
    /\ pc = "openDialog"
    /\ IF Complete(files[<<name, "project">>])
       THEN pc' = "opening" /\ target' = name /\ UNCHANGED <<timer, cause>>
       ELSE pc' = "idle" /\ cause' = "none" /\ Resume /\ UNCHANGED target
    /\ UNCHANGED <<disk, project, projectFile, caller, auto, counts>>

OpenDialogCancelled ==
    /\ pc = "openDialog"
    /\ pc' = "idle" /\ cause' = "none" /\ Resume
    /\ UNCHANGED <<disk, project, projectFile, saving, auto, counts>>

ProjectOpened ==
    /\ pc = "opening"
    /\ project' = files[<<target, "project">>] /\ projectFile' = target /\ target' = None
    /\ Promise(target, project'.version)
    /\ pc' = "idle" /\ cause' = "none" /\ Resume
    /\ UNCHANGED <<files, faults, caller, auto, counts>>

Edit(size) ==
    /\ pc = "idle" /\ auto = "off" /\ Loaded /\ version < MaxVersion
    /\ version' = version + 1
    /\ project' = Project(version', size)
    /\ UNCHANGED <<disk, projectFile, control, auto, crashes>>

SettingsChanged ==  \* createAutoSaveTimer, destroyAutoSaveTimer
    /\ pc = "idle" /\ auto = "off"
    /\ timer' = IF timer = "none" THEN "on" ELSE "none"
    /\ UNCHANGED <<disk, project, projectFile, pc, saving, cause, auto, counts>>

-----------------------------------------------------------------------------
(* QAutoSaveTimer::autoSaveProject, from an event loop *)

AutoAt == <<IF projectFile = None THEN Unnamed ELSE projectFile,
            IF projectFile = None THEN "project" ELSE "as">>
AutoSame == UNCHANGED <<project, projectFile, pc, saving, cause, counts>>
AutoEnds == auto' = "off" /\ timer' = "on"
AutoGoes(next) == auto' = next /\ UNCHANGED timer

AutoSaveProject ==
    /\ timer = "on" /\ auto = "off" /\ Loaded
    /\ pc \in {"idle", "saveDialog"}
    /\ \/ Put(AutoAt, Broken) /\ auto' = "write" /\ timer' = "blocked"
       \/ Fail /\ UNCHANGED <<auto, timer>>
    /\ UNCHANGED promises /\ AutoSame

AutoWritten ==
    /\ auto = "write"
    /\ Put(AutoAt, project) \/ Fail
    /\ IF projectFile = None THEN AutoEnds ELSE AutoGoes("clear")
    /\ UNCHANGED promises /\ AutoSame

(* The steps after it, with copyFileTo() in two: the old copy is removed,   *)
(* then the file is copied; QFile::copy() is all or nothing.                *)
AutoRemove(at, path, next, failed) ==
    /\ auto = at
    /\ \/ Put(path, Absent) /\ AutoGoes(next)
       \/ files[path] # Absent /\ Fail /\ failed
    /\ UNCHANGED promises /\ AutoSame
AutoCopy(at, from, to, next, failed) ==
    /\ auto = at
    /\ \/ Put(to, files[from]) /\ AutoGoes(next)
       \/ Fail /\ failed
    /\ UNCHANGED promises /\ AutoSame

AutoCleared == AutoRemove("clear", UnnamedFile, "bak", AutoGoes("bak"))
\* Mutants: no .bak is made; the file is not replaced when it cannot be backed up.
AutoNotBackedUp ==
    auto = "bak" /\ AutoGoes("remove") /\ UNCHANGED disk /\ AutoSame
AutoBackedUpOrEnds ==
    \/ /\ auto = "bak" /\ File("project") # Absent
       /\ AutoRemove("bak", <<projectFile, "bak">>, "bakCopy", AutoEnds)
    \/ /\ auto = "bak" /\ File("project") = Absent
       /\ AutoEnds /\ UNCHANGED disk /\ AutoSame
    \/ AutoCopy("bakCopy", <<projectFile, "project">>, <<projectFile, "bak">>, "remove", AutoEnds)

AutoBackedUp ==
    \/ /\ auto = "bak" /\ File("project") # Absent
       /\ AutoRemove("bak", <<projectFile, "bak">>, "bakCopy", AutoGoes("replace"))
    \/ /\ auto = "bak" /\ File("project") = Absent
       /\ AutoGoes("replace") /\ UNCHANGED disk /\ AutoSame
    \/ AutoCopy("bakCopy", <<projectFile, "project">>, <<projectFile, "bak">>, "remove",
                AutoGoes("replace"))
AutoReplaced ==
    \/ AutoRemove("remove", <<projectFile, "project">>, "replace", AutoGoes("replace"))
    \/ AutoRemove("replace", <<projectFile, "project">>, "copy", AutoEnds)
    \/ AutoCopy("copy", <<projectFile, "as">>, <<projectFile, "project">>, "finish", AutoEnds)
AutoFinished ==
    /\ auto = "finish"
    /\ Put(<<projectFile, "as">>, Absent) \/ Fail
    /\ AutoEnds
    /\ UNCHANGED promises /\ AutoSame

-----------------------------------------------------------------------------
Crash ==
    /\ crashes < MaxCrashes /\ crashes' = crashes + 1
    /\ project' = None /\ projectFile' = None
    /\ timer' = IF timer = "none" THEN "none" ELSE "on"
    /\ pc' = "idle" /\ target' = None /\ caller' = "menu" /\ cause' = "none" /\ auto' = "off"
    /\ UNCHANGED <<disk, version>>

AutoSave == AutoSaveProject \/ AutoWritten \/ AutoCleared \/ AutoBackedUp \/ AutoReplaced
                \/ AutoFinished
User ==
    \/ SaveProjectTriggered \/ SaveProjectAsTriggered
    \/ \E name \in Names : SaveDialogAccepted(name) \/ OpenProject(name)
    \/ SaveDialogCancelled \/ OpenDialogCancelled \/ DialogsCancelled
    \/ \E why \in {"close", "new", "open"} : CloseProjectInteractive(why)
    \/ SaveAnswered \/ DiscardAnswered \/ CancelAnswered
    \/ \E size \in Sizes : NewProjectCreated(size) \/ Edit(size)
    \/ ProjectOpened \/ SettingsChanged
Steps == Saved \/ BackupWritten \/ FilesCompared

Spec == Init /\ [][User \/ Steps \/ AutoSave \/ Crash]_vars
             /\ WF_vars(Steps) /\ WF_vars(AutoSave)

-----------------------------------------------------------------------------
(* What the user was told is saved is not lost by autosaving, closing and   *)
(* crashes: one of the file, its .as and its .bak is complete and as new,   *)
(* at whatever step of autoSaveProject() the program ends, and even if one  *)
(* operation fails, noticed or not.  (Two may be enough: with the disk full *)
(* both copies fail, and the next autosave cuts off the only file left.)    *)
(*                                                                         *)
(* Three cases are excepted, in which the code does lose it:                *)
(*   - from the moment the file is opened for writing in place until it is  *)
(*     written, since write() does not use AtomicFileOverwriter;            *)
(*   - when the writing of Backup.<name> failed unnoticed while closing and *)
(*     the user answers Save: the file, which may be the only good one, is  *)
(*     replaced by what there is of Backup (spoiled).  Up to that answer,   *)
(*     and after Discard, Cancel and a crash, the promise stands;           *)
(*   - a project the user keeps under the name of the unnamed autosave.     *)
Recoverable(name) == \E kind \in {"project", "as", "bak"} :
    Complete(files[<<name, kind>>]) /\ files[<<name, kind>>].version >= saved[name]
SavedIsKept == faults <= 1 =>
    \A name \in Names \ ({Unnamed} \cup spoiled) : saved[name] > 0 => Recoverable(name)

(* Every pause of the autosave timer comes to an end: while a project is    *)
(* loaded and no dialog is open, nor anything being saved, its signals are  *)
(* not blocked.                                                             *)
PauseEnds == Loaded /\ pc = "idle" /\ auto = "off" => timer # "blocked"

(* Once the user leaves a named project alone, its file gets what is in     *)
(* memory, whatever operations failed before.                               *)
LeftAlone == Loaded /\ pc = "idle" /\ projectFile # None /\ timer # "none"
Autosaved == <>[]LeftAlone => []<>(Loaded /\ projectFile # None /\ File("project") = project)
=============================================================================
