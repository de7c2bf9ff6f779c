-------------------------- MODULE ProjectFileProofs --------------------------
(***************************************************************************)
(* Proofs about ProjectFile for any number of project files, of edits, of  *)
(* crashes and of operations that fail, of which SavedIsKept allows one.   *)
(*                                                                         *)
(* The heart of the inductive invariant is KeptHow: what the file, its .as *)
(* and its .bak are worth in each phase of autoSaveProject().  A crash may *)
(* come in any phase, so one of them has to be good in all; and as long as *)
(* nothing has failed there is one more, which is what the first failure   *)
(* uses up.  The rest says what the dialogs, the comparison with Backup    *)
(* and the pauses of the timer rely on.                                    *)
(*                                                                         *)
(* RelinkingModel, another dialog about the files of a project, is proved  *)
(* about here too, for any rows, paths and replacements; the state of the  *)
(* two is apart.  RelinkingInv says more than what is shown: the requests  *)
(* of committed paths are under way as well, from when they are asked for, *)
(* the answers posted are right, and no two rows were one path.            *)
(***************************************************************************)
EXTENDS ProjectFile, RelinkingModel, SequenceTheorems, TLAPS

(* The projects that are written, as the contents of a file. *)
Contents == [version : Nat, size : Sizes]

(* What each of the files kept of a project is worth to its user. *)
Good(name, kind) ==
    Complete(files[<<name, kind>>]) /\ files[<<name, kind>>].version >= saved[name]
P(name) == Good(name, "project")
A(name) == Good(name, "as")
B(name) == Good(name, "bak")

(* The types of what the files and the project are kept in. *)
Types ==
    /\ files \in [Names \X Kinds -> Contents \cup {Absent, Broken}]
    /\ project \in Contents \cup {None} /\ projectFile \in Names \cup {None}
    /\ target \in Names \cup {None}
    /\ version \in Nat /\ faults \in Nat
    /\ saved \in [Names -> Nat] /\ spoiled \subseteq Names

(* Nothing is newer than the last edit, and the project in memory not older
   than what its user was told is saved. *)
Versions ==
    /\ \A path \in Names \X Kinds : Complete(files[path]) => files[path].version <= version
    /\ Loaded => project.version <= version
    /\ \A name \in Names : saved[name] <= version
    /\ projectFile # None => Loaded /\ saved[projectFile] <= project.version

(* Where the GUI thread and autosaving may be at the same time, and what is
   known there. *)
Places ==
    /\ pc \in {"idle", "saveDialog", "writing", "backup", "compare", "ask", "askUnnamed",
               "askNoBackup", "creating", "openDialog", "opening"}
    /\ auto \in {"off", "write", "clear", "bak", "bakCopy", "remove", "replace", "copy", "finish"}
    /\ auto # "off" => pc \in {"idle", "saveDialog"} /\ Loaded
    /\ auto \notin {"off", "write"} => projectFile # None
    /\ pc \in {"saveDialog", "writing", "askUnnamed"} => Loaded
    /\ pc = "writing" => target # None /\ saved[target] = 0
    /\ pc \in {"backup", "compare", "ask", "askNoBackup"} => projectFile # None
    /\ pc \in {"backup", "compare", "ask"} /\ Complete(File("Backup")) => File("Backup") = project
    /\ pc \in {"creating", "openDialog", "opening"} => ~Loaded
    /\ pc = "opening" => target # None /\ Complete(files[<<target, "project">>])

(* The timer is paused while autosaving, and a "Save As" did not pause it. *)
Pauses ==
    /\ timer \in {"none", "on", "blocked"}
    /\ auto # "off" => timer = "blocked"
    /\ caller \in {"menu", "save", "close"}
    /\ pc \in {"saveDialog", "writing"} /\ caller = "menu" /\ auto = "off" => timer # "blocked"
    /\ PauseEnds

(* What is kept of the project at hand in each phase of autosaving. *)
KeptHow(name) ==
    /\ auto \in {"off", "write", "finish"} =>
          (P(name) \/ B(name)) /\ (faults = 0 => P(name))
    /\ auto \in {"clear", "bak"} =>
          (P(name) \/ (A(name) /\ B(name))) /\ (faults = 0 => P(name) /\ A(name))
    /\ auto = "bakCopy" => (P(name) \/ A(name)) /\ (faults = 0 => P(name) /\ A(name))
    /\ auto \in {"remove", "replace", "copy"} =>
          (A(name) \/ B(name)) /\ (faults = 0 => A(name) /\ B(name))

(* Of all others one file is; but nothing is promised of those that a Backup
   cut off in writing has replaced. *)
Promised(name) == saved[name] > 0 /\ name \notin spoiled
Kept ==
    faults <= 1 => \A name \in Names \ {Unnamed} : Promised(name) =>
        IF name = projectFile THEN KeptHow(name) ELSE Recoverable(name)

IInv == Types /\ Versions /\ Places /\ Pauses /\ Kept

-----------------------------------------------------------------------------
(* What is written of a project is complete. *)
LEMMA ContentsAreComplete ==
    \A content \in Contents : Complete(content) /\ content.version \in Nat /\ content # None
  BY ProjectFileAssumption DEF Contents, Complete

(* Whatever phase autosaving is in, one of the three files is good. *)
LEMMA KeptHowIsEnough ==
    ASSUME Places, NEW name \in Names, KeptHow(name) PROVE Recoverable(name)
  BY DEF Places, KeptHow, Recoverable, P, A, B, Good

(* Nothing is kept worse by a step that leaves the files alone. *)
LEMMA LeftAloneIsKept ==
    ASSUME Types, Places, Kept, faults' \in Nat, faults <= faults',
           \A name \in Names \ {Unnamed} : Promised(name)' =>
               /\ saved'[name] = saved[name] /\ name \notin spoiled
               /\ \A kind \in {"project", "as", "bak"} : files'[<<name, kind>>] = files[<<name, kind>>],
           (projectFile' = projectFile /\ auto' = auto) \/ projectFile' = None
    PROVE  Kept'
  <1> SUFFICES ASSUME faults' <= 1, NEW name \in Names \ {Unnamed}, Promised(name)'
               PROVE  IF name = projectFile' THEN KeptHow(name)' ELSE Recoverable(name)'
    BY DEF Kept
  <1>1. /\ saved'[name] = saved[name] /\ Promised(name)
        /\ \A kind \in {"project", "as", "bak"} : files'[<<name, kind>>] = files[<<name, kind>>]
        /\ faults <= 1 /\ (faults' = 0 => faults = 0)
    BY DEF Types, Promised
  <1>2. (P(name)' <=> P(name)) /\ (A(name)' <=> A(name)) /\ (B(name)' <=> B(name))
    BY <1>1 DEF P, A, B, Good, Complete
  <1>3. Recoverable(name)' <=> Recoverable(name)
    BY <1>1 DEF Recoverable, Complete
  <1>4. IF name = projectFile THEN KeptHow(name) ELSE Recoverable(name)
    BY <1>1 DEF Kept
  <1>5. Recoverable(name)
    BY <1>4, KeptHowIsEnough
  <1>6. CASE projectFile' = None
    BY <1>3, <1>5, <1>6, ProjectFileAssumption
  <1>7. CASE projectFile' = projectFile /\ auto' = auto
    <2>1. KeptHow(name) => KeptHow(name)'
      BY <1>1, <1>2, <1>7 DEF KeptHow
    <2> QED  BY <1>3, <1>4, <1>7, <2>1
  <1> QED  BY <1>6, <1>7

(* The file of one project is good after the step, or nobody was told so. *)
LEMMA RewrittenIsKept ==
    ASSUME Types, Places, Kept, faults' \in Nat, faults <= faults', NEW path \in Names,
           Promised(path)' => P(path)',
           \A name \in Names \ {Unnamed, path} : Promised(name)' =>
               /\ saved'[name] = saved[name] /\ name \notin spoiled
               /\ \A kind \in {"project", "as", "bak"} : files'[<<name, kind>>] = files[<<name, kind>>],
           projectFile' \in {path, None}, auto' = "off"
    PROVE  Kept'
  <1> SUFFICES ASSUME faults' <= 1, NEW name \in Names \ {Unnamed}, Promised(name)'
               PROVE  IF name = projectFile' THEN KeptHow(name)' ELSE Recoverable(name)'
    BY DEF Kept
  <1>1. CASE name = path
    <2>1. P(name)'
      BY <1>1
    <2>2. KeptHow(name)'
      BY <2>1 DEF KeptHow
    <2>3. Recoverable(name)'
      BY <2>1 DEF Recoverable, P, Good
    <2> QED  BY <2>2, <2>3
  <1>2. CASE name # path
    <2>1. /\ saved'[name] = saved[name] /\ Promised(name)
          /\ \A kind \in {"project", "as", "bak"} : files'[<<name, kind>>] = files[<<name, kind>>]
          /\ faults <= 1
      BY <1>2 DEF Types, Promised
    <2>2. Recoverable(name)' <=> Recoverable(name)
      BY <2>1 DEF Recoverable, Complete
    <2>3. IF name = projectFile THEN KeptHow(name) ELSE Recoverable(name)
      BY <2>1 DEF Kept
    <2>4. Recoverable(name)
      BY <2>3, KeptHowIsEnough
    <2>5. name # projectFile'
      BY <1>2, ProjectFileAssumption
    <2> QED  BY <2>2, <2>4, <2>5
  <1> QED  BY <1>1, <1>2

(* The steps that write, remove or copy one of the files: what they make of it,
   and that the others, and what they are worth, stay as they are. *)
Only(path, kind) ==
    \A name \in Names, k \in Kinds :
        name # path \/ k # kind => files'[<<name, k>>] = files[<<name, k>>]

(* A step of autosaving has to do with the files of the project at hand. *)
LEMMA AutosavedIsKept ==
    ASSUME Types, Kept, faults' \in Nat, faults <= faults', UNCHANGED <<promises, projectFile>>,
           NEW own \in {Unnamed, projectFile}, NEW which \in Kinds,
           Only(own, which) \/ files' = files,
           \A path \in Names : path = projectFile /\ path # Unnamed /\ faults' <= 1 /\ KeptHow(path)
               => KeptHow(path)'
    PROVE  Kept'
  <1> SUFFICES ASSUME faults' <= 1, NEW name \in Names \ {Unnamed}, Promised(name)'
               PROVE  IF name = projectFile' THEN KeptHow(name)' ELSE Recoverable(name)'
    BY DEF Kept
  <1>1. /\ saved'[name] = saved[name] /\ Promised(name) /\ faults <= 1
        /\ projectFile' = projectFile
    BY DEF Types, promises, Promised
  <1>2. IF name = projectFile THEN KeptHow(name) ELSE Recoverable(name)
    BY <1>1 DEF Kept
  <1>3. CASE name = projectFile
    BY <1>1, <1>2, <1>3
  <1>4. CASE name # projectFile
    <2>1. \A kind \in {"project", "as", "bak"} : files'[<<name, kind>>] = files[<<name, kind>>]
      BY <1>4 DEF Only, Kinds
    <2>2. Recoverable(name)' <=> Recoverable(name)
      BY <1>1, <2>1 DEF Recoverable, Complete
    <2> QED  BY <1>1, <1>2, <1>4, <2>2
  <1> QED  BY <1>3, <1>4

(* Put changes one file. *)
LEMMA PutIsOnly ==
    ASSUME Types, NEW path \in Names, NEW kind \in Kinds, NEW content, Put(<<path, kind>>, content)
    PROVE  faults' = faults /\ files'[<<path, kind>>] = content /\ Only(path, kind)
  BY DEF Put, Types, Only

(* The other files are worth what they were, *)
LEMMA OthersAsGood ==
    ASSUME UNCHANGED promises, NEW path \in Names, NEW kind \in Kinds, Only(path, kind)
    PROVE  /\ kind # "project" => (P(path)' <=> P(path))
           /\ kind # "as" => (A(path)' <=> A(path))
           /\ kind # "bak" => (B(path)' <=> B(path))
  BY DEF Only, P, A, B, Good, Complete, Kinds, promises

(* and all are, if the operation failed. *)
LEMMA NothingAsGood ==
    ASSUME UNCHANGED <<promises, files>>, NEW path \in Names
    PROVE  (P(path)' <=> P(path)) /\ (A(path)' <=> A(path)) /\ (B(path)' <=> B(path))
  BY DEF P, A, B, Good, Complete, promises

-----------------------------------------------------------------------------
(* Saving under the name of the project: from now on nothing is promised of the
   file, until it is written. *)
LEMMA SaveProjectTriggeredStep == ASSUME IInv, SaveProjectTriggered PROVE IInv'
  <1> USE ProjectFileAssumption DEF IInv, promises, Promise
  <1>1. Types'
    BY DEF SaveProjectTriggered, Types, OpenForSaving, Pause, Resume, Put, Fail, disk, saving,
           counts, Contents, Kinds, Loaded
  <1>2. Versions'
    BY DEF SaveProjectTriggered, Versions, Types, Places, OpenForSaving, Pause, Resume, Put,
           Fail, disk, saving, counts, Contents, Kinds, File, Loaded, Complete
  <1>3. Places'
    BY DEF SaveProjectTriggered, Places, Types, OpenForSaving, Pause, Resume, Put, Fail, disk,
           saving, counts, Contents, Kinds, File, Loaded, Complete
  <1>4. Pauses'
    BY DEF SaveProjectTriggered, Pauses, PauseEnds, Places, Types, OpenForSaving, Pause,
           Resume, Put, Fail, disk, saving, counts, Loaded
  <1>5. Kept'
    BY LeftAloneIsKept DEF Promised, SaveProjectTriggered, Types, Places, OpenForSaving, Pause, Resume,
           Put, Fail, disk, saving, counts, Contents, Kinds, Loaded
  <1> QED  BY <1>1, <1>2, <1>3, <1>4, <1>5

(* "Save As" does not pause the timer, whatever it was doing. *)
LEMMA SaveProjectAsTriggeredStep == ASSUME IInv, SaveProjectAsTriggered PROVE IInv'
  <1> USE ProjectFileAssumption DEF IInv, promises, Promise
  <1>1. Types'
    BY DEF SaveProjectAsTriggered, Types, disk, counts, Contents, Kinds, Loaded
  <1>2. Versions'
    BY DEF SaveProjectAsTriggered, Versions, Types, Places, disk, counts, Contents, Kinds,
           File, Loaded, Complete
  <1>3. Places'
    BY DEF SaveProjectAsTriggered, Places, Types, disk, counts, Contents, Kinds, File, Loaded,
           Complete
  <1>4. Pauses'
    BY DEF SaveProjectAsTriggered, Pauses, PauseEnds, Places, Types, disk, counts, Loaded
  <1>5. Kept'
    BY LeftAloneIsKept DEF Promised, SaveProjectAsTriggered, Types, Places, disk, counts, Contents,
           Kinds, Loaded
  <1> QED  BY <1>1, <1>2, <1>3, <1>4, <1>5

(* The file that was chosen may be any project's. *)
LEMMA SaveDialogAcceptedStep == ASSUME IInv, NEW name \in Names, SaveDialogAccepted(name) PROVE IInv'
  <1> USE ProjectFileAssumption DEF IInv, promises, Promise
  <1>1. Types'
    BY DEF SaveDialogAccepted, Types, OpenForSaving, SaveReturns, Close, Resume, Put, Fail,
           counts, Contents, Kinds
  <1>2. Versions'
    BY DEF SaveDialogAccepted, Versions, Types, Places, OpenForSaving, SaveReturns, Close,
           Resume, Put, Fail, counts, Contents, Kinds, File, Loaded, Complete
  <1>3. Places'
    BY DEF SaveDialogAccepted, Places, Types, OpenForSaving, SaveReturns, Close, Resume, Put,
           Fail, counts, Contents, Kinds, File, Loaded, Complete
  <1>4. Pauses'
    BY DEF SaveDialogAccepted, Pauses, PauseEnds, Places, Types, OpenForSaving, SaveReturns,
           Close, Resume, Put, Fail, counts, Loaded
  <1>5. Kept'
    BY LeftAloneIsKept DEF Promised, SaveDialogAccepted, Types, Places, OpenForSaving, SaveReturns,
           Close, Resume, Put, Fail, counts, Contents, Kinds, Loaded
  <1> QED  BY <1>1, <1>2, <1>3, <1>4, <1>5

(* The project is closed all the same if it was to be saved for that. *)
LEMMA SaveDialogCancelledStep == ASSUME IInv, SaveDialogCancelled PROVE IInv'
  <1> USE ProjectFileAssumption DEF IInv, promises, Promise
  <1>1. Types'
    BY DEF SaveDialogCancelled, Types, SaveReturns, Close, Resume, disk, counts, Contents,
           Kinds
  <1>2. Versions'
    BY DEF SaveDialogCancelled, Versions, Types, Places, SaveReturns, Close, Resume, disk,
           counts, Contents, Kinds, File, Loaded, Complete
  <1>3. Places'
    BY DEF SaveDialogCancelled, Places, Types, SaveReturns, Close, Resume, disk, counts,
           Contents, Kinds, File, Loaded, Complete
  <1>4. Pauses'
    BY DEF SaveDialogCancelled, Pauses, PauseEnds, Places, Types, SaveReturns, Close, Resume,
           disk, counts, Loaded
  <1>5. Kept'
    BY LeftAloneIsKept DEF Promised, SaveDialogCancelled, Types, Places, SaveReturns, Close, Resume,
           disk, counts, Contents, Kinds, Loaded
  <1> QED  BY <1>1, <1>2, <1>3, <1>4, <1>5

(* The file is as good as the project in memory if it was written. *)
LEMMA SavedStep == ASSUME IInv, Saved PROVE IInv'
  <1> USE ProjectFileAssumption DEF IInv, promises, Promise
  <1>1. Types'
    <2>1. target \in Names /\ project \in Contents
      BY DEF Saved, Types, Places, Loaded
    <2>2. files' \in [Names \X Kinds -> Contents \cup {Absent, Broken}] /\ faults' \in Nat
      BY <2>1 DEF Saved, Put, Fail, Types, Kinds
    <2>3. saved' \in [Names -> Nat]
      BY <2>1, ContentsAreComplete DEF Saved, Types
    <2> QED  BY <2>1, <2>2, <2>3 DEF Saved, SaveReturns, Close, counts, Types
  <1>2. Versions'
    <2>1. /\ target \in Names /\ Loaded /\ project.version \in Nat /\ project.version <= version
          /\ version' = version
      BY ContentsAreComplete DEF Saved, SaveReturns, counts, Versions, Places, Types, Loaded
    <2>2. \A path \in Names \X Kinds : files'[path] \in {files[path], project}
      BY <2>1 DEF Saved, Put, Fail, Types, Kinds
    <2>3. \A path \in Names \X Kinds : Complete(files'[path]) => files'[path].version <= version
      BY <2>1, <2>2 DEF Versions
    <2>4. \A name \in Names : saved'[name] <= version /\ (name = target => saved'[name] <= project.version)
      BY <2>1 DEF Saved, Versions, Places, Types
    <2>5. (projectFile' = target /\ project' = project) \/ (projectFile' = None /\ project' = None)
          \/ (projectFile' = None /\ project' = project)
      BY DEF Saved, SaveReturns, Close
    <2> QED  BY <2>1, <2>3, <2>4, <2>5 DEF Versions, Loaded, Complete
  <1>3. Places'
    BY DEF Saved, Places, Types, SaveReturns, Close, Resume, Put, Fail, counts, Contents,
           Kinds, File, Loaded, Complete
  <1>4. Pauses'
    BY DEF Saved, Pauses, PauseEnds, Places, Types, SaveReturns, Close, Resume, Put, Fail,
           counts, Loaded
  <1>5. Kept'
    <2> SUFFICES ASSUME NEW path \in Names, path = target PROVE Kept'
      BY DEF Saved, Places, Types
    <2>1. project \in Contents /\ saved[path] = 0 /\ auto' = "off"
      BY DEF Saved, SaveReturns, counts, Types, Places, Loaded
    <2>2. /\ faults' \in Nat /\ faults <= faults' /\ projectFile' \in {path, None}
          /\ \A name \in Names \ {path} :
                saved'[name] = saved[name] /\ (name \in spoiled' <=> name \in spoiled)
          /\ \A name \in Names \ {path}, kind \in {"project", "as", "bak"} :
                files'[<<name, kind>>] = files[<<name, kind>>]
      BY DEF Saved, SaveReturns, Close, Put, Fail, Types, Kinds
    <2>3. Promised(path)' => P(path)'
      <3>1. CASE Put(<<path, "project">>, project) /\ Promise(path, project.version)
        <4>1. files'[<<path, "project">>] = project /\ saved'[path] = project.version
          BY <2>1, <3>1 DEF Put, Types, Kinds
        <4>2. P(path)'
          <5>1. Complete(project) /\ project.version >= project.version
            BY <2>1, ContentsAreComplete
          <5> QED  BY <4>1, <5>1 DEF P, Good, Complete
        <4> QED  BY <4>2
      <3>2. CASE UNCHANGED promises
        BY <2>1, <3>2 DEF Promised
      <3> QED  BY <3>1, <3>2 DEF Saved
    <2> QED  BY <2>1, <2>2, <2>3, RewrittenIsKept DEF Promised
  <1> QED  BY <1>1, <1>2, <1>3, <1>4, <1>5

(* The project is compared with its file by way of Backup. *)
LEMMA CloseProjectInteractiveStep == ASSUME IInv, NEW why \in {"close", "new", "open"}, CloseProjectInteractive(why) PROVE IInv'
  <1> USE ProjectFileAssumption DEF IInv, promises, Promise
  <1>1. Types'
    BY DEF CloseProjectInteractive, Types, Pause, Put, saving, counts, Contents, Kinds, Loaded
  <1>2. Versions'
    BY DEF CloseProjectInteractive, Versions, Types, Places, Pause, Put, saving, counts,
           Contents, Kinds, File, Loaded, Complete
  <1>3. Places'
    BY DEF CloseProjectInteractive, Places, Types, Pause, Put, saving, counts, Contents, Kinds,
           File, Loaded, Complete
  <1>4. Pauses'
    BY DEF CloseProjectInteractive, Pauses, PauseEnds, Places, Types, Pause, Put, saving,
           counts, Loaded
  <1>5. Kept'
    BY LeftAloneIsKept DEF Promised, CloseProjectInteractive, Types, Places, Pause, Put, saving, counts,
           Contents, Kinds, Loaded
  <1> QED  BY <1>1, <1>2, <1>3, <1>4, <1>5

(* Backup is the project, or cut off. *)
LEMMA BackupWrittenStep == ASSUME IInv, BackupWritten PROVE IInv'
  <1> USE ProjectFileAssumption DEF IInv, promises, Promise
  <1>1. Types'
    <2>1. projectFile \in Names /\ project \in Contents
      BY DEF BackupWritten, Places, Versions, Types, Loaded
    <2>2. files' \in [Names \X Kinds -> Contents \cup {Absent, Broken}] /\ faults' \in Nat
      BY <2>1 DEF BackupWritten, Put, Fail, Types, Kinds
    <2> QED  BY <2>2 DEF BackupWritten, saving, counts, Types
  <1>2. Versions'
    BY DEF BackupWritten, Versions, Types, Places, Put, Fail, saving, counts, Contents, Kinds,
           File, Loaded, Complete
  <1>3. Places'
    <2>1. projectFile \in Names /\ project \in Contents
      BY DEF BackupWritten, Places, Versions, Types, Loaded
    <2>2. File("Backup")' = project \/ File("Backup")' = File("Backup")
      BY <2>1 DEF BackupWritten, Put, Fail, File, Types, Kinds, Places
    <2> QED  BY <2>1, <2>2 DEF BackupWritten, saving, counts, File, Complete, Types, Places
  <1>4. Pauses'
    BY DEF BackupWritten, Pauses, PauseEnds, Places, Types, Put, Fail, saving, counts, Loaded
  <1>5. Kept'
    BY LeftAloneIsKept DEF Promised, BackupWritten, Types, Places, Put, Fail, saving, counts, Contents,
           Kinds, Loaded
  <1> QED  BY <1>1, <1>2, <1>3, <1>4, <1>5

(* Nothing is said to be saved that was not so before. *)
LEMMA FilesComparedStep == ASSUME IInv, FilesCompared PROVE IInv'
  <1> USE ProjectFileAssumption DEF IInv, promises, Promise
  <1>1. Types'
    BY DEF FilesCompared, Types, Close, CloseEnds, Resume, Put, Fail, saving, counts, Contents,
           Kinds, File
  <1>2. Versions'
    BY DEF FilesCompared, Versions, Types, Places, Close, CloseEnds, Resume, Put, Fail, saving,
           counts, Contents, Kinds, File, Loaded, Complete
  <1>3. Places'
    BY DEF FilesCompared, Places, Types, Close, CloseEnds, Resume, Put, Fail, saving, counts,
           Contents, Kinds, File, Loaded, Complete
  <1>4. Pauses'
    BY DEF FilesCompared, Pauses, PauseEnds, Places, Types, Close, CloseEnds, Resume, Put,
           Fail, saving, counts, Loaded
  <1>5. Kept'
    BY LeftAloneIsKept DEF Promised, FilesCompared, Types, Places, Close, CloseEnds, Resume, Put, Fail,
           saving, counts, Contents, Kinds, Loaded
  <1> QED  BY <1>1, <1>2, <1>3, <1>4, <1>5

(* What replaces the file is the project if it is complete; or the file is
   written anew. *)
LEMMA SaveAnsweredStep == ASSUME IInv, SaveAnswered PROVE IInv'
  <1> USE ProjectFileAssumption DEF IInv, promises, Promise
  <1>1. Types'
    <2>1. CASE pc = "ask"
      <3>1. projectFile \in Names /\ project \in Contents
        BY <2>1 DEF Places, Versions, Types, Loaded
      <3>2. File("Backup") \in Contents \cup {Absent, Broken}
        BY <3>1 DEF File, Types, Kinds
      <3>3. \/ /\ files' = [files EXCEPT ![<<projectFile, "project">>] = File("Backup"),
                                         ![<<projectFile, "Backup">>] = Absent]
               /\ saved' \in {saved, [saved EXCEPT ![projectFile] = project.version]}
               /\ spoiled' \in {spoiled \ {projectFile}, spoiled \cup {projectFile}}
               /\ faults' = faults
            \/ UNCHANGED <<files, saved, spoiled>> /\ faults' = faults + 1
        BY <2>1 DEF SaveAnswered, Fail
      <3>4. /\ files' \in [Names \X Kinds -> Contents \cup {Absent, Broken}]
            /\ saved' \in [Names -> Nat] /\ faults' \in Nat /\ spoiled' \subseteq Names
        BY <3>1, <3>2, <3>3 DEF Types, Kinds, Contents
      <3> QED  BY <2>1, <3>1, <3>4 DEF SaveAnswered, Close, CloseEnds, Resume, Stay, saving, counts,
                                       Types
    <2>2. CASE pc # "ask"
      BY <2>2 DEF SaveAnswered, Close, Resume, Put, Fail, saving, counts, Types, Kinds, Places
    <2> QED  BY <2>1, <2>2
  <1>2. Versions'
    BY DEF SaveAnswered, Versions, Types, Places, Close, CloseEnds, Resume, Stay, Put, Fail,
           saving, counts, Contents, Kinds, File, Loaded, Complete
  <1>3. Places'
    <2>1. CASE pc = "ask"
      BY <2>1 DEF SaveAnswered, Close, CloseEnds, Resume, Stay, Fail, saving, counts, File, Loaded,
                  Complete, Types, Places
    <2>2. CASE pc = "askUnnamed"
      BY <2>2 DEF SaveAnswered, counts, Types, Places, Loaded, Complete, File
    <2>3. CASE pc = "askNoBackup"
      BY <2>3 DEF SaveAnswered, Close, Resume, Put, Fail, saving, counts, File, Loaded,
                  Complete, Types, Versions, Places
    <2> QED  BY <2>1, <2>2, <2>3 DEF SaveAnswered
  <1>4. Pauses'
    BY DEF SaveAnswered, Pauses, PauseEnds, Places, Types, Close, CloseEnds, Resume, Stay, Put,
           Fail, saving, counts, Loaded
  <1>5. Kept'
    <2>1. CASE pc = "ask"
      <3> SUFFICES ASSUME NEW path \in Names, path = projectFile PROVE Kept'
        BY <2>1 DEF Places, Types
      <3>1. project \in Contents /\ auto' = "off"
        BY <2>1 DEF SaveAnswered, counts, Places, Versions, Types, Loaded
      <3>2. CASE /\ files' = [files EXCEPT ![<<path, "project">>] = File("Backup"),
                                           ![<<path, "Backup">>] = Absent]
                 /\ \/ Complete(File("Backup")) /\ Promise(path, project.version)
                    \/ spoiled' = spoiled \cup {path} /\ UNCHANGED saved
                 /\ faults' = faults /\ projectFile' = None
        <4>1. Promised(path)' => P(path)'
          <5>1. CASE Complete(File("Backup")) /\ Promise(path, project.version)
            <6>1. files'[<<path, "project">>] = File("Backup") /\ saved'[path] = project.version
              BY <3>1, <3>2, <5>1 DEF Types, Kinds
            <6>2. File("Backup") = project
              BY <2>1, <5>1 DEF Places
            <6>3. Complete(project) /\ project.version >= project.version
              BY <3>1, ContentsAreComplete
            <6> QED  BY <6>1, <6>2, <6>3 DEF P, Good, Complete
          <5>2. CASE spoiled' = spoiled \cup {path}
            BY <5>2 DEF Promised
          <5> QED  BY <3>2, <5>1, <5>2
        <4>2. \A name \in Names \ {path} :
                  /\ saved'[name] = saved[name] /\ (name \in spoiled' <=> name \in spoiled)
                  /\ \A kind \in {"project", "as", "bak"} :
                        files'[<<name, kind>>] = files[<<name, kind>>]
          BY <3>1, <3>2 DEF Types, Kinds
        <4>3. faults' \in Nat /\ faults <= faults' /\ projectFile' = None
          BY <3>2 DEF Types
        <4> QED  BY <3>1, <4>1, <4>2, <4>3, RewrittenIsKept DEF Promised
      <3>3. CASE UNCHANGED <<files, promises, projectFile, auto>> /\ faults' = faults + 1
        BY <3>3, LeftAloneIsKept DEF Promised, Types
      <3> QED  BY <2>1, <3>2, <3>3 DEF SaveAnswered, Close, Stay, Fail
    <2>2. CASE pc # "ask"
      <3>1. auto' = auto /\ projectFile' \in {projectFile, None} /\ faults' \in {faults, faults + 1}
        BY <2>2 DEF SaveAnswered, Close, Put, Fail
      <3>2. \A name \in Names \ {Unnamed} : Promised(name)' =>
                /\ saved'[name] = saved[name] /\ name \notin spoiled
                /\ \A kind \in {"project", "as", "bak"} :
                      files'[<<name, kind>>] = files[<<name, kind>>]
        BY <2>2 DEF SaveAnswered, Promised, Put, Fail, Types, Places, Kinds
      <3> QED  BY <3>1, <3>2, LeftAloneIsKept DEF Promised, Types
    <2> QED  BY <2>1, <2>2
  <1> QED  BY <1>1, <1>2, <1>3, <1>4, <1>5

(* The file is left as it was. *)
LEMMA DiscardAnsweredStep == ASSUME IInv, DiscardAnswered PROVE IInv'
  <1> USE ProjectFileAssumption DEF IInv, promises, Promise
  <1>1. Types'
    BY DEF DiscardAnswered, Types, Close, CloseEnds, Resume, Put, Fail, saving, counts,
           Contents, Kinds
  <1>2. Versions'
    BY DEF DiscardAnswered, Versions, Types, Places, Close, CloseEnds, Resume, Put, Fail,
           saving, counts, Contents, Kinds, File, Loaded, Complete
  <1>3. Places'
    BY DEF DiscardAnswered, Places, Types, Close, CloseEnds, Resume, Put, Fail, saving, counts,
           Contents, Kinds, File, Loaded, Complete
  <1>4. Pauses'
    BY DEF DiscardAnswered, Pauses, PauseEnds, Places, Types, Close, CloseEnds, Resume, Put,
           Fail, saving, counts, Loaded
  <1>5. Kept'
    BY LeftAloneIsKept DEF Promised, DiscardAnswered, Types, Places, Close, CloseEnds, Resume, Put, Fail,
           saving, counts, Contents, Kinds, Loaded
  <1> QED  BY <1>1, <1>2, <1>3, <1>4, <1>5

(* The user goes on, and so does the timer. *)
LEMMA CancelAnsweredStep == ASSUME IInv, CancelAnswered PROVE IInv'
  <1> USE ProjectFileAssumption DEF IInv, promises, Promise
  <1>1. Types'
    BY DEF CancelAnswered, Types, Stay, Resume, disk, saving, counts, Contents, Kinds
  <1>2. Versions'
    BY DEF CancelAnswered, Versions, Types, Places, Stay, Resume, disk, saving, counts,
           Contents, Kinds, File, Loaded, Complete
  <1>3. Places'
    BY DEF CancelAnswered, Places, Types, Stay, Resume, disk, saving, counts, Contents, Kinds,
           File, Loaded, Complete
  <1>4. Pauses'
    BY DEF CancelAnswered, Pauses, PauseEnds, Places, Types, Stay, Resume, disk, saving,
           counts, Loaded
  <1>5. Kept'
    BY LeftAloneIsKept DEF Promised, CancelAnswered, Types, Places, Stay, Resume, disk, saving, counts,
           Contents, Kinds, Loaded
  <1> QED  BY <1>1, <1>2, <1>3, <1>4, <1>5

(* A new project has no file yet. *)
LEMMA NewProjectCreatedStep == ASSUME IInv, NEW size \in Sizes, NewProjectCreated(size) PROVE IInv'
  <1> USE ProjectFileAssumption DEF IInv, promises, Promise
  <1>1. Types'
    BY DEF NewProjectCreated, Types, Project, Resume, disk, saving, Contents, Kinds
  <1>2. Versions'
    BY DEF NewProjectCreated, Versions, Types, Places, Project, Resume, disk, saving, Contents,
           Kinds, File, Loaded, Complete
  <1>3. Places'
    BY DEF NewProjectCreated, Places, Types, Project, Resume, disk, saving, Contents, Kinds,
           File, Loaded, Complete
  <1>4. Pauses'
    BY DEF NewProjectCreated, Pauses, PauseEnds, Places, Types, Project, Resume, disk, saving,
           Loaded
  <1>5. Kept'
    BY LeftAloneIsKept DEF Promised, NewProjectCreated, Types, Places, Project, Resume, disk, saving,
           Contents, Kinds, Loaded
  <1> QED  BY <1>1, <1>2, <1>3, <1>4, <1>5

(* The timer stays paused, but no project is loaded. *)
LEMMA DialogsCancelledStep == ASSUME IInv, DialogsCancelled PROVE IInv'
  <1> USE ProjectFileAssumption DEF IInv, promises, Promise
  <1>1. Types'
    BY DEF DialogsCancelled, Types, disk, counts, Contents, Kinds
  <1>2. Versions'
    BY DEF DialogsCancelled, Versions, Types, Places, disk, counts, Contents, Kinds, File,
           Loaded, Complete
  <1>3. Places'
    BY DEF DialogsCancelled, Places, Types, disk, counts, Contents, Kinds, File, Loaded,
           Complete
  <1>4. Pauses'
    BY DEF DialogsCancelled, Pauses, PauseEnds, Places, Types, disk, counts, Loaded
  <1>5. Kept'
    BY LeftAloneIsKept DEF Promised, DialogsCancelled, Types, Places, disk, counts, Contents, Kinds,
           Loaded
  <1> QED  BY <1>1, <1>2, <1>3, <1>4, <1>5

(* Only a complete file is opened, *)
LEMMA OpenProjectStep == ASSUME IInv, NEW name \in Names, OpenProject(name) PROVE IInv'
  <1> USE ProjectFileAssumption DEF IInv, promises, Promise
  <1>1. Types'
    BY DEF OpenProject, Types, Resume, disk, counts, Contents, Kinds
  <1>2. Versions'
    BY DEF OpenProject, Versions, Types, Places, Resume, disk, counts, Contents, Kinds, File,
           Loaded, Complete
  <1>3. Places'
    BY DEF OpenProject, Places, Types, Resume, disk, counts, Contents, Kinds, File, Loaded,
           Complete
  <1>4. Pauses'
    BY DEF OpenProject, Pauses, PauseEnds, Places, Types, Resume, disk, counts, Loaded
  <1>5. Kept'
    BY LeftAloneIsKept DEF Promised, OpenProject, Types, Places, Resume, disk, counts, Contents, Kinds,
           Loaded
  <1> QED  BY <1>1, <1>2, <1>3, <1>4, <1>5

(* and none if the dialog is cancelled. *)
LEMMA OpenDialogCancelledStep == ASSUME IInv, OpenDialogCancelled PROVE IInv'
  <1> USE ProjectFileAssumption DEF IInv, promises, Promise
  <1>1. Types'
    BY DEF OpenDialogCancelled, Types, Resume, disk, saving, counts, Contents, Kinds
  <1>2. Versions'
    BY DEF OpenDialogCancelled, Versions, Types, Places, Resume, disk, saving, counts,
           Contents, Kinds, File, Loaded, Complete
  <1>3. Places'
    BY DEF OpenDialogCancelled, Places, Types, Resume, disk, saving, counts, Contents, Kinds,
           File, Loaded, Complete
  <1>4. Pauses'
    BY DEF OpenDialogCancelled, Pauses, PauseEnds, Places, Types, Resume, disk, saving, counts,
           Loaded
  <1>5. Kept'
    BY LeftAloneIsKept DEF Promised, OpenDialogCancelled, Types, Places, Resume, disk, saving, counts,
           Contents, Kinds, Loaded
  <1> QED  BY <1>1, <1>2, <1>3, <1>4, <1>5

(* The user has what is in the file, so it is as good as it says. *)
LEMMA ProjectOpenedStep == ASSUME IInv, ProjectOpened PROVE IInv'
  <1> USE ProjectFileAssumption DEF IInv, promises, Promise
  <1>1. Types'
    <2>1. /\ target \in Names /\ files[<<target, "project">>] \in Contents
          /\ project' = files[<<target, "project">>]
      BY DEF ProjectOpened, Places, Types, Kinds, Complete
    <2>2. saved' \in [Names -> Nat]
      BY <2>1, ContentsAreComplete DEF ProjectOpened, Types
    <2> QED  BY <2>1, <2>2 DEF ProjectOpened, counts, Types
  <1>2. Versions'
    <2>1. /\ target \in Names /\ files[<<target, "project">>] \in Contents
          /\ project' = files[<<target, "project">>]
      BY DEF ProjectOpened, Places, Types, Kinds, Complete
    <2>2. project'.version <= version /\ project'.version \in Nat
      BY <2>1, ContentsAreComplete DEF Versions, Kinds
    <2>3. saved'[target] = project'.version /\ \A name \in Names \ {target} : saved'[name] = saved[name]
      BY <2>1 DEF ProjectOpened, Types
    <2>4. \A name \in Names : saved'[name] <= version
      BY <2>2, <2>3 DEF Versions
    <2>5. project' # None
      BY <2>1, ContentsAreComplete
    <2> QED  BY <2>1, <2>2, <2>3, <2>4, <2>5 DEF ProjectOpened, counts, Versions, Loaded, Complete, Types
  <1>3. Places'
    BY DEF ProjectOpened, Places, Types, Resume, counts, Contents, Kinds, File, Loaded,
           Complete
  <1>4. Pauses'
    BY DEF ProjectOpened, Pauses, PauseEnds, Places, Types, Resume, counts, Loaded
  <1>5. Kept'
    <2> SUFFICES ASSUME NEW path \in Names, path = target PROVE Kept'
      BY DEF ProjectOpened, Places, Types
    <2>1. files[<<path, "project">>] \in Contents /\ project' = files[<<path, "project">>]
      BY DEF ProjectOpened, Places, Types, Kinds, Complete
    <2>2. /\ saved'[path] = project'.version
          /\ \A name \in Names \ {path} :
                saved'[name] = saved[name] /\ (name \in spoiled' <=> name \in spoiled)
      BY <2>1 DEF ProjectOpened, Types
    <2>3. auto' = "off" /\ UNCHANGED <<files, faults>> /\ projectFile' = path
      BY DEF ProjectOpened, Places, counts
    <2>4. P(path)'
      <3>1. Complete(project') /\ project'.version >= project'.version
        BY <2>1, ContentsAreComplete
      <3> QED  BY <2>1, <2>2, <2>3, <3>1 DEF P, Good, Complete
    <2> QED  BY <2>1, <2>2, <2>3, <2>4, RewrittenIsKept DEF Promised, Types
  <1> QED  BY <1>1, <1>2, <1>3, <1>4, <1>5

(* The project in memory is newer than all files. *)
LEMMA EditStep == ASSUME IInv, NEW size \in Sizes, Edit(size) PROVE IInv'
  <1> USE ProjectFileAssumption DEF IInv, promises, Promise
  <1>1. Types'
    BY DEF Edit, Types, Project, disk, saving, control, Contents, Kinds, Loaded
  <1>2. Versions'
    BY DEF Edit, Versions, Types, Places, Project, disk, saving, control, Contents, Kinds,
           File, Loaded, Complete
  <1>3. Places'
    BY DEF Edit, Places, Types, Project, disk, saving, control, Contents, Kinds, File, Loaded,
           Complete
  <1>4. Pauses'
    BY DEF Edit, Pauses, PauseEnds, Places, Types, Project, disk, saving, control, Loaded
  <1>5. Kept'
    BY LeftAloneIsKept DEF Promised, Edit, Types, Places, Project, disk, saving, control, Contents,
           Kinds, Loaded
  <1> QED  BY <1>1, <1>2, <1>3, <1>4, <1>5

(* The timer is made or destroyed while nothing is going on. *)
LEMMA SettingsChangedStep == ASSUME IInv, SettingsChanged PROVE IInv'
  <1> USE ProjectFileAssumption DEF IInv, promises, Promise
  <1>1. Types'
    BY DEF SettingsChanged, Types, disk, saving, counts, Contents, Kinds
  <1>2. Versions'
    BY DEF SettingsChanged, Versions, Types, Places, disk, saving, counts, Contents, Kinds,
           File, Loaded, Complete
  <1>3. Places'
    BY DEF SettingsChanged, Places, Types, disk, saving, counts, Contents, Kinds, File, Loaded,
           Complete
  <1>4. Pauses'
    BY DEF SettingsChanged, Pauses, PauseEnds, Places, Types, disk, saving, counts, Loaded
  <1>5. Kept'
    BY LeftAloneIsKept DEF Promised, SettingsChanged, Types, Places, disk, saving, counts, Contents,
           Kinds, Loaded
  <1> QED  BY <1>1, <1>2, <1>3, <1>4, <1>5

(* Whatever phase the files were in, one that is good is left. *)
LEMMA CrashStep == ASSUME IInv, Crash PROVE IInv'
  <1> USE ProjectFileAssumption DEF IInv, promises, Promise
  <1>1. Types'
    BY DEF Crash, Types, disk, Contents, Kinds
  <1>2. Versions'
    BY DEF Crash, Versions, Types, Places, disk, Contents, Kinds, File, Loaded, Complete
  <1>3. Places'
    BY DEF Crash, Places, Types, disk, Contents, Kinds, File, Loaded, Complete
  <1>4. Pauses'
    BY DEF Crash, Pauses, PauseEnds, Places, Types, disk, Loaded
  <1>5. Kept'
    BY LeftAloneIsKept DEF Promised, Crash, Types, Places, disk, Contents, Kinds, Loaded
  <1> QED  BY <1>1, <1>2, <1>3, <1>4, <1>5

-----------------------------------------------------------------------------
(* The steps of autosaving. *)

(* The unnamed autosave is nobody's file. *)
LEMMA UnnamedPut ==
    ASSUME Types, NEW content, Put(<<Unnamed, "project">>, content)
    PROVE  faults' = faults /\ Only(Unnamed, "project")
  BY ProjectFileAssumption, PutIsOnly DEF Kinds

(* The copy beside the file is begun: the file or its backup is good. *)
LEMMA AutoSaveProjectKept == ASSUME IInv, AutoSaveProject PROVE Kept'
  <1> USE ProjectFileAssumption DEF IInv, promises, Promise
  <1>1. UNCHANGED <<promises, projectFile>> /\ auto = "off" /\ auto' \in {"off", "write"}
    BY DEF AutoSaveProject, AutoSame
  <1>2. CASE Fail
    <2>1. files' = files /\ faults' = faults + 1
      BY <1>2 DEF Fail
    <2>2. ASSUME NEW path \in Names, KeptHow(path) PROVE KeptHow(path)'
      BY <1>1, <2>1, <2>2, NothingAsGood DEF KeptHow, Types
    <2> QED  BY <1>1, <2>1, <2>2, AutosavedIsKept DEF Types, Kinds
  <1>3. CASE Put(AutoAt, Broken) /\ projectFile = None
    <2>1. Put(<<Unnamed, "project">>, Broken)
      BY <1>3 DEF AutoAt
    <2>2. faults' = faults /\ Only(Unnamed, "project")
      BY <2>1, PutIsOnly DEF Kinds
    <2> QED  BY <1>1, <1>3, <2>2, AutosavedIsKept DEF Types, Kinds
  <1>4. CASE Put(AutoAt, Broken) /\ projectFile # None
    <2> SUFFICES ASSUME NEW path \in Names, path = projectFile PROVE Kept'
      BY <1>4 DEF Types
    <2>1. Put(<<path, "as">>, Broken)
      BY <1>4 DEF AutoAt
    <2>2. faults' = faults /\ Only(path, "as")
      BY <2>1, PutIsOnly DEF Kinds
    <2>3. (P(path)' <=> P(path)) /\ (B(path)' <=> B(path))
      BY <1>1, <2>2, OthersAsGood DEF Kinds
    <2>4. KeptHow(path) => KeptHow(path)'
      BY <1>1, <2>2, <2>3 DEF KeptHow
    <2> QED  BY <1>1, <2>2, <2>4, AutosavedIsKept DEF Types, Kinds
  <1> QED  BY <1>2, <1>3, <1>4 DEF AutoSaveProject

(* The copy beside the file is good once it is written. *)
LEMMA AutoWrittenKept == ASSUME IInv, AutoWritten PROVE Kept'
  <1> USE ProjectFileAssumption DEF IInv, promises, Promise
  <1>1. UNCHANGED <<promises, projectFile>> /\ auto = "write" /\ project \in Contents
    BY DEF AutoWritten, AutoSame, Places, Types, Loaded
  <1>2. CASE projectFile = None
    <2>1. \/ files' = files /\ faults' = faults + 1
          \/ Only(Unnamed, "project") /\ faults' = faults
      BY <1>2, PutIsOnly, UnnamedPut DEF AutoWritten, AutoAt, Fail
    <2> QED  BY <1>1, <1>2, <2>1, AutosavedIsKept DEF Types, Kinds
  <1>3. CASE projectFile # None
    <2> SUFFICES ASSUME NEW path \in Names, path = projectFile PROVE Kept'
      BY <1>3 DEF Types
    <2>1. auto' = "clear"
      BY <1>3 DEF AutoWritten, AutoGoes
    <2>2. CASE Put(<<path, "as">>, project)
      <3>1. faults' = faults /\ files'[<<path, "as">>] = project /\ Only(path, "as")
        BY <2>2, PutIsOnly DEF Kinds
      <3>2. A(path)'
        BY <1>1, <1>3, <3>1, ContentsAreComplete DEF A, Good, Complete, Versions
      <3>3. (P(path)' <=> P(path)) /\ (B(path)' <=> B(path))
        BY <1>1, <3>1, OthersAsGood DEF Kinds
      <3>4. KeptHow(path) => KeptHow(path)'
        BY <1>1, <2>1, <3>1, <3>2, <3>3 DEF KeptHow
      <3> QED  BY <1>1, <3>1, <3>4, AutosavedIsKept DEF Types, Kinds
    <2>3. CASE Fail
      <3>1. files' = files /\ faults' = faults + 1
        BY <2>3 DEF Fail
      <3>2. P(path)' <=> P(path)
        BY <1>1, <3>1, NothingAsGood
      <3>3. faults' <= 1 /\ KeptHow(path) => KeptHow(path)'
        BY <1>1, <2>1, <3>1, <3>2 DEF KeptHow, Types
      <3> QED  BY <1>1, <3>1, <3>3, AutosavedIsKept DEF Types, Kinds
    <2> QED  BY <1>3, <2>2, <2>3 DEF AutoWritten, AutoAt
  <1> QED  BY <1>2, <1>3

(* One file is removed or copied over, or cannot be. *)
LEMMA PhaseKept ==
    ASSUME IInv, NEW path \in Names, path = projectFile, NEW kind \in {"project", "as", "bak"},
           UNCHANGED <<promises, projectFile>>,
           \/ Only(path, kind) /\ faults' = faults
           \/ files' = files /\ faults' = faults + 1,
           faults' <= 1 /\ KeptHow(path) => KeptHow(path)'
    PROVE  Kept'
  BY AutosavedIsKept DEF IInv, Types, Kinds

(* The unnamed autosave is removed, which is no file of the project. *)
LEMMA AutoClearedKept == ASSUME IInv, AutoCleared PROVE Kept'
  <1> USE ProjectFileAssumption DEF IInv, promises, Promise
  <1>1. /\ UNCHANGED <<promises, projectFile>> /\ auto = "clear" /\ auto' = "bak"
        /\ projectFile \in Names
    BY DEF AutoCleared, AutoRemove, AutoSame, AutoGoes, Places, Types
  <1>2. CASE Put(UnnamedFile, Absent)
    <2>1. faults' = faults /\ Only(Unnamed, "project")
      BY <1>2, PutIsOnly DEF UnnamedFile, Kinds
    <2>2. ASSUME NEW path \in Names \ {Unnamed}, KeptHow(path) PROVE KeptHow(path)'
      <3>1. (P(path)' <=> P(path)) /\ (A(path)' <=> A(path)) /\ (B(path)' <=> B(path))
        BY <1>1, <2>1 DEF Only, P, A, B, Good, Complete, Kinds
      <3> QED  BY <1>1, <2>1, <2>2, <3>1 DEF KeptHow
    <2> QED  BY <1>1, <2>1, <2>2, AutosavedIsKept DEF Types, Kinds
  <1>3. CASE Fail
    <2>1. files' = files /\ faults' = faults + 1
      BY <1>3 DEF Fail
    <2>2. ASSUME NEW path \in Names, KeptHow(path) PROVE KeptHow(path)'
      BY <1>1, <2>1, <2>2, NothingAsGood DEF KeptHow, Types
    <2> QED  BY <1>1, <2>1, <2>2, AutosavedIsKept DEF Types, Kinds
  <1> QED  BY <1>2, <1>3 DEF AutoCleared, AutoRemove

(* There is the new copy, or the file that has nothing wrong, when the backup
   makes way; and two good ones when the file does, if nothing failed. *)
LEMMA AutoBackedUpKept == ASSUME IInv, AutoBackedUp PROVE Kept'
  <1> USE DEF IInv, promises
  <1>1. UNCHANGED <<promises, projectFile>> /\ projectFile \in Names
    BY DEF AutoBackedUp, AutoRemove, AutoCopy, AutoSame, disk, Places, Types
  <1> SUFFICES ASSUME NEW path \in Names, path = projectFile PROVE Kept'
    BY <1>1
  <1>2. CASE auto = "bak" /\ auto' = "bakCopy" /\ Put(<<path, "bak">>, Absent)
    <2>1. faults' = faults /\ Only(path, "bak")
      BY <1>2, PutIsOnly DEF Kinds
    <2>2. (P(path)' <=> P(path)) /\ (A(path)' <=> A(path))
      BY <1>1, <2>1, OthersAsGood DEF Kinds
    <2>3. KeptHow(path) => KeptHow(path)'
      BY <1>2, <2>1, <2>2 DEF KeptHow
    <2> QED  BY <1>1, <2>1, <2>3, PhaseKept
  <1>3. CASE auto \in {"bak", "bakCopy"} /\ auto' = "replace" /\ Fail
    <2>1. files' = files /\ faults' = faults + 1
      BY <1>3 DEF Fail
    <2>2. (A(path)' <=> A(path)) /\ (faults' <= 1 => faults = 0 /\ faults' # 0)
      BY <1>1, <2>1, NothingAsGood DEF Types
    <2>3. faults' <= 1 /\ KeptHow(path) => KeptHow(path)'
      BY <1>3, <2>2 DEF KeptHow
    <2> QED  BY <1>1, <2>1, <2>3, PhaseKept
  <1>4. CASE auto = "bak" /\ auto' = "replace" /\ File("project") = Absent /\ UNCHANGED disk
    <2>1. files' = files /\ faults' = faults /\ ~P(path)
      BY <1>4 DEF disk, File, P, Good, Complete
    <2>2. (A(path)' <=> A(path)) /\ (B(path)' <=> B(path))
      BY <1>1, <2>1, NothingAsGood
    <2>3. KeptHow(path) => KeptHow(path)'
      BY <1>4, <2>1, <2>2 DEF KeptHow
    <2> QED  BY <1>1, <2>1, <2>3, AutosavedIsKept DEF Types, Kinds
  <1>5. CASE /\ auto = "bakCopy" /\ auto' = "remove"
             /\ Put(<<path, "bak">>, files[<<path, "project">>])
    <2>1. /\ faults' = faults /\ Only(path, "bak")
          /\ files'[<<path, "bak">>] = files[<<path, "project">>]
      BY <1>5, PutIsOnly DEF Kinds
    <2>2. A(path)' <=> A(path)
      BY <1>1, <2>1, OthersAsGood DEF Kinds
    <2>3. P(path) => B(path)'
      BY <1>1, <2>1 DEF P, B, Good, Complete
    <2>4. KeptHow(path) => KeptHow(path)'
      BY <1>5, <2>1, <2>2, <2>3 DEF KeptHow
    <2> QED  BY <1>1, <2>1, <2>4, PhaseKept
  <1> QED  BY <1>2, <1>3, <1>4, <1>5 DEF AutoBackedUp, AutoRemove, AutoCopy, AutoGoes

(* If something fails here, nothing did before: the copy and the backup are good. *)
LEMMA AutoReplacedKept == ASSUME IInv, AutoReplaced PROVE Kept'
  <1> USE DEF IInv, promises
  <1>1. UNCHANGED <<promises, projectFile>> /\ projectFile \in Names
    BY DEF AutoReplaced, AutoRemove, AutoCopy, AutoSame, Places, Types
  <1> SUFFICES ASSUME NEW path \in Names, path = projectFile PROVE Kept'
    BY <1>1
  <1>2. CASE /\ auto \in {"remove", "replace"} /\ auto' \in {"replace", "copy"}
             /\ Put(<<path, "project">>, Absent)
    <2>1. faults' = faults /\ Only(path, "project")
      BY <1>2, PutIsOnly DEF Kinds
    <2>2. (A(path)' <=> A(path)) /\ (B(path)' <=> B(path))
      BY <1>1, <2>1, OthersAsGood DEF Kinds
    <2>3. KeptHow(path) => KeptHow(path)'
      BY <1>2, <2>1, <2>2 DEF KeptHow
    <2> QED  BY <1>1, <2>1, <2>3, PhaseKept
  <1>3. CASE auto \in {"remove", "replace", "copy"} /\ auto' \in {"replace", "off"} /\ Fail
    <2>1. files' = files /\ faults' = faults + 1
      BY <1>3 DEF Fail
    <2>2. (A(path)' <=> A(path)) /\ (B(path)' <=> B(path)) /\ (faults' <= 1 => faults = 0 /\ faults' # 0)
      BY <1>1, <2>1, NothingAsGood DEF Types
    <2>3. faults' <= 1 /\ KeptHow(path) => KeptHow(path)'
      BY <1>3, <2>2 DEF KeptHow
    <2> QED  BY <1>1, <2>1, <2>3, PhaseKept
  <1>4. CASE /\ auto = "copy" /\ auto' = "finish"
             /\ Put(<<path, "project">>, files[<<path, "as">>])
    <2>1. /\ faults' = faults /\ Only(path, "project")
          /\ files'[<<path, "project">>] = files[<<path, "as">>]
      BY <1>4, PutIsOnly DEF Kinds
    <2>2. B(path)' <=> B(path)
      BY <1>1, <2>1, OthersAsGood DEF Kinds
    <2>3. A(path) => P(path)'
      BY <1>1, <2>1 DEF P, A, Good, Complete
    <2>4. KeptHow(path) => KeptHow(path)'
      BY <1>4, <2>1, <2>2, <2>3 DEF KeptHow
    <2> QED  BY <1>1, <2>1, <2>4, PhaseKept
  <1> QED  BY <1>2, <1>3, <1>4 DEF AutoReplaced, AutoRemove, AutoCopy, AutoGoes, AutoEnds

(* The copy goes when the file has what it had. *)
LEMMA AutoFinishedKept == ASSUME IInv, AutoFinished PROVE Kept'
  <1> USE DEF IInv, promises
  <1>1. /\ UNCHANGED <<promises, projectFile>> /\ projectFile \in Names
        /\ auto = "finish" /\ auto' = "off"
    BY DEF AutoFinished, AutoEnds, AutoSame, Places, Types
  <1> SUFFICES ASSUME NEW path \in Names, path = projectFile PROVE Kept'
    BY <1>1
  <1>2. \/ Only(path, "as") /\ faults' = faults
        \/ files' = files /\ faults' = faults + 1
    BY PutIsOnly DEF AutoFinished, Fail, Kinds
  <1>3. (P(path)' <=> P(path)) /\ (B(path)' <=> B(path))
    BY <1>1, <1>2, OthersAsGood, NothingAsGood DEF Kinds
  <1>4. KeptHow(path) => KeptHow(path)'
    BY <1>1, <1>2, <1>3 DEF KeptHow, Types
  <1> QED  BY <1>1, <1>2, <1>4, PhaseKept

-----------------------------------------------------------------------------
(* What is written is nothing, cut off, the project or a copy: of a project
   that there has been, whatever is written. *)
Sane(content) ==
    /\ content \in Contents \cup {Absent, Broken}
    /\ Complete(content) => content.version <= version

(* So the files stay of their type and not newer than the last edit. *)
LEMMA SanePut ==
    ASSUME IInv, NEW path \in Names \X Kinds, NEW content, Sane(content), Put(path, content)
    PROVE  /\ files' \in [Names \X Kinds -> Contents \cup {Absent, Broken}] /\ faults' \in Nat
           /\ \A any \in Names \X Kinds :
                 Complete(files'[any]) => files'[any].version <= version
  BY DEF IInv, Put, Types, Versions, Sane

(* An operation that fails changes nothing, *)
LEMMA SaneFail ==
    ASSUME IInv, Fail \/ UNCHANGED disk
    PROVE  /\ files' \in [Names \X Kinds -> Contents \cup {Absent, Broken}] /\ faults' \in Nat
           /\ \A any \in Names \X Kinds :
                 Complete(files'[any]) => files'[any].version <= version
  BY DEF IInv, Fail, disk, Types, Versions

(* and what there is may be copied. *)
LEMMA SaneContents ==
    ASSUME IInv
    PROVE  /\ Sane(Absent) /\ Sane(Broken) /\ (Loaded => Sane(project))
           /\ \A path \in Names \X Kinds : Sane(files[path])
  BY DEF IInv, Sane, Complete, Types, Versions, Loaded

(* Autosaving changes the files, the phase and the timer, nothing else. *)
LEMMA AutoSaveStep == ASSUME IInv, AutoSave PROVE IInv'
  <1> USE ProjectFileAssumption DEF IInv, promises, Promise
  <1>1. /\ UNCHANGED <<project, projectFile, pc, saving, cause, counts, promises>> /\ Loaded
        /\ pc \in {"idle", "saveDialog"}
    BY DEF AutoSave, AutoSaveProject, AutoWritten, AutoCleared, AutoBackedUp, AutoReplaced,
           AutoFinished, AutoRemove, AutoCopy, AutoSame, disk, Places, Types, Loaded
  <1>2. /\ \/ auto' = "off" /\ timer' \in {"on", timer}
           \/ auto' # "off" /\ timer' = "blocked"
        /\ auto = "off" => timer = "on"
        /\ auto' \in {"off", "write", "clear", "bak", "bakCopy", "remove", "replace", "copy", "finish"}
        /\ auto' \notin {"off", "write"} => projectFile # None
        /\ auto # "off" /\ auto' = "off" => timer' = "on"
    BY DEF AutoSave, AutoSaveProject, AutoWritten, AutoCleared, AutoBackedUp, AutoReplaced,
           AutoFinished, AutoRemove, AutoCopy, AutoEnds, AutoGoes, Places, Pauses
  <1>3. /\ files' \in [Names \X Kinds -> Contents \cup {Absent, Broken}] /\ faults' \in Nat
        /\ \A path \in Names \X Kinds : Complete(files'[path]) => files'[path].version <= version
    <2>1. CASE AutoSaveProject
      <3>1. AutoAt \in Names \X Kinds
        BY DEF AutoAt, Types, Kinds
      <3> QED  BY <2>1, <3>1, SaneContents, SanePut, SaneFail DEF AutoSaveProject
    <2>2. CASE AutoWritten
      <3>1. AutoAt \in Names \X Kinds
        BY DEF AutoAt, Types, Kinds
      <3> QED  BY <1>1, <2>2, <3>1, SaneContents, SanePut, SaneFail DEF AutoWritten
    <2>3. CASE AutoCleared
      <3>1. UnnamedFile \in Names \X Kinds
        BY DEF UnnamedFile, Kinds
      <3> QED  BY <2>3, <3>1, SaneContents, SanePut, SaneFail DEF AutoCleared, AutoRemove
    <2>4. CASE AutoBackedUp \/ AutoReplaced \/ AutoFinished
      <3>1. projectFile \in Names
        BY <2>4 DEF AutoBackedUp, AutoReplaced, AutoFinished, AutoRemove, AutoCopy, Places, Types
      <3>2. \A kind \in {"project", "as", "bak"} : <<projectFile, kind>> \in Names \X Kinds
        BY <3>1 DEF Kinds
      <3> QED  BY <2>4, <3>2, SaneContents, SanePut, SaneFail
               DEF AutoBackedUp, AutoReplaced, AutoFinished, AutoRemove, AutoCopy
    <2> QED  BY <2>1, <2>2, <2>3, <2>4 DEF AutoSave
  <1>4. Types'
    BY <1>1, <1>3 DEF Types, saving, counts
  <1>5. Versions'
    BY <1>1, <1>3 DEF Versions, Loaded, counts
  <1>6. Places'
    BY <1>1, <1>2 DEF Places, Loaded, saving
  <1>7. Pauses'
    BY <1>1, <1>2 DEF Pauses, PauseEnds, Loaded, saving
  <1>8. Kept'
    BY AutoSaveProjectKept, AutoWrittenKept, AutoClearedKept, AutoBackedUpKept, AutoReplacedKept,
       AutoFinishedKept DEF AutoSave
  <1> QED  BY <1>4, <1>5, <1>6, <1>7, <1>8

(* No file is there, and none was said to be. *)
LEMMA InitIInv == Init => IInv
  BY ProjectFileAssumption
     DEF Init, IInv, Types, Versions, Places, Pauses, PauseEnds, Kept, Promised, Loaded, Complete, Kinds

(* A stutter. *)
LEMMA UnchangedStep == ASSUME IInv, UNCHANGED vars PROVE IInv'
  <1> USE DEF IInv, vars, disk, promises, control, saving, counts
  <1>1. Types' /\ Versions' /\ Places' /\ Pauses'
    BY DEF Types, Versions, Places, Pauses, PauseEnds, Loaded, File, Complete
  <1>2. Kept'
    BY LeftAloneIsKept DEF Promised, Types
  <1> QED  BY <1>1, <1>2

(* All steps together. *)
LEMMA StepIInv == IInv /\ [User \/ Steps \/ AutoSave \/ Crash]_vars => IInv'
  <1> SUFFICES ASSUME IInv, [User \/ Steps \/ AutoSave \/ Crash]_vars PROVE IInv'
    OBVIOUS
  <1>1. CASE User
    BY <1>1, SaveProjectTriggeredStep, SaveProjectAsTriggeredStep, SaveDialogAcceptedStep,
       OpenProjectStep, SaveDialogCancelledStep, OpenDialogCancelledStep, DialogsCancelledStep,
       CloseProjectInteractiveStep, SaveAnsweredStep, DiscardAnsweredStep, CancelAnsweredStep,
       NewProjectCreatedStep, EditStep, ProjectOpenedStep, SettingsChangedStep
    DEF User
  <1>2. CASE Steps
    BY <1>2, SavedStep, BackupWrittenStep, FilesComparedStep DEF Steps
  <1> QED  BY <1>1, <1>2, AutoSaveStep, CrashStep, UnchangedStep

(* The invariant implies what the run checks. *)
LEMMA IInvIsEnough == IInv => SavedIsKept /\ PauseEnds
  <1> SUFFICES ASSUME IInv, faults <= 1, NEW name \in Names \ {Unnamed}, Promised(name)
               PROVE  Recoverable(name)
    BY DEF IInv, SavedIsKept, Pauses, Promised
  <1>1. IF name = projectFile THEN KeptHow(name) ELSE Recoverable(name)
    BY DEF IInv, Kept
  <1> QED  BY <1>1, KeptHowIsEnough DEF IInv

(* Autosaving, closing, crashes and one operation that fails never lose what
   the user was told is saved (QAutoSaveTimer::autoSaveProject, MainWindow), but
   for the cases SavedIsKept excepts: while the file is written in place, the
   unnamed autosave, and a Backup cut off unnoticed that closing with Save puts
   over the file.  Up to that answer the file is as good as it was. *)
THEOREM NothingSavedIsLost == Spec => []SavedIsKept
  BY InitIInv, StepIInv, IInvIsEnough, PTL DEF Spec

(* No dialog and no way out of one leaves the autosave timer paused while a
   project is loaded (MainWindow, closeProjectInteractive and others). *)
THEOREM PausesEnd == Spec => []PauseEnds
  BY InitIInv, StepIInv, IInvIsEnough, PTL DEF Spec

-----------------------------------------------------------------------------
(* The dialog that relinks the files of a project. *)

Answered == \A i \in DOMAIN responses : responses[i].status = Status(responses[i].path)
Originals == \A r, s \in Rows : items[r].orig = items[s].orig => r = s

(* Pending statuses are served, also those of the committed paths of rows that
   are yet to be asked for; until then a status is that of the path asked for. *)
PendingServed ==
    \A r \in Rows :
        /\ r \notin todo /\ items[r].uncommittedStatus = "StatusUpdatePending" =>
               Served(items[r].uncommittedPath, r)
        /\ items[r].committedStatus = "StatusUpdatePending" =>
               \/ Served(items[r].committedPath, r)
               \/ r \in todo /\ items[r].committedPath = items[r].uncommittedPath

RelinkingInv ==
    TypeOK /\ PendingServed /\ Answered /\ StatusOfPath /\ CommittedIsRelinked /\ Originals

ItemType == [orig : Paths, committedPath : Paths, uncommittedPath : Paths,
             committedStatus : Statuses, uncommittedStatus : Statuses]

(* One element of a list is taken out. *)
LEMMA RemoveAtOf ==
    ASSUME NEW S, NEW q \in Seq(S), NEW i \in 1 .. Len(q)
    PROVE  /\ RemoveAt(q, i) \in Seq(S) /\ Len(RemoveAt(q, i)) = Len(q) - 1
           /\ \A j \in 1 .. Len(q) - 1 : RemoveAt(q, i)[j] = IF j < i THEN q[j] ELSE q[j + 1]
  <1>1. Len(q) \in Nat /\ \A j \in 1 .. Len(q) : q[j] \in S
    BY LenProperties
  <1> DEFINE a == SubSeq(q, 1, i - 1)
             b == SubSeq(q, i + 1, Len(q))
  <1>2. a \in Seq(S) /\ Len(a) = i - 1 /\ \A j \in 1 .. i - 1 : a[j] = q[j]
    <2>1. \A j \in 1 .. i - 1 : q[j] \in S
      BY <1>1
    <2> QED  BY <2>1, <1>1, SubSeqProperties
  <1>3. b \in Seq(S) /\ Len(b) = Len(q) - i /\ \A j \in 1 .. Len(q) - i : b[j] = q[j + i]
    <2>1. \A j \in i + 1 .. Len(q) : q[j] \in S
      BY <1>1
    <2> QED  BY <2>1, <1>1, SubSeqProperties
  <1> HIDE DEF a, b
  <1>4. /\ a \o b \in Seq(S) /\ Len(a \o b) = Len(a) + Len(b)
        /\ \A j \in 1 .. Len(a) + Len(b) : (a \o b)[j] = IF j <= Len(a) THEN a[j] ELSE b[j - Len(a)]
    BY <1>2, <1>3, ConcatProperties
  <1>5. RemoveAt(q, i) = a \o b
    BY DEF RemoveAt, a, b
  <1>6. \A j \in 1 .. Len(q) - 1 : (a \o b)[j] = IF j < i THEN q[j] ELSE q[j + 1]
    <2> SUFFICES ASSUME NEW j \in 1 .. Len(q) - 1
                 PROVE  (a \o b)[j] = IF j < i THEN q[j] ELSE q[j + 1]
      OBVIOUS
    <2>1. CASE j < i
      BY <1>1, <1>2, <1>3, <1>4, <2>1
    <2>2. CASE ~(j < i)
      <3>1. j - (i - 1) \in 1 .. Len(q) - i /\ (j - (i - 1)) + i = j + 1
        BY <1>1, <2>2
      <3>2. (a \o b)[j] = b[j - (i - 1)]
        BY <1>1, <1>2, <1>3, <1>4, <2>2
      <3> QED  BY <1>3, <2>2, <3>1, <3>2
    <2> QED  BY <2>1, <2>2
  <1> QED  BY <1>1, <1>2, <1>3, <1>4, <1>5, <1>6

(* Some element of a list is put at its end: all stay. *)
LEMMA MovedToEnd ==
    ASSUME NEW S, NEW q \in Seq(S), NEW k \in 1 .. Len(q)
    PROVE  /\ Append(RemoveAt(q, k), q[k]) \in Seq(S)
           /\ Range(q) \subseteq Range(Append(RemoveAt(q, k), q[k]))
  <1> DEFINE n == Len(q)
             r == RemoveAt(q, k)
             e == Append(r, q[k])
  <1>1. n \in Nat /\ DOMAIN q = 1 .. n /\ q[k] \in S /\ k \in 1 .. n
    BY LenProperties
  <1>2. /\ r \in Seq(S) /\ Len(r) = n - 1
        /\ \A j \in 1 .. n - 1 : r[j] = IF j < k THEN q[j] ELSE q[j + 1]
    BY RemoveAtOf
  <1> HIDE DEF r, n
  <1>3. e \in Seq(S) /\ Len(e) = n /\ e[n] = q[k] /\ \A j \in 1 .. n - 1 : e[j] = r[j]
    BY <1>1, <1>2, AppendProperties
  <1> HIDE DEF e
  <1>4. DOMAIN e = 1 .. n
    BY <1>1, <1>3, LenProperties
  <1>5. ASSUME NEW j \in 1 .. n PROVE \E i \in 1 .. n : e[i] = q[j]
    <2>1. CASE j < k
      <3>1. j \in 1 .. n - 1 /\ e[j] = q[j]
        BY <1>1, <1>2, <1>3, <2>1
      <3> QED  BY <3>1
    <2>2. CASE j = k
      <3>1. n \in 1 .. n
        BY <1>1
      <3> QED  BY <1>3, <2>2, <3>1
    <2>3. CASE j > k
      <3>1. j - 1 \in 1 .. n - 1 /\ ~(j - 1 < k) /\ (j - 1) + 1 = j
        BY <1>1, <2>3
      <3>2. e[j - 1] = q[j]
        BY <1>2, <1>3, <3>1
      <3> QED  BY <1>1, <3>1, <3>2
    <2> QED  BY <1>1, <2>1, <2>2, <2>3
  <1>6. Range(q) \subseteq Range(e)
    BY <1>1, <1>4, <1>5 DEF Range
  <1> QED  BY <1>3, <1>6 DEF e, r

(* A request is put at the end of the tasks, or the one of its path is. *)
LEMMA RequestStays ==
    ASSUME TypeOK, NEW asked \in Requests,
           tasks' = IF asked.path \in QueuedPaths THEN AskAgain(asked.path) ELSE Append(tasks, asked)
    PROVE  tasks' \in Seq(Requests) /\ Range(tasks) \subseteq Range(tasks')
  <1>1. tasks \in Seq(Requests) /\ Len(tasks) \in Nat /\ DOMAIN tasks = 1 .. Len(tasks)
    BY LenProperties DEF TypeOK
  <1>2. CASE asked.path \in QueuedPaths
    <2> DEFINE k == PlaceOf(asked.path)
    <2>1. \E j \in DOMAIN tasks : tasks[j].path = asked.path
      BY <1>2 DEF QueuedPaths
    <2>2. k \in 1 .. Len(tasks)
      BY <1>1, <2>1 DEF PlaceOf
    <2>3. tasks' = Append(RemoveAt(tasks, k), tasks[k])
      BY <1>2 DEF AskAgain
    <2> HIDE DEF k
    <2> QED  BY <1>1, <2>2, <2>3, MovedToEnd
  <1>3. CASE asked.path \notin QueuedPaths
    <2>1. tasks' = Append(tasks, asked)
      BY <1>3
    <2>2. tasks' \in Seq(Requests) /\ Len(tasks') = Len(tasks) + 1 /\ \A j \in 1 .. Len(tasks) : tasks'[j] = tasks[j]
      BY <1>1, <2>1, AppendProperties
    <2>3. DOMAIN tasks' = 1 .. Len(tasks')
      BY <2>2, LenProperties
    <2> QED  BY <1>1, <2>2, <2>3 DEF Range
  <1> QED  BY <1>2, <1>3

(* What is under way for a path and a row stays under way. *)
UnderWayStays == \A path \in Paths, row \in Rows : Served(path, row) => Served(path, row)'

LEMMA Unserved ==
    ASSUME UNCHANGED <<responses, tasks, task, dropped>>, place = "work" => place' = "work"
    PROVE  UnderWayStays
  BY DEF UnderWayStays, Served

LEMMA InitRelinking == RelinkingInit => RelinkingInv
  <1> SUFFICES ASSUME RelinkingInit PROVE RelinkingInv
    OBVIOUS
  <1>1. PICK orig \in [Rows -> Paths] :
          /\ IsInjective(orig)
          /\ items = [r \in Rows |->
                 [orig |-> orig[r],
                  committedPath |-> orig[r], uncommittedPath |-> orig[r],
                  committedStatus |-> "StatusUpdatePending",
                  uncommittedStatus |-> "StatusUpdatePending"]]
    BY DEF RelinkingInit
  <1>2. \A r \in Rows : /\ items[r] \in ItemType /\ items[r].orig = orig[r]
                        /\ items[r].committedPath = orig[r] /\ items[r].uncommittedPath = orig[r]
                        /\ items[r].committedStatus = "StatusUpdatePending"
                        /\ items[r].uncommittedStatus = "StatusUpdatePending"
    BY <1>1 DEF ItemType, Statuses
  <1>3. items \in [Rows -> ItemType]
    BY <1>1, <1>2
  <1>4. /\ relinker = [p \in Paths |-> p] /\ haveUncommitted = TRUE /\ error = FALSE /\ todo = Rows
        /\ responses = <<>> /\ tasks = <<>> /\ processed = NoPath /\ exiting = FALSE
        /\ place = "none" /\ task = NoTask /\ tries = 0 /\ exists \in [Paths -> BOOLEAN] /\ dropped = {}
    BY DEF RelinkingInit
  <1>5. /\ responses \in Seq([path : Paths, row : Rows, status : Statuses]) /\ tasks \in Seq(Requests)
        /\ DOMAIN responses = {}
    BY <1>4
  <1>6. TypeOK
    <2>1. tries \in 0 .. Replacements /\ relinker \in [Paths -> Paths]
      BY <1>4, RelinkingAssumption
    <2>2. items \in [Rows -> [orig : Paths, committedPath : Paths, uncommittedPath : Paths,
                             committedStatus : Statuses, uncommittedStatus : Statuses]]
      BY <1>3 DEF ItemType
    <2> QED  BY <1>4, <1>5, <2>1, <2>2 DEF TypeOK
  <1>7. Originals
    BY <1>1, <1>2 DEF Originals, IsInjective
  <1>8. PendingServed /\ Answered
    BY <1>2, <1>4, <1>5 DEF PendingServed, Answered
  <1>9. StatusOfPath /\ CommittedIsRelinked
    <2>1. \A r \in Rows : orig[r] \in Paths
      BY <1>1
    <2> QED  BY <1>2, <1>4, <2>1 DEF StatusOfPath, CommittedIsRelinked
  <1> QED  BY <1>6, <1>7, <1>8, <1>9 DEF RelinkingInv

(* The status of a row's path is asked for. *)
LEMMA RequestKeeps == RelinkingInv /\ RequestStatusUpdate => RelinkingInv'
  <1> SUFFICES ASSUME RelinkingInv, RequestStatusUpdate PROVE RelinkingInv'
    OBVIOUS
  <1>1. PICK row \in todo :
            LET path == items[row].uncommittedPath
                asked == [path |-> path, row |-> row]
            IN  /\ todo' = todo \ {row}
                /\ \/ /\ path = processed
                      /\ dropped' = dropped \cup {asked}
                      /\ UNCHANGED <<tasks, place>>
                   \/ /\ path # processed
                      /\ tasks' = IF path \in QueuedPaths THEN AskAgain(path)
                                  ELSE Append(tasks, asked)
                      /\ dropped' = IF asked \in Range(tasks')
                                    THEN dropped \ {asked} ELSE dropped \cup {asked}
                      /\ place' = IF place = "none" THEN "loop" ELSE WakeAll(place)
    BY DEF RequestStatusUpdate
  <1>p. PICK path : path = items[row].uncommittedPath
    OBVIOUS
  <1> DEFINE asked == [path |-> path, row |-> row]
  <1>2. /\ TypeOK /\ PendingServed /\ StatusOfPath /\ CommittedIsRelinked /\ Originals /\ Answered
    BY DEF RelinkingInv
  <1>3. /\ items' = items /\ relinker' = relinker /\ haveUncommitted' = haveUncommitted /\ error' = error
        /\ responses' = responses /\ processed' = processed /\ exiting' = exiting /\ task' = task
        /\ tries' = tries /\ exists' = exists
    BY DEF RequestStatusUpdate, model
  <1>4. row \in Rows /\ items[row] \in ItemType
    BY <1>2 DEF TypeOK, ItemType
  <1>5. path \in Paths /\ asked \in Requests /\ asked.path = path
    BY <1>4, <1>p DEF ItemType, Requests
  <1>6. todo' = todo \ {row} /\ \/ /\ dropped' = dropped \cup {asked}
                                   /\ UNCHANGED <<tasks, place>>
                                \/ /\ tasks' = IF path \in QueuedPaths THEN AskAgain(path)
                                               ELSE Append(tasks, asked)
                                   /\ dropped' = IF asked \in Range(tasks')
                                                 THEN dropped \ {asked} ELSE dropped \cup {asked}
                                   /\ place' = IF place = "none" THEN "loop" ELSE WakeAll(place)
    BY <1>1, <1>p
  <1> HIDE DEF asked
  <1>7. /\ tasks' \in Seq(Requests) /\ Range(tasks) \subseteq Range(tasks')
        /\ Range(tasks) \cup dropped \subseteq Range(tasks') \cup dropped'
        /\ asked \in Range(tasks') \cup dropped' /\ dropped' \subseteq dropped \cup {asked}
    <2>1. CASE UNCHANGED <<tasks, place>> /\ dropped' = dropped \cup {asked}
      BY <1>2, <2>1 DEF TypeOK
    <2>2. CASE /\ tasks' = IF path \in QueuedPaths THEN AskAgain(path) ELSE Append(tasks, asked)
               /\ dropped' = IF asked \in Range(tasks') THEN dropped \ {asked} ELSE dropped \cup {asked}
      <3>1. tasks' \in Seq(Requests) /\ Range(tasks) \subseteq Range(tasks')
        BY <1>2, <1>5, <2>2, RequestStays
      <3> QED  BY <2>2, <3>1
    <2> QED  BY <1>6, <2>1, <2>2
  <1>8. /\ place' \in {"none", "loop", "wait", "woken", "work", "posted", "done"}
        /\ place' \in {"work", "posted"} <=> place \in {"work", "posted"}
        /\ place = "work" => place' = "work"
    BY <1>2, <1>6 DEF TypeOK, WakeAll
  <1>9. TypeOK'
    <2>1. dropped' \subseteq Requests /\ todo' \subseteq Rows
      BY <1>2, <1>5, <1>6, <1>7 DEF TypeOK
    <2> QED  BY <1>2, <1>3, <1>7, <1>8, <2>1 DEF TypeOK
  <1>10. UnderWayStays
    BY <1>3, <1>7, <1>8 DEF UnderWayStays, Served
  <1>11. Served(path, row)'
    BY <1>7 DEF Served, asked
  <1>12. PendingServed'
    <2> SUFFICES ASSUME NEW r \in Rows
                 PROVE  /\ r \notin todo' /\ items[r].uncommittedStatus = "StatusUpdatePending" =>
                               Served(items[r].uncommittedPath, r)'
                        /\ items[r].committedStatus = "StatusUpdatePending" =>
                               \/ Served(items[r].committedPath, r)'
                               \/ r \in todo' /\ items[r].committedPath = items[r].uncommittedPath
      BY <1>3 DEF PendingServed
    <2>1. items[r].uncommittedPath \in Paths /\ items[r].committedPath \in Paths
      BY <1>2 DEF TypeOK
    <2>2. r = row => items[r].uncommittedPath = path
      BY <1>p
    <2>3. Served(items[r].uncommittedPath, r) => Served(items[r].uncommittedPath, r)'
      BY <1>3, <1>10, <2>1 DEF UnderWayStays
    <2>4. Served(items[r].committedPath, r) => Served(items[r].committedPath, r)'
      BY <1>3, <1>10, <2>1 DEF UnderWayStays
    <2>5. r = row => (Served(items[r].uncommittedPath, r)' /\ (items[r].committedPath = path => Served(items[r].committedPath, r)'))
      BY <1>3, <1>11, <2>2
    <2>6. r \in todo' => r # row
      BY <1>6
    <2>7. r \notin todo' => r \notin todo \/ r = row
      BY <1>6
    <2> QED  BY <1>2, <2>2, <2>3, <2>4, <2>5, <2>6, <2>7 DEF PendingServed
  <1>13. Answered' /\ StatusOfPath' /\ CommittedIsRelinked' /\ Originals'
    BY <1>2, <1>3 DEF Answered, StatusOfPath, CommittedIsRelinked, Originals, Status
  <1> QED  BY <1>9, <1>12, <1>13 DEF RelinkingInv

(* Paths are sought elsewhere. *)
LEMMA ReplaceKeeps ==
    ASSUME RelinkingInv, NEW f \in Moves, Replace(f) PROVE RelinkingInv'
  <1> DEFINE path(r) == f[items[r].uncommittedPath]
             modified == {r \in Rows : path(r) # items[r].uncommittedPath}
  <1>1. /\ TypeOK /\ PendingServed /\ StatusOfPath /\ CommittedIsRelinked /\ Originals /\ Answered
    BY DEF RelinkingInv
  <1>2. /\ items' = [r \in Rows |->
                  IF r \notin modified THEN items[r]
                  ELSE [items[r] EXCEPT !.uncommittedPath = path(r),
                                        !.uncommittedStatus = "StatusUpdatePending"]]
        /\ haveUncommitted' = (haveUncommitted \/ modified # {})
        /\ todo = {} /\ todo' = modified /\ tries' = tries + 1 /\ tries < Replacements
        /\ error' = \E r, s \in Rows : r # s /\ path(r) = path(s)
    BY DEF Replace, AtRest
  <1>3. /\ relinker' = relinker /\ responses' = responses /\ exists' = exists /\ dropped' = dropped
        /\ tasks' = tasks /\ processed' = processed /\ exiting' = exiting /\ place' = place /\ task' = task
    BY DEF Replace, thread
  <1>4. ASSUME NEW r \in Rows
        PROVE  /\ items[r] \in ItemType /\ items'[r] \in ItemType /\ items'[r].orig = items[r].orig
               /\ items'[r].committedPath = items[r].committedPath
               /\ items'[r].committedStatus = items[r].committedStatus
               /\ r \in modified => items'[r].uncommittedStatus = "StatusUpdatePending"
               /\ r \notin modified => /\ items'[r].uncommittedStatus = items[r].uncommittedStatus
                                       /\ items'[r].uncommittedPath = items[r].uncommittedPath
    <2>1. items[r] \in ItemType
      BY <1>1 DEF TypeOK, ItemType
    <2>2. path(r) \in Paths
      BY <2>1 DEF Moves, ItemType
    <2>3. items'[r] = IF r \notin modified THEN items[r]
                      ELSE [items[r] EXCEPT !.uncommittedPath = path(r),
                                            !.uncommittedStatus = "StatusUpdatePending"]
      BY <1>2
    <2> DEFINE moved == path(r)
    <2> HIDE DEF modified, path, moved
    <2>4. CASE r \notin modified
      BY <2>1, <2>3, <2>4
    <2>5. CASE r \in modified
      <3>1. items'[r] = [items[r] EXCEPT !.uncommittedPath = moved, !.uncommittedStatus = "StatusUpdatePending"]
        BY <2>3, <2>5 DEF moved
      <3>2. moved \in Paths
        BY <2>2 DEF moved
      <3> QED  BY <2>1, <2>5, <3>1, <3>2 DEF ItemType, Statuses
    <2> QED  BY <2>4, <2>5
  <1>5. DOMAIN items' = Rows /\ items' = [r \in Rows |-> items'[r]]
    BY <1>2
  <1>6. modified \subseteq Rows
    OBVIOUS
  <1>12. (\E r, s \in Rows : r # s /\ path(r) = path(s)) \in BOOLEAN
    OBVIOUS
  <1> HIDE DEF modified, path
  <1>7. TypeOK'
    <2>1. items' \in [Rows -> ItemType]
      BY <1>4, <1>5
    <2>2. tries' \in 0 .. Replacements /\ todo' \subseteq Rows
      <3>1. tries \in 0 .. Replacements /\ Replacements \in Nat
        BY <1>1, RelinkingAssumption DEF TypeOK
      <3>2. tries' = tries + 1 /\ tries < Replacements /\ todo' = modified
        BY <1>2
      <3> QED  BY <1>6, <3>1, <3>2
    <2>3. error' \in BOOLEAN /\ haveUncommitted' \in BOOLEAN
      BY <1>1, <1>2, <1>12 DEF TypeOK
    <2> QED  BY <1>1, <1>3, <2>1, <2>2, <2>3 DEF TypeOK, ItemType
  <1>8. UnderWayStays
    BY <1>3, Unserved
  <1>9. PendingServed'
    <2> SUFFICES ASSUME NEW r \in Rows
                 PROVE  /\ r \notin todo' /\ items'[r].uncommittedStatus = "StatusUpdatePending" =>
                               Served(items[r].uncommittedPath, r)' 
                        /\ items'[r].committedStatus = "StatusUpdatePending" =>
                               Served(items[r].committedPath, r)'
      BY DEF PendingServed
    <2>1. items[r].uncommittedPath \in Paths /\ items[r].committedPath \in Paths
      BY <1>4 DEF ItemType
    <2>2. \A p \in Paths : Served(p, r) => Served(p, r)'
      BY <1>8 DEF UnderWayStays
    <2> QED  BY <1>1, <1>2, <1>4, <2>1, <2>2 DEF PendingServed
  <1>10. Answered' /\ Originals' /\ StatusOfPath'
    BY <1>1, <1>3, <1>4 DEF Answered, StatusOfPath, Originals, Status
  <1>11. CommittedIsRelinked'
    BY <1>1, <1>2, <1>3, <1>4, <1>6 DEF CommittedIsRelinked
  <1> QED  BY <1>7, <1>9, <1>10, <1>11 DEF RelinkingInv

(* A step that leaves the paths, and what is under way, as they are. *)
LEMMA ItemsKeep ==
    ASSUME RelinkingInv, items' = items,
           UNCHANGED <<relinker, haveUncommitted, todo, tries, exists, dropped, responses, exiting>>,
           UnderWayStays, TypeOK'
    PROVE  RelinkingInv'
  <1>1. /\ TypeOK /\ PendingServed /\ StatusOfPath /\ CommittedIsRelinked /\ Originals /\ Answered
    BY DEF RelinkingInv
  <1>2. PendingServed'
    <2> SUFFICES ASSUME NEW r \in Rows
                 PROVE  /\ r \notin todo /\ items[r].uncommittedStatus = "StatusUpdatePending" =>
                               Served(items[r].uncommittedPath, r)'
                        /\ items[r].committedStatus = "StatusUpdatePending" =>
                               \/ Served(items[r].committedPath, r)'
                               \/ r \in todo /\ items[r].committedPath = items[r].uncommittedPath
      BY DEF PendingServed
    <2>1. items[r].uncommittedPath \in Paths /\ items[r].committedPath \in Paths
      BY <1>1 DEF TypeOK
    <2>2. \A p \in Paths : Served(p, r) => Served(p, r)'
      BY DEF UnderWayStays
    <2> QED  BY <1>1, <2>1, <2>2 DEF PendingServed
  <1>3. Answered' /\ StatusOfPath' /\ CommittedIsRelinked' /\ Originals'
    BY <1>1 DEF Answered, StatusOfPath, CommittedIsRelinked, Originals, Status
  <1> QED  BY <1>2, <1>3 DEF RelinkingInv

(* What is committed is told to the relinker. *)
LEMMA CommitOf ==
    ASSUME RelinkingInv, todo = {}, CommitChanges, haveUncommitted' = FALSE,
           UNCHANGED <<todo, responses, tasks, processed, task, tries, exists, dropped>>,
           error' \in BOOLEAN, exiting' \in BOOLEAN, TypeOK => UnderWayStays,
           TypeOK => place' \in {"none", "loop", "wait", "woken", "work", "posted", "done"},
           place' \in {"work", "posted"} <=> place \in {"work", "posted"}
    PROVE  RelinkingInv'
  <1>1. /\ TypeOK /\ PendingServed /\ StatusOfPath /\ CommittedIsRelinked /\ Originals /\ Answered
    BY DEF RelinkingInv
  <1>2. /\ items' = [r \in Rows |->
           IF Uncommitted(r)
           THEN [items[r] EXCEPT !.committedPath = items[r].uncommittedPath,
                                 !.committedStatus = items[r].uncommittedStatus]
           ELSE items[r]]
        /\ relinker' = [p \in Paths |->
           IF \E r \in Rows : items[r].orig = p
           THEN LET r == CHOOSE r \in Rows : items[r].orig = p
                IN  IF items'[r] # items[r] THEN items'[r].committedPath ELSE relinker[p]
           ELSE relinker[p]]
    BY DEF CommitChanges
  <1>3. ASSUME NEW r \in Rows
        PROVE  /\ items[r] \in ItemType /\ items'[r] \in ItemType /\ items'[r].orig = items[r].orig
               /\ items'[r].uncommittedPath = items[r].uncommittedPath
               /\ items'[r].uncommittedStatus = items[r].uncommittedStatus
               /\ items'[r].committedPath = items[r].uncommittedPath
               /\ items'[r].committedStatus \in {items[r].committedStatus, items[r].uncommittedStatus}
               /\ items'[r] = items[r] => items'[r].committedStatus = items[r].committedStatus
               /\ items'[r] # items[r] => items'[r].committedStatus = items[r].uncommittedStatus
    <2>1. items[r] \in ItemType
      BY <1>1 DEF TypeOK, ItemType
    <2>2. CASE Uncommitted(r)
      <3>1. items'[r] = [items[r] EXCEPT !.committedPath = items[r].uncommittedPath,
                                         !.committedStatus = items[r].uncommittedStatus]
        BY <1>2, <2>2
      <3>2. items[r].committedPath # items[r].uncommittedPath
        BY <2>2 DEF Uncommitted
      <3>3. items'[r].committedPath = items[r].uncommittedPath
        BY <2>1, <3>1 DEF ItemType
      <3>4. items'[r] # items[r]
        BY <3>2, <3>3
      <3> QED  BY <2>1, <3>1, <3>4 DEF ItemType
    <2>3. CASE ~Uncommitted(r)
      <3>1. items'[r] = items[r]
        BY <1>2, <2>3
      <3>2. items[r].committedPath = items[r].uncommittedPath
        BY <1>1, <2>3 DEF Uncommitted, CommittedIsRelinked
      <3> QED  BY <2>1, <3>1, <3>2
    <2> QED  BY <2>2, <2>3
  <1>4. DOMAIN items' = Rows /\ items' = [r \in Rows |-> items'[r]]
    BY <1>2
  <1>5. items' \in [Rows -> ItemType]
    BY <1>3, <1>4
  <1>6. ASSUME NEW r \in Rows PROVE relinker'[items'[r].orig] = items'[r].committedPath
    <2> DEFINE p == items[r].orig
               c == CHOOSE s \in Rows : items[s].orig = p
    <2>1. p \in Paths /\ items'[r].orig = p
      BY <1>3 DEF ItemType
    <2>2. c = r
      BY <1>1 DEF Originals
    <2>3. relinker'[p] = IF items'[c] # items[c] THEN items'[c].committedPath ELSE relinker[p]
      <3>1. \E s \in Rows : items[s].orig = p
        OBVIOUS
      <3> HIDE DEF p
      <3> QED  BY <1>2, <2>1, <3>1
    <2> HIDE DEF c
    <2>4. relinker[p] = items[r].committedPath
      BY <1>1 DEF CommittedIsRelinked
    <2> HIDE DEF p
    <2>5. CASE items'[r] # items[r]
      BY <2>1, <2>2, <2>3, <2>5
    <2>6. CASE items'[r] = items[r]
      BY <2>1, <2>2, <2>3, <2>4, <2>6
    <2> QED  BY <2>5, <2>6
  <1>7. relinker' \in [Paths -> Paths]
    <2> SUFFICES ASSUME NEW p \in Paths PROVE relinker'[p] \in Paths
      BY <1>2
    <2>1. relinker[p] \in Paths
      BY <1>1 DEF TypeOK
    <2>2. CASE \E r \in Rows : items[r].orig = p
      <3>1. PICK r \in Rows : items[r].orig = p
        BY <2>2
      <3>2. relinker'[p] = items'[r].committedPath
        BY <1>3, <1>6, <3>1
      <3> QED  BY <1>3, <3>2 DEF ItemType
    <2>3. CASE ~(\E r \in Rows : items[r].orig = p)
      BY <1>2, <2>1, <2>3
    <2> QED  BY <2>2, <2>3
  <1>8. TypeOK'
    BY <1>1, <1>5, <1>7 DEF TypeOK, ItemType
  <1>9. PendingServed'
    <2> SUFFICES ASSUME NEW r \in Rows
                 PROVE  /\ items'[r].uncommittedStatus = "StatusUpdatePending" =>
                               Served(items[r].uncommittedPath, r)'
                        /\ items'[r].committedStatus = "StatusUpdatePending" =>
                               Served(items[r].committedPath, r)'
      BY DEF PendingServed
    <2>1. items[r].uncommittedPath \in Paths /\ items[r].committedPath \in Paths
      BY <1>3 DEF ItemType
    <2>2. \A p \in Paths : Served(p, r) => Served(p, r)'
      BY <1>1 DEF UnderWayStays
    <2>3. /\ items[r].uncommittedStatus = "StatusUpdatePending" => Served(items[r].uncommittedPath, r)
          /\ items[r].committedStatus = "StatusUpdatePending" => Served(items[r].committedPath, r)
      BY <1>1 DEF PendingServed
    <2>4. items'[r] = items[r] => items[r].committedPath = items[r].uncommittedPath
      BY <1>3
    <2> QED  BY <1>3, <2>1, <2>2, <2>3, <2>4
  <1>10. Answered' /\ Originals'
    BY <1>1, <1>3 DEF Answered, Originals, Status
  <1>11. StatusOfPath'
    <2> SUFFICES ASSUME NEW r \in Rows
                 PROVE  /\ items'[r].uncommittedStatus \in {"StatusUpdatePending", Status(items'[r].uncommittedPath)}
                        /\ items'[r].committedStatus \in {"StatusUpdatePending", Status(items'[r].committedPath)}
      BY DEF StatusOfPath, Status
    <2>1. /\ items[r].uncommittedStatus \in {"StatusUpdatePending", Status(items[r].uncommittedPath)}
          /\ items[r].committedStatus \in {"StatusUpdatePending", Status(items[r].committedPath)}
      BY <1>1 DEF StatusOfPath
    <2>2. items'[r] = items[r] => items[r].committedPath = items[r].uncommittedPath
      BY <1>3
    <2> QED  BY <1>3, <2>1, <2>2
  <1>12. CommittedIsRelinked'
    BY <1>3, <1>6 DEF CommittedIsRelinked
  <1> QED  BY <1>8, <1>9, <1>10, <1>11, <1>12 DEF RelinkingInv

(* What was tried is taken back. *)
LEMMA RollbackOf ==
    ASSUME RelinkingInv, todo = {}, RollbackChanges, haveUncommitted' = FALSE, error' = FALSE,
           UNCHANGED <<todo, responses, thread, tries, exists, dropped>>
    PROVE  RelinkingInv'
  <1>1. /\ TypeOK /\ PendingServed /\ StatusOfPath /\ CommittedIsRelinked /\ Originals /\ Answered
    BY DEF RelinkingInv
  <1>2. /\ items' = [r \in Rows |->
           IF Uncommitted(r)
           THEN [items[r] EXCEPT !.uncommittedPath = items[r].committedPath,
                                 !.uncommittedStatus = items[r].committedStatus]
           ELSE items[r]]
        /\ relinker' = relinker
    BY DEF RollbackChanges
  <1>3. ASSUME NEW r \in Rows
        PROVE  /\ items[r] \in ItemType /\ items'[r] \in ItemType /\ items'[r].orig = items[r].orig
               /\ items'[r].committedPath = items[r].committedPath
               /\ items'[r].committedStatus = items[r].committedStatus
               /\ items'[r].uncommittedPath = items[r].committedPath
               /\ \/ items'[r].uncommittedStatus = items[r].committedStatus
                  \/ /\ items'[r].uncommittedStatus = items[r].uncommittedStatus
                     /\ items[r].uncommittedPath = items[r].committedPath
    <2>1. items[r] \in ItemType
      BY <1>1 DEF TypeOK, ItemType
    <2>2. CASE Uncommitted(r)
      <3>1. items'[r] = [items[r] EXCEPT !.uncommittedPath = items[r].committedPath,
                                         !.uncommittedStatus = items[r].committedStatus]
        BY <1>2, <2>2
      <3> QED  BY <2>1, <3>1 DEF ItemType
    <2>3. CASE ~Uncommitted(r)
      <3>1. items'[r] = items[r]
        BY <1>2, <2>3
      <3>2. items[r].committedPath = items[r].uncommittedPath
        BY <1>1, <2>3 DEF Uncommitted, CommittedIsRelinked
      <3> QED  BY <2>1, <3>1, <3>2
    <2> QED  BY <2>2, <2>3
  <1>4. items' \in [Rows -> ItemType]
    <2>1. items' = [r \in Rows |-> items'[r]]
      BY <1>2
    <2> QED  BY <1>3, <2>1
  <1>5. /\ responses' = responses /\ tasks' = tasks /\ task' = task /\ place' = place /\ dropped' = dropped
        /\ processed' = processed /\ exiting' = exiting
    BY DEF thread
  <1>6. TypeOK'
    BY <1>1, <1>2, <1>4, <1>5 DEF TypeOK, ItemType
  <1>7. UnderWayStays
    BY <1>5, Unserved
  <1>8. PendingServed'
    <2> SUFFICES ASSUME NEW r \in Rows
                 PROVE  /\ items'[r].uncommittedStatus = "StatusUpdatePending" =>
                               Served(items[r].uncommittedPath, r)'
                        /\ items'[r].committedStatus = "StatusUpdatePending" =>
                               Served(items[r].committedPath, r)'
      BY DEF PendingServed
    <2>1. items[r].uncommittedPath \in Paths /\ items[r].committedPath \in Paths
      BY <1>3 DEF ItemType
    <2>2. \A p \in Paths : Served(p, r) => Served(p, r)'
      BY <1>7 DEF UnderWayStays
    <2>3. /\ items[r].uncommittedStatus = "StatusUpdatePending" => Served(items[r].uncommittedPath, r)
          /\ items[r].committedStatus = "StatusUpdatePending" => Served(items[r].committedPath, r)
      BY <1>1 DEF PendingServed
    <2> QED  BY <1>3, <2>1, <2>2, <2>3
  <1>9. Answered' /\ Originals'
    BY <1>1, <1>3, <1>5 DEF Answered, Originals, Status
  <1>10. StatusOfPath'
    <2> SUFFICES ASSUME NEW r \in Rows
                 PROVE  /\ items'[r].uncommittedStatus \in {"StatusUpdatePending", Status(items'[r].uncommittedPath)}
                        /\ items'[r].committedStatus \in {"StatusUpdatePending", Status(items'[r].committedPath)}
      BY DEF StatusOfPath, Status
    <2>1. /\ items[r].uncommittedStatus \in {"StatusUpdatePending", Status(items[r].uncommittedPath)}
          /\ items[r].committedStatus \in {"StatusUpdatePending", Status(items[r].committedPath)}
      BY <1>1 DEF StatusOfPath
    <2> QED  BY <1>3, <2>1
  <1>11. CommittedIsRelinked'
    BY <1>1, <1>2, <1>3 DEF CommittedIsRelinked
  <1> QED  BY <1>6, <1>8, <1>9, <1>10, <1>11 DEF RelinkingInv

LEMMA SelectKeeps == RelinkingInv /\ Select => RelinkingInv'
  <1> SUFFICES ASSUME RelinkingInv, Select PROVE RelinkingInv'
    OBVIOUS
  <1>1. /\ todo = {} /\ haveUncommitted' = FALSE /\ error' = FALSE
        /\ UNCHANGED <<todo, responses, thread, tries, exists, dropped>>
        /\ RollbackChanges \/ CommitChanges
    BY DEF Select, AtRest
  <1>2. UNCHANGED <<responses, tasks, processed, exiting, task, dropped, place>>
    BY <1>1 DEF thread
  <1>3. UnderWayStays
    BY <1>2, Unserved
  <1>4. TypeOK => /\ place' \in {"none", "loop", "wait", "woken", "work", "posted", "done"}
                  /\ exiting' \in BOOLEAN
    BY <1>2 DEF TypeOK
  <1>5. TypeOK
    BY DEF RelinkingInv
  <1>6. CASE CommitChanges
    BY <1>1, <1>2, <1>3, <1>4, <1>5, <1>6, CommitOf
  <1>7. CASE RollbackChanges
    BY <1>1, <1>7, RollbackOf
  <1> QED  BY <1>1, <1>6, <1>7

LEMMA DeselectKeeps == RelinkingInv /\ Deselect => RelinkingInv'
  <1> SUFFICES ASSUME RelinkingInv, Deselect PROVE RelinkingInv'
    OBVIOUS
  <1>1. /\ UNCHANGED <<items, relinker, haveUncommitted, todo, tries, exists, dropped, responses, exiting>>
        /\ UNCHANGED <<tasks, processed, task, place>> /\ error' = FALSE
    BY DEF Deselect, thread
  <1>2. UnderWayStays
    BY <1>1, Unserved
  <1>3. TypeOK'
    BY <1>1 DEF RelinkingInv, TypeOK
  <1> QED  BY <1>1, <1>2, <1>3, ItemsKeep

LEMMA UndoKeeps == RelinkingInv /\ Undo => RelinkingInv'
  BY RollbackOf DEF Undo, AtRest

(* The dialog closes. *)
LEMMA CloseKeeps == RelinkingInv /\ CloseDialog => RelinkingInv'
  <1> SUFFICES ASSUME RelinkingInv, CloseDialog PROVE RelinkingInv'
    OBVIOUS
  <1>1. TypeOK
    BY DEF RelinkingInv
  <1>2. /\ todo = {} /\ exiting' = TRUE /\ place' = WakeAll(place)
        /\ UNCHANGED <<error, todo, responses, tasks, processed, task, tries, exists, dropped>>
        /\ \/ CommitChanges /\ haveUncommitted' = FALSE
           \/ UNCHANGED <<items, relinker, haveUncommitted>>
    BY DEF CloseDialog, AtRest
  <1>3. /\ place' \in {"none", "loop", "wait", "woken", "work", "posted", "done"}
        /\ place' \in {"work", "posted"} <=> place \in {"work", "posted"}
        /\ place = "work" => place' = "work"
    BY <1>1, <1>2 DEF TypeOK, WakeAll
  <1>4. UnderWayStays
    BY <1>2, <1>3, Unserved
  <1>5. CASE CommitChanges /\ haveUncommitted' = FALSE
    <2>1. error' \in BOOLEAN /\ exiting' \in BOOLEAN
      BY <1>1, <1>2 DEF TypeOK
    <2> QED  BY <1>2, <1>3, <1>4, <1>5, <2>1, CommitOf
  <1>6. CASE UNCHANGED <<items, relinker, haveUncommitted>>
    <2>1. TypeOK'
      BY <1>1, <1>2, <1>3, <1>6 DEF TypeOK
    <2>2. PendingServed'
      <3> SUFFICES ASSUME NEW r \in Rows
                   PROVE  /\ items[r].uncommittedStatus = "StatusUpdatePending" =>
                                 Served(items[r].uncommittedPath, r)'
                          /\ items[r].committedStatus = "StatusUpdatePending" =>
                                 Served(items[r].committedPath, r)'
        BY <1>6 DEF PendingServed
      <3>1. items[r].uncommittedPath \in Paths /\ items[r].committedPath \in Paths
        BY <1>1 DEF TypeOK
      <3>2. \A p \in Paths : Served(p, r) => Served(p, r)'
        BY <1>4 DEF UnderWayStays
      <3> QED  BY <1>2, <1>6, <3>1, <3>2 DEF PendingServed, RelinkingInv
    <2>3. Answered' /\ StatusOfPath' /\ CommittedIsRelinked' /\ Originals'
      BY <1>2, <1>6 DEF RelinkingInv, Answered, StatusOfPath, CommittedIsRelinked, Originals, Status
    <2> QED  BY <2>1, <2>2, <2>3 DEF RelinkingInv
  <1> QED  BY <1>2, <1>5, <1>6

(* An answer comes, perhaps for a path the row no longer has. *)
LEMMA ResponseKeeps == RelinkingInv /\ Response => RelinkingInv'
  <1> SUFFICES ASSUME RelinkingInv, Response PROVE RelinkingInv'
    OBVIOUS
  <1>1. /\ TypeOK /\ PendingServed /\ StatusOfPath /\ CommittedIsRelinked /\ Originals /\ Answered
    BY DEF RelinkingInv
  <1>2. PICK answer : answer = Head(responses)
    OBVIOUS
  <1>3. /\ todo = {} /\ responses # <<>> /\ responses' = Tail(responses)
        /\ items' = [r \in Rows |->
              IF r # answer.row THEN items[r]
              ELSE [items[r] EXCEPT
                       !.uncommittedStatus =
                           IF Answers(answer, items[r].uncommittedPath) THEN answer.status ELSE @,
                       !.committedStatus =
                           IF Answers(answer, items[r].committedPath) THEN answer.status ELSE @]]
    BY <1>2 DEF Response, AtRest
  <1>4. /\ relinker' = relinker /\ haveUncommitted' = haveUncommitted /\ error' = error /\ todo' = todo
        /\ tasks' = tasks /\ processed' = processed /\ exiting' = exiting /\ place' = place /\ task' = task
        /\ tries' = tries /\ exists' = exists /\ dropped' = dropped
    BY DEF Response, thread
  <1> DEFINE Type == [path : Paths, row : Rows, status : Statuses]
  <1>m. PICK n : n = Len(responses)
    OBVIOUS
  <1>5. responses \in Seq(Type) /\ n \in Nat /\ DOMAIN responses = 1 .. n /\ n # 0
    BY <1>1, <1>3, <1>m, LenProperties, EmptySeq DEF TypeOK
  <1>6. /\ responses' \in Seq(Type) /\ Len(responses') = n - 1
        /\ \A i \in 1 .. n - 1 : responses'[i] = responses[i + 1]
        /\ answer = responses[1]
    <2> HIDE DEF Type
    <2>1. /\ Tail(responses) \in Seq(Type) /\ Len(Tail(responses)) = Len(responses) - 1
          /\ \A i \in 1 .. Len(Tail(responses)) : Tail(responses)[i] = responses[i + 1]
      BY <1>3, <1>5, HeadTailProperties
    <2>2. Head(responses) = responses[1]
      OBVIOUS
    <2> QED  BY <1>2, <1>3, <1>m, <2>1, <2>2
  <1>7. DOMAIN responses' = 1 .. n - 1
    BY <1>6, LenProperties
  <1>8. \A i \in 1 .. n : responses[i] \in Type /\ responses[i].status = Status(responses[i].path)
    BY <1>1, <1>5, LenProperties DEF Answered
  <1>9. 1 \in 1 .. n
    BY <1>5
  <1>10. answer \in Type /\ answer.status = Status(answer.path) /\ answer.status # "StatusUpdatePending"
    BY <1>6, <1>8, <1>9 DEF Status
  <1>11. ASSUME NEW r \in Rows
         PROVE  /\ items[r] \in ItemType /\ items'[r] \in ItemType
                /\ items'[r].orig = items[r].orig
                /\ items'[r].committedPath = items[r].committedPath
                /\ items'[r].uncommittedPath = items[r].uncommittedPath
                /\ items'[r].committedStatus =
                       IF r = answer.row /\ answer.path = items[r].committedPath
                       THEN answer.status ELSE items[r].committedStatus
                /\ items'[r].uncommittedStatus =
                       IF r = answer.row /\ answer.path = items[r].uncommittedPath
                       THEN answer.status ELSE items[r].uncommittedStatus
    <2>1. items[r] \in ItemType
      BY <1>1 DEF TypeOK, ItemType
    <2>2. CASE r # answer.row
      <3>1. items'[r] = items[r]
        BY <1>3, <2>2
      <3> QED  BY <2>1, <2>2, <3>1
    <2>3. CASE r = answer.row
      <3> DEFINE u == IF answer.path = items[r].uncommittedPath THEN answer.status ELSE items[r].uncommittedStatus
                 c == IF answer.path = items[r].committedPath THEN answer.status ELSE items[r].committedStatus
      <3>1. items'[r] = [items[r] EXCEPT !.uncommittedStatus = u, !.committedStatus = c]
        BY <1>3, <2>3 DEF Answers
      <3>2. u \in Statuses /\ c \in Statuses
        BY <1>10, <2>1 DEF ItemType
      <3>3. /\ u = IF r = answer.row /\ answer.path = items[r].uncommittedPath
                   THEN answer.status ELSE items[r].uncommittedStatus
            /\ c = IF r = answer.row /\ answer.path = items[r].committedPath
                   THEN answer.status ELSE items[r].committedStatus
        BY <2>3
      <3> HIDE DEF u, c
      <3> QED  BY <2>1, <3>1, <3>2, <3>3 DEF ItemType
    <2> QED  BY <2>2, <2>3
  <1>12. items' \in [Rows -> ItemType]
    <2>1. items' = [r \in Rows |-> items'[r]]
      BY <1>3
    <2> QED  BY <1>11, <2>1
  <1>13. TypeOK'
    BY <1>1, <1>4, <1>6, <1>12 DEF TypeOK, ItemType
  <1>14. ASSUME NEW p \in Paths, NEW r \in Rows, Served(p, r), ~(answer.row = r /\ answer.path = p)
         PROVE  Served(p, r)'
    <2>1. CASE \E i \in DOMAIN responses : responses[i].path = p /\ responses[i].row = r
      <3>1. PICK i \in 1 .. n : responses[i].path = p /\ responses[i].row = r
        BY <1>5, <2>1
      <3>2. i - 1 \in 1 .. n - 1 /\ (i - 1) + 1 = i
        BY <1>5, <1>6, <1>14, <3>1
      <3>3. responses'[i - 1].path = p /\ responses'[i - 1].row = r
        BY <1>6, <3>1, <3>2
      <3> QED  BY <1>7, <3>2, <3>3 DEF Served
    <2>2. CASE ~(\E i \in DOMAIN responses : responses[i].path = p /\ responses[i].row = r)
      BY <1>4, <1>14, <2>2 DEF Served
    <2> QED  BY <2>1, <2>2
  <1>15. PendingServed'
    <2> SUFFICES ASSUME NEW r \in Rows
                 PROVE  /\ items'[r].uncommittedStatus = "StatusUpdatePending" =>
                               Served(items[r].uncommittedPath, r)'
                        /\ items'[r].committedStatus = "StatusUpdatePending" =>
                               Served(items[r].committedPath, r)'
      BY DEF PendingServed
    <2>1. items[r].uncommittedPath \in Paths /\ items[r].committedPath \in Paths
      BY <1>11 DEF ItemType
    <2>2. \A p \in Paths : Served(p, r) /\ ~(answer.row = r /\ answer.path = p) => Served(p, r)'
      BY <1>14
    <2>3. /\ items[r].uncommittedStatus = "StatusUpdatePending" => Served(items[r].uncommittedPath, r)
          /\ items[r].committedStatus = "StatusUpdatePending" => Served(items[r].committedPath, r)
      BY <1>1, <1>3 DEF PendingServed
    <2> QED  BY <1>10, <1>11, <2>1, <2>2, <2>3
  <1>16. Answered'
    <2>1. \A i \in 1 .. n - 1 : responses'[i].status = Status(responses'[i].path)
      BY <1>5, <1>6, <1>8
    <2>2. \A i \in DOMAIN responses' : responses'[i].status = Status(responses'[i].path)
      BY <1>7, <2>1
    <2> QED  BY <1>4, <2>2 DEF Answered, Status
  <1>17. Originals' /\ CommittedIsRelinked'
    BY <1>1, <1>4, <1>11 DEF Originals, CommittedIsRelinked
  <1>18. StatusOfPath'
    <2> SUFFICES ASSUME NEW r \in Rows
                 PROVE  /\ items'[r].uncommittedStatus \in {"StatusUpdatePending", Status(items'[r].uncommittedPath)}
                        /\ items'[r].committedStatus \in {"StatusUpdatePending", Status(items'[r].committedPath)}
      BY <1>4 DEF StatusOfPath, Status
    <2>1. /\ items[r].uncommittedStatus \in {"StatusUpdatePending", Status(items[r].uncommittedPath)}
          /\ items[r].committedStatus \in {"StatusUpdatePending", Status(items[r].committedPath)}
      BY <1>1 DEF StatusOfPath
    <2> QED  BY <1>10, <1>11, <2>1
  <1> QED  BY <1>13, <1>15, <1>16, <1>17, <1>18 DEF RelinkingInv

(* The thread leaves the rows alone: what is under way must stay so. *)
LEMMA ThreadStep ==
    ASSUME RelinkingInv, TypeOK', UnderWayStays, Answered',
           UNCHANGED <<items, relinker, haveUncommitted, todo, exists>>
    PROVE  RelinkingInv'
  <1>1. /\ TypeOK /\ PendingServed /\ StatusOfPath /\ CommittedIsRelinked /\ Originals
    BY DEF RelinkingInv
  <1>2. /\ items' = items /\ relinker' = relinker /\ haveUncommitted' = haveUncommitted
        /\ todo' = todo /\ exists' = exists
    OBVIOUS
  <1>3. PendingServed'
    <2> SUFFICES ASSUME NEW r \in Rows
                 PROVE  /\ r \notin todo /\ items[r].uncommittedStatus = "StatusUpdatePending" =>
                               Served(items[r].uncommittedPath, r)'
                        /\ items[r].committedStatus = "StatusUpdatePending" =>
                               \/ Served(items[r].committedPath, r)'
                               \/ r \in todo /\ items[r].committedPath = items[r].uncommittedPath
      BY <1>2 DEF PendingServed, Served
    <2>1. items[r].uncommittedPath \in Paths /\ items[r].committedPath \in Paths
      BY <1>1 DEF TypeOK
    <2>2. \A p \in Paths : Served(p, r) => Served(p, r)'
      BY DEF UnderWayStays
    <2> QED  BY <1>1, <2>1, <2>2 DEF PendingServed
  <1>4. StatusOfPath' /\ CommittedIsRelinked' /\ Originals'
    BY <1>1, <1>2 DEF StatusOfPath, CommittedIsRelinked, Originals, Status
  <1> QED  BY <1>3, <1>4 DEF RelinkingInv

(* The thread takes the first of its tasks, which it now works at. *)
LEMMA TakeTaskKeeps ==
    ASSUME RelinkingInv, TakeTask, place \in {"loop", "woken"},
           UNCHANGED <<model, todo, responses, tries, exists, dropped>>
    PROVE  RelinkingInv'
  <1>1. TypeOK /\ Answered
    BY DEF RelinkingInv
  <1>2. /\ items' = items /\ relinker' = relinker /\ haveUncommitted' = haveUncommitted
        /\ error' = error /\ todo' = todo /\ responses' = responses /\ tries' = tries
        /\ exists' = exists /\ dropped' = dropped
    BY DEF model
  <1>3. /\ tasks # <<>> /\ task' = Head(tasks) /\ tasks' = Tail(tasks)
        /\ processed' = Head(tasks).path /\ place' = "work" /\ exiting' = exiting
    BY DEF TakeTask
  <1>4. PICK n : n = Len(tasks)
    OBVIOUS
  <1>5. tasks \in Seq(Requests) /\ n \in Nat /\ DOMAIN tasks = 1 .. n
    BY <1>1, <1>4, LenProperties DEF TypeOK
  <1>6. /\ tasks' \in Seq(Requests) /\ Len(tasks') = n - 1
        /\ \A i \in 1 .. n - 1 : tasks'[i] = tasks[i + 1]
        /\ task' = tasks[1] /\ task' \in Requests
    <2>1. /\ Tail(tasks) \in Seq(Requests) /\ Len(Tail(tasks)) = Len(tasks) - 1
          /\ \A i \in 1 .. Len(Tail(tasks)) : Tail(tasks)[i] = tasks[i + 1]
          /\ Head(tasks) \in Requests
      BY <1>3, <1>5, HeadTailProperties
    <2>2. Head(tasks) = tasks[1]
      OBVIOUS
    <2> QED  BY <1>3, <1>4, <2>1, <2>2
  <1>7. DOMAIN tasks' = 1 .. n - 1
    BY <1>6, LenProperties
  <1>8. Head(tasks).path \in Paths
    BY <1>3, <1>6 DEF Requests
  <1>9. TypeOK'
    BY <1>1, <1>2, <1>3, <1>6, <1>8 DEF TypeOK
  <1>10. Answered'
    BY <1>1, <1>2 DEF Answered, Status
  <1>11. UnderWayStays
    <2> SUFFICES ASSUME NEW p \in Paths, NEW r \in Rows, Served(p, r) PROVE Served(p, r)'
      BY DEF UnderWayStays
    <2>1. CASE [path |-> p, row |-> r] \in Range(tasks)
      <3>1. PICK i \in 1 .. n : tasks[i] = [path |-> p, row |-> r]
        BY <1>5, <2>1 DEF Range
      <3>2. CASE i = 1
        BY <1>3, <1>6, <3>1, <3>2 DEF Served
      <3>3. CASE i # 1
        <4>1. i - 1 \in 1 .. n - 1 /\ (i - 1) + 1 = i
          BY <1>5, <3>3
        <4>2. tasks'[i - 1] = [path |-> p, row |-> r]
          BY <1>6, <3>1, <4>1
        <4>3. [path |-> p, row |-> r] \in Range(tasks)'
          BY <1>7, <4>1, <4>2 DEF Range
        <4> QED  BY <4>3 DEF Served
      <3> QED  BY <3>2, <3>3
    <2>2. CASE [path |-> p, row |-> r] \notin Range(tasks)
      BY <1>2, <2>2 DEF Served
    <2> QED  BY <2>1, <2>2
  <1>12. UNCHANGED <<items, relinker, haveUncommitted, todo, exists>>
    BY <1>2
  <1> QED  BY <1>9, <1>10, <1>11, <1>12, ThreadStep

(* Of the tasks none is taken: the thread waits, turns or ends. *)
LEMMA IdleKeeps ==
    ASSUME RelinkingInv, place \notin {"work", "posted"}, place' \in {"loop", "wait", "done"},
           UNCHANGED <<model, todo, responses, tasks, processed, exiting, task, tries, exists, dropped>>
    PROVE  RelinkingInv'
  <1>1. TypeOK /\ Answered
    BY DEF RelinkingInv
  <1>2. /\ items' = items /\ relinker' = relinker /\ haveUncommitted' = haveUncommitted
        /\ error' = error /\ todo' = todo /\ responses' = responses /\ tries' = tries
        /\ exists' = exists /\ dropped' = dropped /\ tasks' = tasks /\ processed' = processed
        /\ exiting' = exiting /\ task' = task
    BY DEF model
  <1>3. TypeOK'
    BY <1>1, <1>2 DEF TypeOK
  <1>4. Answered'
    BY <1>1, <1>2 DEF Answered, Status
  <1>5. UnderWayStays
    BY <1>2, Unserved
  <1>6. UNCHANGED <<items, relinker, haveUncommitted, todo, exists>>
    BY <1>2
  <1> QED  BY <1>3, <1>4, <1>5, <1>6, ThreadStep

(* The thread turns. *)
LEMMA LoopKeeps == RelinkingInv /\ (LoopTop \/ Woken) => RelinkingInv'
  <1> SUFFICES ASSUME RelinkingInv, LoopTop \/ Woken PROVE RelinkingInv'
    OBVIOUS
  <1>1. /\ place \in {"loop", "woken"}
        /\ UNCHANGED <<model, todo, responses, tries, exists, dropped>>
        /\ \/ TakeTask
           \/ /\ place' \in {"loop", "wait", "done"}
              /\ UNCHANGED <<tasks, processed, exiting, task>>
    BY DEF LoopTop, Woken
  <1>2. CASE TakeTask
    BY <1>1, <1>2, TakeTaskKeeps
  <1>3. CASE /\ place' \in {"loop", "wait", "done"}
             /\ UNCHANGED <<tasks, processed, exiting, task>>
    <2>1. /\ UNCHANGED <<model, todo, responses, tasks, processed, exiting, task, tries, exists, dropped>>
          /\ place \notin {"work", "posted"}
      BY <1>1, <1>3
    <2> QED  BY <1>3, <2>1, IdleKeeps
  <1> QED  BY <1>1, <1>2, <1>3

(* The thread posts what it found. *)
LEMMA PostKeeps == RelinkingInv /\ PostResponse => RelinkingInv'
  <1> SUFFICES ASSUME RelinkingInv, PostResponse PROVE RelinkingInv'
    OBVIOUS
  <1>1. TypeOK /\ Answered
    BY DEF RelinkingInv
  <1>2. /\ items' = items /\ relinker' = relinker /\ haveUncommitted' = haveUncommitted
        /\ error' = error /\ todo' = todo /\ tries' = tries
        /\ exists' = exists /\ dropped' = dropped /\ tasks' = tasks /\ processed' = processed
        /\ exiting' = exiting /\ task' = task
    BY DEF PostResponse, model
  <1>3. PICK answer : answer = [path |-> task.path, row |-> task.row, status |-> Status(task.path)]
    OBVIOUS
  <1>4. place = "work" /\ place' = "posted" /\ responses' = Append(responses, answer)
    BY <1>3 DEF PostResponse
  <1> DEFINE Type == [path : Paths, row : Rows, status : Statuses]
  <1>5. PICK n : n = Len(responses)
    OBVIOUS
  <1>6. responses \in Seq(Type) /\ n \in Nat /\ DOMAIN responses = 1 .. n
    BY <1>1, <1>5, LenProperties DEF TypeOK
  <1>7. task \in Requests
    BY <1>1, <1>4 DEF TypeOK
  <1>8. answer \in Type /\ answer.status = Status(answer.path)
        /\ answer.path = task.path /\ answer.row = task.row
    BY <1>3, <1>7 DEF Requests, Status, Statuses
  <1>9. /\ responses' \in Seq(Type) /\ Len(responses') = n + 1 /\ responses'[n + 1] = answer
        /\ \A i \in 1 .. n : responses'[i] = responses[i]
    <2> HIDE DEF Type
    <2> QED  BY <1>4, <1>5, <1>6, <1>8, AppendProperties
  <1>10. DOMAIN responses' = 1 .. n + 1
    BY <1>9, LenProperties
  <1>11. TypeOK'
    BY <1>1, <1>2, <1>4, <1>7, <1>9 DEF TypeOK
  <1>12. Answered'
    <2>1. \A i \in 1 .. n + 1 : responses'[i].status = Status(responses'[i].path)
      BY <1>1, <1>6, <1>8, <1>9 DEF Answered
    <2>2. \A i \in DOMAIN responses' : responses'[i].status = Status(responses'[i].path)
      BY <1>10, <2>1
    <2> QED  BY <1>2, <2>2 DEF Answered, Status
  <1>13. UnderWayStays
    <2> SUFFICES ASSUME NEW p \in Paths, NEW r \in Rows, Served(p, r) PROVE Served(p, r)'
      BY DEF UnderWayStays
    <2>1. CASE task = [path |-> p, row |-> r]
      <3>1. responses'[n + 1].path = p /\ responses'[n + 1].row = r /\ n + 1 \in 1 .. n + 1
        BY <1>6, <1>8, <1>9, <2>1
      <3> QED  BY <1>10, <3>1 DEF Served
    <2>2. CASE \E i \in DOMAIN responses : responses[i].path = p /\ responses[i].row = r
      <3>1. PICK i \in 1 .. n : responses[i].path = p /\ responses[i].row = r
        BY <1>6, <2>2
      <3>2. responses'[i].path = p /\ responses'[i].row = r /\ i \in 1 .. n + 1
        BY <1>6, <1>9, <3>1
      <3> QED  BY <1>10, <3>2 DEF Served
    <2>3. CASE [path |-> p, row |-> r] \in Range(tasks) \cup dropped
      BY <1>2, <2>3 DEF Served
    <2> QED  BY <2>1, <2>2, <2>3 DEF Served
  <1>14. UNCHANGED <<items, relinker, haveUncommitted, todo, exists>>
    BY <1>2
  <1> QED  BY <1>11, <1>12, <1>13, <1>14, ThreadStep

(* The thread is through with its task. *)
LEMMA ClearKeeps == RelinkingInv /\ ClearProcessed => RelinkingInv'
  <1> SUFFICES ASSUME RelinkingInv, ClearProcessed PROVE RelinkingInv'
    OBVIOUS
  <1>1. TypeOK /\ Answered
    BY DEF RelinkingInv
  <1>2. /\ items' = items /\ relinker' = relinker /\ haveUncommitted' = haveUncommitted
        /\ error' = error /\ todo' = todo /\ responses' = responses /\ tries' = tries
        /\ exists' = exists /\ dropped' = dropped /\ tasks' = tasks /\ exiting' = exiting
        /\ processed' = NoPath /\ task' = NoTask /\ place = "posted" /\ place' = "loop"
    BY DEF ClearProcessed, model
  <1>3. TypeOK'
    BY <1>1, <1>2 DEF TypeOK
  <1>4. Answered'
    BY <1>1, <1>2 DEF Answered, Status
  <1>5. UnderWayStays
    BY <1>2 DEF UnderWayStays, Served
  <1>6. UNCHANGED <<items, relinker, haveUncommitted, todo, exists>>
    BY <1>2
  <1> QED  BY <1>3, <1>4, <1>5, <1>6, ThreadStep

(* Every step of the dialog and of its thread keeps the invariant. *)
LEMMA RelinkingStep == RelinkingInv /\ [RelinkingNext]_relinkingVars => RelinkingInv'
  <1> SUFFICES ASSUME RelinkingInv, [RelinkingNext]_relinkingVars PROVE RelinkingInv'
    OBVIOUS
  <1>1. CASE UNCHANGED relinkingVars
    <2>1. /\ items' = items /\ relinker' = relinker /\ haveUncommitted' = haveUncommitted
          /\ error' = error /\ todo' = todo /\ responses' = responses /\ tries' = tries
          /\ exists' = exists /\ dropped' = dropped /\ tasks' = tasks /\ processed' = processed
          /\ exiting' = exiting /\ place' = place /\ task' = task
      BY <1>1 DEF relinkingVars, model, thread
    <2>2. TypeOK /\ Answered
      BY DEF RelinkingInv
    <2>3. TypeOK'
      BY <2>1, <2>2 DEF TypeOK
    <2>4. Answered'
      BY <2>1, <2>2 DEF Answered, Status
    <2>5. UnderWayStays
      BY <2>1, Unserved
    <2>6. UNCHANGED <<items, relinker, haveUncommitted, todo, exists>>
      BY <2>1
    <2> QED  BY <2>3, <2>4, <2>5, <2>6, ThreadStep
  <1>2. CASE \E f \in Moves : Replace(f)
    BY <1>2, ReplaceKeeps
  <1>3. CASE Select
    BY <1>3, SelectKeeps
  <1>4. CASE Undo \/ Deselect
    BY <1>4, UndoKeeps, DeselectKeeps
  <1>5. CASE CloseDialog
    BY <1>5, CloseKeeps
  <1>6. CASE GuiThread
    BY <1>6, RequestKeeps, ResponseKeeps DEF GuiThread
  <1>7. CASE ThreadNext
    BY <1>7, LoopKeeps, PostKeeps, ClearKeeps DEF ThreadNext
  <1> QED  BY <1>1, <1>2, <1>3, <1>4, <1>5, <1>6, <1>7 DEF RelinkingNext

(* What is served, also behind what is committed, is behind what is shown. *)
LEMMA RelinkingInvIsSound == RelinkingInv => Inv
  <1> SUFFICES ASSUME RelinkingInv PROVE PendingIsUnderWay
    BY DEF RelinkingInv, Inv
  <1> QED  BY DEF RelinkingInv, PendingServed, PendingIsUnderWay

(***************************************************************************)
(* RelinkingModel and RelinkingDialog, for any paths and any number of     *)
(* rows: a row that is pending has an answer under way for its path unless *)
(* its request was ignored, no status is shown with a path it is not the   *)
(* status of, and the relinker has what is committed.                      *)
(***************************************************************************)
THEOREM RelinkingIsSound == RelinkingSpec => []Inv
  <1>1. RelinkingSpec => []RelinkingInv
    BY InitRelinking, RelinkingStep, PTL DEF RelinkingSpec
  <1> QED  BY <1>1, RelinkingInvIsSound, PTL
==============================================================================
