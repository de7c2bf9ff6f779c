----------------------------- MODULE OutputNames -----------------------------
(***************************************************************************)
(* The names of the output files: FileNameDisambiguator, which numbers      *)
(* files of the same name and keeps the names the user gave, and            *)
(* OutputFileNameGenerator, which makes names of them; with the operations  *)
(* of the main window that insert, remove, rename and relink pages, the     *)
(* project file that keeps the numbers, and the task that writes a file     *)
(* under the name its page had when it began.                               *)
(*                                                                         *)
(* A name is a stem, the numbers in brackets after it, and the order number *)
(* of an empty page ("x(1)&ep0500.tif").  Stems are numbers in alphabetical *)
(* order; a page is a whole image, of a file with one page.                 *)
(***************************************************************************)
EXTENDS Integers, FiniteSets, SequencesExt

CONSTANTS
    Files,          \* image files: [dir, stem, ext]
    Projects,       \* sequences of files, the projects one may begin with
    UserStems,      \* what the user may enter for a name
    LowestStem,     \* no name is found below that one
    Step,           \* 1000, the distance of order numbers
    MaxOrder,       \* 9999, the last order number that sorts right
    NoText,         \* an empty QString
    None,
    Budgets         \* bound: how many operations of each kind

Plain == -1         \* the order number of a name that has none
Text(stem, labels, order) == [stem |-> stem, labels |-> labels, order |-> order]
AllTexts == [stem : Nat, labels : Seq(Nat), order : Nat \cup {Plain}]

(* The file of the empty pages, below, has a stem of its own. *)
ASSUME OutputNamesAssumption ==
    /\ Files \subseteq [dir : Nat, stem : Nat \ {0}, ext : STRING]
    /\ \A p \in Projects : p \in Seq(Files) /\ IsInjective(p)
    /\ UserStems \subseteq Nat /\ LowestStem \in Nat
    /\ Step \in Nat \ {0} /\ MaxOrder \in Nat /\ Step <= MaxOrder
    /\ NoText \notin AllTexts /\ None \notin AllTexts
    /\ Budgets \subseteq [{"file", "empty", "remove", "rename", "relink", "output", "reopen"} -> Nat]

VARIABLES
    images,         \* m_images of ProjectPages, each [file, page]
    items,          \* m_items of the disambiguator, by image
    made,           \* images that have output parameters
    files,          \* the output files: the image in each
    task,           \* the image being output, and the name for it
    saved,          \* what the project file has
    left,           \* what is left of the budget
    renamed,        \* history: images whose name the user gave
    relinked,       \* history: images that relinking moved, or dropped the records of
    taken           \* history: names the user gave, those given up for them,
                    \* and those of pages that relinking left without a record

project == <<images, items, made>>
ghosts == <<renamed, relinked, taken>>
namesVars == <<project, files, task, saved, left, ghosts>>

InProject == ToSet(images)

(* f, but y for x. *)
With(f, x, y) == [k \in DOMAIN f \cup {x} |-> IF k = x THEN y ELSE f[k]]

(* ":/images/empty-page.png", of which every empty page is a page. *)
Empty == [dir |-> 0, stem |-> 0, ext |-> "png"]
Image(file) == [file |-> file, page |-> 0]

SameName(i, j) == i.file.stem = j.file.stem /\ i.file.ext = j.file.ext /\ i.page = j.page

-----------------------------------------------------------------------------
(* FileNameDisambiguator and OutputFileNameGenerator. *)

(* fileNameFor: the name of an image, which loses its extension, or the one
   that was given, and the label behind it. *)
WithLabel(text, label) ==
    IF label = 0 THEN text ELSE [text EXCEPT !.labels = Append(@, label)]

OwnText(i) == Text(i.file.stem, <<>>, Plain)

Name(its, i) ==
    IF i \notin DOMAIN its THEN OwnText(i)
    ELSE WithLabel(IF its[i].given = NoText THEN OwnText(i) ELSE its[i].given, its[i].label)

(* A mutant: the first label that is free in the project. *)
NextLabelFree(its, i) ==
    Min((0 .. Cardinality(DOMAIN its)) \
            {its[j].label : j \in {k \in DOMAIN its \cap InProject : SameName(k, i)}})

(* The label after the last of the files of that name, in the project or not. *)
NextLabel(its, i) ==
    LET labels == {its[j].label : j \in {k \in DOMAIN its : SameName(k, i)}} IN
    IF labels = {} THEN 0 ELSE Max(labels) + 1

(* registerFile with a name, possibly empty, and without. *)
Register(its, i, given) ==
    With(its, i, [label |-> IF i \in DOMAIN its THEN its[i].label ELSE NextLabel(its, i),
                  given |-> given])

(* Of images not yet registered each gets the label after those before it. *)
PlaceIn(seq, i) == CHOOSE k \in DOMAIN seq : seq[k] = i

UpdateDisambiguationRecords(its, seq) ==
    LET earlier(i) == {j \in ToSet(seq) \ DOMAIN its :
                          SameName(j, i) /\ PlaceIn(seq, j) < PlaceIn(seq, i)}
    IN  [i \in DOMAIN its \cup ToSet(seq) |->
            IF i \in DOMAIN its THEN its[i]
            ELSE [label |-> NextLabel(its, i) + Cardinality(earlier(i)), given |-> NoText]]

(* A mutant: labels of zero are not worth storing. *)
PackedIfLabelled(its) ==
    [i \in {j \in DOMAIN its : (\E k \in InProject : k.file = j.file)
                               /\ (its[j].label # 0 \/ its[j].given # NoText)} |-> its[i]]

(* toXml with packFilePath: files without a page are left out. *)
Packed(its) ==
    [i \in {j \in DOMAIN its : \E k \in InProject : k.file = j.file} |-> its[i]]

(* A mutant: half of the whole distance from the lower one. *)
BetweenHalfStep(low, high) == low + Step \div 2

Between(low, high) == (low + high) \div 2

(* suggestOverridenFileName: a text that sorts between the neighbours, or
   above the last name, or below the first. *)
Value(text) == IF text.order = Plain THEN 0 ELSE text.order
SameBase(low, high) == low.stem = high.stem /\ low.labels = high.labels
Above(low) == [low EXCEPT !.order = Value(low) + Step]
Below(high) == IF high.stem > LowestStem THEN Text(high.stem - 1, <<>>, Step) ELSE NoText

SuggestOverridenFileName(low, high) ==
    CASE low = None -> Below(high)
      [] high = None -> Above(low)
      [] OTHER -> IF SameBase(low, high)
                  THEN [low EXCEPT !.order = Between(Value(low), Value(high))]
                  ELSE Above(low)

-----------------------------------------------------------------------------
NamesInit ==
    /\ images \in {[k \in DOMAIN p |-> Image(p[k])] : p \in Projects}
    /\ items = UpdateDisambiguationRecords(<<>>, images)
    /\ made = {} /\ files = <<>> /\ task = None
    /\ saved = None
    /\ left \in Budgets
    /\ renamed = {} /\ relinked = {} /\ taken = {}

Spend(kind) == left[kind] > 0 /\ left' = [left EXCEPT ![kind] = @ - 1]

InsertImage(place, i, given) ==
    /\ images' = InsertAt(images, place, i)
    /\ items' = Register(items, i, given)
    /\ renamed' = renamed \ {i}
    /\ UNCHANGED <<made, files, task, saved, relinked, taken>>

(* showInsertFileDialog: files that are in the project are not offered. *)
InsertFile(file, place) ==
    /\ Spend("file")
    /\ Image(file) \notin InProject
    /\ place \in 1 .. Len(images) + 1
    /\ InsertImage(place, Image(file), NoText)

(* The name at a place of the project, if there is a page. *)
NameAt(place) == IF place \in DOMAIN images THEN Name(items, images[place]) ELSE None

(* showInsertEmptyPageDialog, before or after a page: the empty page gets the
   number after the last one in the project. *)
InsertEmptyPage(place) ==
    /\ Spend("empty")
    /\ images # <<>> /\ place \in 1 .. Len(images) + 1
    /\ LET numbers == {i.page : i \in {j \in InProject : j.file = Empty}}
           page == IF numbers = {} THEN 0 ELSE Max(numbers) + 1
       IN  InsertImage(place, [file |-> Empty, page |-> page],
                       SuggestOverridenFileName(NameAt(place - 1), NameAt(place)))

Without(names) == [n \in DOMAIN files \ names |-> files[n]]

(* showRenameResultFileDialog: the page's file goes to the text that was
   entered.  If there is a file of that name the user may let it be replaced;
   otherwise the page's own, if there is one, cannot be renamed, and all stays. *)
RenameResult(i, text, replace) ==
    /\ Spend("rename")
    /\ i \in InProject
    /\ LET old == Name(items, i)
           there == text # old /\ text \in DOMAIN files
           moves == text # old /\ old \in DOMAIN files
       IN  \/ /\ there /\ ~replace /\ moves
              /\ UNCHANGED <<files, items, renamed, taken>>
           \/ /\ ~(there /\ ~replace /\ moves)
              /\ files' = CASE moves -> With(Without({old}), text, files[old])
                            [] ~moves /\ there /\ replace -> Without({text})
                            [] OTHER -> files
              /\ items' = Register(items, i, text)
              /\ renamed' = renamed \cup {i}
              /\ taken' = taken \cup {old, text, Name(items', i)}
    /\ UNCHANGED <<images, made, task, saved, relinked>>

(* removeFromProject and eraseOutputFiles: the label stays. *)
RemovePages(i) ==
    /\ Spend("remove")
    /\ i \in InProject
    /\ images' = RemoveAt(images, PlaceIn(images, i))
    /\ files' = Without({Name(items, i)})
    /\ UNCHANGED <<items, made, task, saved, ghosts>>

(* performRelinking, to files not in the project or among themselves.  Of two
   items with one path, or with one name and label, the one registered first
   is kept; here it may be either. *)
Moved(i, f) == IF i.file \in DOMAIN f THEN [i EXCEPT !.file = f[i.file]] ELSE i

Conflict(its, f, i, j) ==
    LET a == Moved(i, f)  b == Moved(j, f) IN
    a = b \/ (SameName(a, b) /\ its[i].label = its[j].label)

Relinked(its, f) ==
    LET kept == {s \in SUBSET DOMAIN its :
                    /\ \A i, j \in s : i # j => ~Conflict(its, f, i, j)
                    /\ \A i \in DOMAIN its \ s : \E j \in s : Conflict(its, f, i, j)}
    IN  {[k \in {Moved(i, f) : i \in s} |-> its[CHOOSE i \in s : Moved(i, f) = k]] : s \in kept}

PerformRelinking(f) ==
    /\ Spend("relink")
    /\ images' = [k \in DOMAIN images |-> Moved(images[k], f)]
    /\ items' \in Relinked(items, f)
    /\ made' = {Moved(i, f) : i \in made}
    /\ renamed' = {Moved(i, f) : i \in renamed}
    /\ relinked' = relinked
           \cup (UNION {{i, Moved(i, f)} : i \in {j \in InProject : Moved(j, f) # j}})
           \cup {i \in DOMAIN items : i \in DOMAIN items' => items'[i] # items[i]}
    /\ taken' = taken \cup {Name(items', i) : i \in ToSet(images') \ DOMAIN items'}
    /\ UNCHANGED <<files, task, saved>>

Moves ==
    LET sources == {f \in Files : Image(f) \in InProject} IN
    {f \in UNION {[s -> Files] : s \in SUBSET sources} :
        /\ f # <<>>
        /\ \A a \in DOMAIN f : f[a] # a /\ (f[a] \in sources => f[a] \in DOMAIN f)
        /\ \A a, b \in DOMAIN f : a # b => f[a] # f[b]}

(* The output task: the path is asked for once. *)
OutputStarts(i) ==
    /\ Spend("output")
    /\ task = None /\ i \in InProject
    /\ task' = [image |-> i, name |-> Name(items, i), closed |-> FALSE]
    /\ UNCHANGED <<project, files, saved, ghosts>>

(* Past its last check for cancellation a task writes its file, also when the
   page was removed or the project closed. *)
OutputWritten ==
    /\ task # None
    /\ files' = With(files, task.name, task.image)
    /\ made' = IF task.closed THEN made ELSE made \cup {task.image}
    /\ task' = None
    /\ UNCHANGED <<images, items, saved, left, ghosts>>

Save ==
    /\ left.reopen > 0 /\ images # <<>>
    /\ saved' = [images |-> images, items |-> Packed(items), made |-> made \cap InProject,
                 renamed |-> renamed \cap InProject,
                 names |-> [i \in InProject \cap DOMAIN items |-> Name(items, i)]]
    /\ UNCHANGED <<project, files, task, left, ghosts>>

(* The saved project is opened after a crash, or in place of the present one,
   whose task may still be running. *)
Reopen ==
    /\ Spend("reopen")
    /\ saved # None
    /\ images' = saved.images
    /\ items' = UpdateDisambiguationRecords(saved.items, saved.images)
    /\ made' = saved.made
    /\ task' \in {None, IF task = None THEN None ELSE [task EXCEPT !.closed = TRUE]}
    /\ renamed' = saved.renamed
    /\ saved' = IF left'.reopen = 0 THEN None ELSE saved
    /\ UNCHANGED <<files, relinked, taken>>

Texts == {Text(s, <<>>, Plain) : s \in UserStems} \cup {Name(items, i) : i \in InProject}

NamesNext ==
    \/ \E file \in Files, place \in 1 .. Len(images) + 1 : InsertFile(file, place)
    \/ \E place \in 1 .. Len(images) + 1 : InsertEmptyPage(place)
    \/ \E i \in InProject, text \in Texts : RenameResult(i, text, TRUE) \/ RenameResult(i, text, FALSE)
    \/ \E i \in InProject : RemovePages(i) \/ OutputStarts(i)
    \/ \E f \in Moves : PerformRelinking(f)
    \/ OutputWritten \/ Save \/ Reopen

NamesSpec == NamesInit /\ [][NamesNext]_namesVars
-----------------------------------------------------------------------------
(* Files of the same name have different labels, whatever was inserted,
   removed, relinked and loaded ("so that files with the same name but from
   different directories have distinctive labels"), and so different output
   files unless the user chose the name; but a page that lost its record in
   a relinking has none until the project is loaded again. *)
NamesDistinct ==
    \A i, j \in InProject \cap DOMAIN items :
        i # j /\ SameName(i, j) =>
            /\ items[i].label # items[j].label
            /\ i \notin renamed /\ j \notin renamed => Name(items, i) # Name(items, j)

(* The extension is no part of the name of the output. *)
Ambiguous(i) == \E f \in Files : f.stem = i.file.stem /\ f.ext # i.file.ext

(* The file found under the name of a page with output parameters is its own,
   and is rightly taken for its output: labels are not given again while the
   project is open, so that a page inserted and processed, and then forgotten
   with the project unsaved, has not written over a saved page's file.  Names
   chosen by the user may collide, and so may the name of a page that relinking
   left without a record; and an image that was relinked, or lost its record,
   may find the file of another, but does no harm to it. *)
FilesBelong ==
    \A i \in (InProject \cap made) \ (renamed \cup relinked) :
        LET n == Name(items, i) IN
        i.file # Empty /\ ~Ambiguous(i) /\ n \in DOMAIN files \ taken => files[n] = i

OwnOutput == NamesDistinct /\ FilesBelong

(* A page keeps its name, under which its output is found, when others are
   inserted, removed and renamed, and when the project is loaded again it has
   the name it had when the project was saved. *)
NamesKept ==
    [][ /\ \A i \in InProject \cap InProject' :
              \/ Name(items', i) = Name(items, i)
              \/ Reopen
              \/ \E f \in Moves : PerformRelinking(f)
              \/ \E text \in Texts, replace \in BOOLEAN : RenameResult(i, text, replace)
        /\ Reopen => \A i \in DOMAIN saved.names : Name(items', i) = saved.names[i]
      ]_namesVars

(* Is there an order number left for an empty page at the place?  *)
Room(place) ==
    LET low == NameAt(place - 1)  high == NameAt(place) IN
    CASE low = None -> high.stem > LowestStem
      [] low # None /\ high # None /\ SameBase(low, high) ->
             \E order \in 0 .. high.order : low.order < order /\ order < high.order
      [] OTHER -> Value(low) + Step <= MaxOrder

LabelsBefore(a, b) ==
    \/ a # b /\ IsPrefix(a, b)
    \/ \E k \in DOMAIN a \cap DOMAIN b :
          a[k] < b[k] /\ \A m \in 1 .. k - 1 : a[m] = b[m]

Before(a, b) ==
    \/ a.stem < b.stem
    \/ a.stem = b.stem /\ LabelsBefore(a.labels, b.labels)
    \/ SameBase(a, b) /\ a.order < b.order

Sorted(its, seq) ==
    /\ \A k \in DOMAIN seq : Name(its, seq[k]).order <= MaxOrder
    /\ \A k \in DOMAIN seq, m \in DOMAIN seq :
          k < m => Before(Name(its, seq[k]), Name(its, seq[m]))

(* While the output files sort as the pages do, an empty page gets a name that
   "[sticks] into right place of alphabetically sorted output files", and that
   no other page has, if there is an order number left. *)
EmptyPagesInOrder ==
    [][\A place \in 1 .. Len(images) + 1 :
          InsertEmptyPage(place) /\ Sorted(items, images) /\ Room(place)
              => Sorted(items', images')]_namesVars
=============================================================================
