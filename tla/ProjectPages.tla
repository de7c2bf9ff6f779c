---------------------------- MODULE ProjectPages ----------------------------
(***************************************************************************)
(* core/ProjectPages: the images of a project in their order, each one or  *)
(* two logical pages.  A project is a sequence of image descriptions; every *)
(* operator below is one method, run under m_mutex, and returns the new     *)
(* sequence.  ImageIds are numbered in the order of operator<.  Of the      *)
(* metadata only what adviseNumberOfLogicalPages asks is kept: whether the  *)
(* image, as it lies in its file, is wider than high (Wide).                *)
(***************************************************************************)
EXTENDS Ascending, Sequences, SequencesExt

CONSTANTS
    Images,     \* ImageIds
    Wide        \* the images that are wider than high

ASSUME ImageAssumption == Images \subseteq Nat \ {0} /\ Wide \subseteq Images

SINGLE_PAGE == 0
LEFT_PAGE == 1
RIGHT_PAGE == 2

(* PageId: the image and the sub-page; the default PageId has no image. *)
NoImage == 0
PageId(image, sub) == <<image, sub>>
NoPage == PageId(NoImage, SINGLE_PAGE)
ImageOf(page) == page[1]
SubOf(page) == page[2]
PageIds == Images \X {SINGLE_PAGE, LEFT_PAGE, RIGHT_PAGE}
PageLess(p, q) == p[1] < q[1] \/ (p[1] = q[1] /\ p[2] < q[2])

(* Pairs of numbers, as are pages, in the order of operator<. *)
InOrderOfIds(pairs) == Sorted(pairs, [pq \in pairs \X pairs |-> PageLess(pq[1], pq[2])])

Directions == {"LeftToRight", "RightToLeft"}
Views == {"IMAGE_VIEW", "PAGE_VIEW"}
Layouts == {"ONE_PAGE_LAYOUT", "TWO_PAGE_LAYOUT"}
Rotations == {0, 90}

ImageDescs == [id : Images, numLogicalPages : {1, 2},
               leftHalfRemoved : BOOLEAN, rightHalfRemoved : BOOLEAN]

(* "Both can't be true, and if one is true, then numLogicalPages is 1." *)
DescOK(desc) ==
    /\ ~(desc.leftHalfRemoved /\ desc.rightHalfRemoved)
    /\ desc.leftHalfRemoved \/ desc.rightHalfRemoved => desc.numLogicalPages = 1

AdviseNumberOfLogicalPages(id, rotation) ==
    IF (id \in Wide) = (rotation = 0) THEN 2 ELSE 1

ImageDesc(id, num) == [id |-> id, numLogicalPages |-> num,
                       leftHalfRemoved |-> FALSE, rightHalfRemoved |-> FALSE]

SubPagesInOrder(direction) ==
    IF direction = "LeftToRight" THEN <<LEFT_PAGE, RIGHT_PAGE>>
                                 ELSE <<RIGHT_PAGE, LEFT_PAGE>>

(* logicalPageToSubPage, for every logical page of the image. *)
LogicalPages(desc, direction) ==
    CASE desc.numLogicalPages = 2 -> SubPagesInOrder(direction)
      [] desc.numLogicalPages = 1 /\ desc.leftHalfRemoved /\ ~desc.rightHalfRemoved -> <<RIGHT_PAGE>>
      [] desc.numLogicalPages = 1 /\ desc.rightHalfRemoved /\ ~desc.leftHalfRemoved -> <<LEFT_PAGE>>
      [] OTHER -> <<SINGLE_PAGE>>

(* toPageSequence: image by image, and in PAGE_VIEW page by page. *)
ImageSequence(images) == [k \in DOMAIN images |-> PageId(images[k].id, SINGLE_PAGE)]
LogicalPageSequence(images, direction) ==
    LET pages(k) == LogicalPages(images[k], direction)
        places == InOrderOfIds({place \in (DOMAIN images) \X {1, 2} :
                                    place[2] <= Len(pages(place[1]))})
    IN  [n \in DOMAIN places |-> PageId(images[places[n][1]].id, pages(places[n][1])[places[n][2]])]

ToPageSequence(images, view, direction) ==
    IF view = "IMAGE_VIEW" THEN ImageSequence(images) ELSE LogicalPageSequence(images, direction)

ImageIds(images) == {images[k].id : k \in DOMAIN images}
DescOf(images, id) == images[CHOOSE k \in DOMAIN images : images[k].id = id]

\* Mutant: a removed half is forgotten.
AdjustedNumPagesBothHalves(desc, num) == num

(* One half removed leaves one page of two. *)
AdjustedNumPages(desc, num) ==
    IF num = 2 /\ desc.leftHalfRemoved # desc.rightHalfRemoved THEN 1 ELSE num

(* The images in ids get two pages if they are in two, else one. *)
SetNumPages(images, ids, two) ==
    [k \in DOMAIN images |->
        IF images[k].id \in ids
        THEN [images[k] EXCEPT !.numLogicalPages =
                AdjustedNumPages(images[k], IF images[k].id \in two THEN 2 ELSE 1)]
        ELSE images[k]]

SetLayoutTypeFor(images, id, layout) ==
    SetNumPages(images, {id}, IF layout = "TWO_PAGE_LAYOUT" THEN {id} ELSE {})

AutoSetLayoutTypeFor(images, ids, rotation) ==
    SetNumPages(images, ids, {id \in ids : AdviseNumberOfLogicalPages(id, rotation[id]) = 2})

(* insertImage finds the existing image, or, for BEFORE the null image, the *)
(* end.  An image that is not found changes nothing.                        *)
CanInsert(images, where, existing) ==
    existing \in ImageIds(images) \/ (where = "BEFORE" /\ existing = NoImage)

\* Mutant: the iterator is not advanced for AFTER.
InsertImageUnadvanced(images, desc, where, existing) ==
    IF CanInsert(images, where, existing)
    THEN InsertAt(images, IF existing = NoImage THEN Len(images) + 1
                          ELSE CHOOSE k \in DOMAIN images : images[k].id = existing, desc)
    ELSE images

InsertImage(images, desc, where, existing) ==
    LET at == IF existing = NoImage THEN Len(images) + 1
              ELSE CHOOSE k \in DOMAIN images : images[k].id = existing
    IN  IF CanInsert(images, where, existing)
        THEN InsertAt(images, IF where = "AFTER" THEN at + 1 ELSE at, desc)
        ELSE images

(* What insertImage returns, for an image none of whose halves is removed.  *)
InsertedPages(images, desc, where, existing, view, direction) ==
    IF ~CanInsert(images, where, existing) THEN << >>
    ELSE IF view = "IMAGE_VIEW" \/ desc.numLogicalPages = 1
         THEN <<PageId(desc.id, SINGLE_PAGE)>>
         ELSE [j \in 1..2 |-> PageId(desc.id, SubPagesInOrder(direction)[j])]

RemoveHalves(desc, pages) ==
    LET left  == PageId(desc.id, LEFT_PAGE) \in pages
        right == PageId(desc.id, RIGHT_PAGE) \in pages
        gone  == (IF left THEN 1 ELSE 0) + (IF right THEN 1 ELSE 0)
    IN  IF PageId(desc.id, SINGLE_PAGE) \in pages \/ gone >= desc.numLogicalPages
        THEN [desc EXCEPT !.numLogicalPages = 0]
        ELSE [desc EXCEPT !.leftHalfRemoved = @ \/ left,
                          !.rightHalfRemoved = @ \/ right,
                          !.numLogicalPages = @ - gone]

RemovePages(images, pages) ==
    LET descs == [k \in DOMAIN images |-> RemoveHalves(images[k], pages)]
    IN  Only(descs, {k \in DOMAIN descs : descs[k].numLogicalPages > 0})

CanUnremove(images, page) ==
    /\ ImageOf(page) \in ImageIds(images)
    /\ LET desc == DescOf(images, ImageOf(page))
       IN  /\ desc.numLogicalPages = 1
           /\ \/ SubOf(page) = LEFT_PAGE /\ desc.leftHalfRemoved
              \/ SubOf(page) = RIGHT_PAGE /\ desc.rightHalfRemoved

UnremovePage(images, page) ==
    IF CanUnremove(images, page)
    THEN [k \in DOMAIN images |->
            IF images[k].id # ImageOf(page) THEN images[k]
            ELSE [images[k] EXCEPT
                    !.leftHalfRemoved = @ /\ SubOf(page) # LEFT_PAGE,
                    !.rightHalfRemoved = @ /\ SubOf(page) # RIGHT_PAGE,
                    !.numLogicalPages = 2]]
    ELSE images
=============================================================================
