-------------------------- MODULE ThumbnailSequence --------------------------
(***************************************************************************)
(* app/ThumbnailSequence: the list of thumbnails of the main window and the *)
(* selection in it.  Every operator is one method of ThumbnailSequence::Impl*)
(* and maps a list to a list:                                               *)
(*   items      m_itemsInOrder: the pages, and whether their thumbnails are *)
(*              incomplete (a question mark)                                *)
(*   byState    m_selectedThenUnselected, the third index of the container  *)
(*   selected   the items whose m_isSelected is set                         *)
(*   leaders    the items whose m_isSelectionLeader is set                  *)
(*   leader     m_pSelectionLeader                                          *)
(*   view, current  the view of the current stage and MainWindow's          *)
(*              m_selectedPage, which newSelectionLeader() sets (a direct   *)
(*              connection)                                                 *)
(* The parameters incomplete, a set of pages, and order, a record, are what *)
(* the thumbnail factory and orderProvider() say.  Positions on the scene are   *)
(* left out.                                                                *)
(***************************************************************************)
EXTENDS PageSplitSettings

Actions == {"KEEP_SELECTION", "RESET_SELECTION"}

PagesOf(items) == {items[k].page : k \in DOMAIN items}
Shown(list) == PagesOf(list.items)
IndexOf(items, page) == CHOOSE k \in DOMAIN items : items[k].page = page
Item(page, incomplete) == [page |-> page, incomplete |-> incomplete]

EmptyList(view, current) ==
    [items |-> << >>, byState |-> << >>, selected |-> {}, leaders |-> {},
     leader |-> NoPage, view |-> view, current |-> current]

(* selectedItems(): up to the first item that is not selected. *)
SelectedItems(list) ==
    {list.byState[k] : k \in {k \in DOMAIN list.byState :
                                \A j \in 1..k : list.byState[j] \in list.selected}}

\* Mutant: the halves of an image are not told apart.
SelectedPageSetByImage(current, page, view) ==
    IF ImageOf(page) # ImageOf(current) THEN page ELSE current

(* SelectedPage::set *)
SelectedPageSet(current, page, view) ==
    IF view = "PAGE_VIEW" \/ ImageOf(page) # ImageOf(current) THEN page ELSE current
SelectedPageGet(current, view) ==
    IF view = "PAGE_VIEW" THEN current ELSE PageId(ImageOf(current), SINGLE_PAGE)

Emit(list, page) ==
    [list EXCEPT !.current = SelectedPageSet(@, page, list.view)]

MoveToSelected(byState, pages) ==     \* one after the other, each to the front
    Reverse(pages) \o Only(byState, {k \in DOMAIN byState : byState[k] \notin ToSet(pages)})
MoveToUnselected(byState, pages) ==   \* the pages in their order, to the end
    Only(byState, {k \in DOMAIN byState : byState[k] \notin pages})
        \o Only(byState, {k \in DOMAIN byState : byState[k] \in pages})

Unselect(list, pages) ==
    [list EXCEPT !.selected = @ \ pages, !.leaders = @ \ pages,
                 !.byState = MoveToUnselected(@, pages)]
DropLeaderFlag(list) == [list EXCEPT !.leaders = @ \ {list.leader}]
\* Mutant: moveToSelected() is forgotten.
LeadInPlace(list, page) ==
    [list EXCEPT !.leader = page, !.selected = @ \cup {page}, !.leaders = @ \cup {page}]

Lead(list, page) ==
    [list EXCEPT !.leader = page, !.selected = @ \cup {page}, !.leaders = @ \cup {page},
                 !.byState = MoveToSelected(@, <<page>>)]

(* What both setSelection() begin with: the other selected items are        *)
(* unselected, or, when the selection is kept, the leader stops leading.    *)
LeaveOthers(list, pages, action) ==
    LET others == SelectedItems(list) \ pages
    IN  IF action = "RESET_SELECTION" THEN Unselect(list, others)
        ELSE IF list.leader \in others THEN DropLeaderFlag(list) ELSE list

SetSelection(list, page, action) ==
    IF page \notin Shown(list) THEN list
    ELSE LET left == LeaveOthers(list, {page}, action)
             led  == IF left.leader \in left.leaders THEN left ELSE Lead(left, page)
         IN  IF left.leader = NoPage THEN left ELSE Emit(led, led.leader)

(* The overload that takes a set of pages. *)
SetSelectionToSet(list, pages, action) ==
    LET left == LeaveOthers(list, pages, action)
        need == left.leader \notin left.leaders
        hits == InOrderOfIds(pages \cap Shown(list))
        leader == IF need /\ hits # << >> THEN Last(hits) ELSE left.leader
        all  == [left EXCEPT !.selected = @ \cup ToSet(hits),
                             !.byState = MoveToSelected(@, hits),
                             !.leader = leader]
    IN  IF pages = {}
        THEN IF left.leader = NoPage THEN left ELSE SetSelection(left, left.leader, action)
        ELSE IF leader = NoPage THEN all
        ELSE Emit(IF need THEN [all EXCEPT !.selected = @ \cup {leader},
                                           !.leaders = @ \cup {leader}]
                          ELSE all, leader)

-----------------------------------------------------------------------------
\* Mutant: only the items after the hint are looked at.
InsertPositionForward(items, item, hint, order) ==
    IF ~order.given THEN hint
    ELSE CHOOSE f \in hint..(Len(items) + 1) :
            /\ \A k \in hint..(f - 1) : order.less[<<items[k], item>>]
            /\ f = Len(items) + 1 \/ ~order.less[<<items[f], item>>]

(* order.given: orderProvider() is not null; order.less: its precedes().    *)
(* itemInsertPosition: from the hint back over the items the page precedes, *)
(* then forward over those that precede it.                                 *)
InsertPosition(items, item, hint, order) ==
    LET back == CHOOSE b \in 1..hint :
                    /\ \A k \in b..(hint - 1) : order.less[<<item, items[k]>>]
                    /\ b = 1 \/ ~order.less[<<item, items[b - 1]>>]
    IN  IF ~order.given THEN hint
        ELSE CHOOSE f \in back..(Len(items) + 1) :
                    /\ \A k \in back..(f - 1) : order.less[<<items[k], item>>]
                    /\ f = Len(items) + 1 \/ ~order.less[<<items[f], item>>]

InvalidateAll(list, incomplete, order) ==
    LET made == [k \in DOMAIN list.items |->
                    Item(list.items[k].page, list.items[k].page \in incomplete)]
    IN  [list EXCEPT !.items =
            IF order.given THEN Sorted(ToSet(made), order.less) ELSE made]

InvalidateThumbnail(list, page, incomplete, order) ==
    IF page \notin Shown(list) THEN list
    ELSE LET at   == IndexOf(list.items, page)
             item == Item(page, page \in incomplete)
             rest == RemoveAt(list.items, at)
             new  == [list EXCEPT !.items =
                        InsertAt(rest, InsertPosition(rest, item, at, order), item)]
         IN  IF list.leader = page THEN Emit(new, page) ELSE new

(* reset(): the leader that is announced is the old one, even if its page   *)
(* is no longer there.                                                      *)
Reset(list, pages, action, incomplete, order) ==
    LET kept == IF action = "KEEP_SELECTION" THEN SelectedItems(list) \cap ToSet(pages) ELSE {}
        old  == IF action = "KEEP_SELECTION" THEN list.leader ELSE NoPage
        keptInOrder == Only(pages, {k \in DOMAIN pages : pages[k] \in kept})
        leader == IF old \in ToSet(pages) THEN old
                  ELSE IF kept # {} THEN Last(keptInOrder) ELSE NoPage
        new  == [items |-> [k \in DOMAIN pages |-> Item(pages[k], FALSE)],
                 byState |-> MoveToSelected(pages, keptInOrder),
                 selected |-> IF leader = NoPage THEN kept ELSE kept \cup {leader},
                 leaders |-> IF leader = NoPage THEN {} ELSE {leader},
                 leader |-> leader, view |-> list.view, current |-> list.current]
        made == InvalidateAll(new, incomplete, order)
    IN  IF leader = NoPage THEN made ELSE Emit(made, old)

(* insert(): next to the first page, in the order of PageId, of the image.  *)
Insert(list, page, where, image, incomplete, order) ==
    LET ofImage == {p \in Shown(list) : ImageOf(p) = image}
        first == CHOOSE p \in ofImage : \A q \in ofImage : p = q \/ PageLess(p, q)
        at    == IndexOf(list.items, first)
        past  == CHOOSE k \in (at + 1)..(Len(list.items) + 1) :
                    /\ \A j \in (at + 1)..(k - 1) : ImageOf(list.items[j].page) = image
                    /\ k > Len(list.items) \/ ImageOf(list.items[k].page) # image
        hint  == IF image = NoImage THEN Len(list.items) + 1
                 ELSE IF where = "BEFORE" THEN at
                 ELSE IF order.given THEN at + 1 ELSE past
        item  == Item(page, TRUE)
        new   == IF page \in Shown(list) THEN list
                 ELSE [list EXCEPT
                        !.items = InsertAt(@, InsertPosition(@, item, hint, order), item),
                        !.byState = Append(@, page)]
        isFirst == \A p \in Shown(new) : p = page \/ PageLess(page, p)
    IN  IF ofImage = {} /\ ~(where = "BEFORE" /\ image = NoImage) THEN list
        ELSE IF isFirst THEN InvalidateAll(new, incomplete, order)
        ELSE InvalidateThumbnail(new, page, incomplete, order)

(* removePages(); then the first item after a removed one is made again, or *)
(* all of them.                                                             *)
RemoveFromList(list, pages, incomplete, order) ==
    LET kept == Only(list.items, {k \in DOMAIN list.items : list.items[k].page \notin pages})
        after == {k \in DOMAIN list.items :
                    /\ list.items[k].page \notin pages
                    /\ \E j \in 1..(k - 1) : list.items[j].page \in pages}
        new == [list EXCEPT !.items = kept, !.selected = @ \ pages, !.leaders = @ \ pages,
                            !.byState = Only(@, {k \in DOMAIN @ : @[k] \notin pages}),
                            !.leader = IF @ \in pages THEN NoPage ELSE @]
    IN  IF after = {} THEN InvalidateAll(new, incomplete, order)
        ELSE InvalidateThumbnail(new, list.items[CHOOSE k \in after : \A j \in after : k <= j].page,
                                 incomplete, order)

-----------------------------------------------------------------------------
(* selectItemNoModifiers, with clearSelection. *)
ClickPlain(list, page) ==
    LET front == SelectedItems(list)
        cleared == [list EXCEPT !.selected = @ \ front, !.leaders = @ \ front]
    IN  Emit(Lead(cleared, page), page)

(* The selected item nearest to the one just unselected, the previous one   *)
(* if two are as near.                                                      *)
NearestSelected(list, page) ==
    LET at == IndexOf(list.items, page)
        Dist(k) == IF k < at THEN 2 * (at - k) ELSE 2 * (k - at) + 1
        picks == {k \in DOMAIN list.items : list.items[k].page \in list.selected}
    IN  list.items[CHOOSE k \in picks : \A j \in picks : Dist(k) <= Dist(j)].page

(* multipleItemsSelected: the first two of the index. *)
MultipleItemsSelected(list) ==
    Len(list.byState) >= 2 /\ \A k \in 1..2 : list.byState[k] \in list.selected

(* selectItemWithControl *)
ClickControl(list, page) ==
    IF page \notin list.selected THEN Emit(Lead(DropLeaderFlag(list), page), page)
    ELSE IF ~MultipleItemsSelected(list) THEN Emit(list, list.leader)
    ELSE LET off == Unselect(list, {page})
             next == NearestSelected(off, page)
         IN  IF list.leader # page THEN off
             ELSE Emit([off EXCEPT !.leader = next, !.leaders = @ \cup {next}], next)

(* selectItemWithShift *)
ClickShift(list, page) ==
    LET a == IndexOf(list.items, list.leader)
        b == IndexOf(list.items, page)
        range == IF a < b THEN SubSeq(list.items, a, b) ELSE SubSeq(list.items, b, a)
        pages == [k \in DOMAIN range |-> range[k].page]
        all == [list EXCEPT !.selected = @ \cup ToSet(pages),
                            !.byState = MoveToSelected(@, pages)]
    IN  IF list.leader = NoPage THEN ClickPlain(list, page)
        ELSE IF page = list.leader THEN list
        ELSE Emit([DropLeaderFlag(all) EXCEPT !.leader = page, !.leaders = @ \cup {page}], page)
=============================================================================
