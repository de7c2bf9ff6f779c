------------------------- MODULE PageSplitSettings --------------------------
(***************************************************************************)
(* core/filters/page_split: Settings keeps one record per image: the layout *)
(* type the user asked for, if any, and the parameters found for it, if     *)
(* any.  Every operator is one method, run under m_mutex.  An absent record *)
(* and a null one are the same here: no layout type, no parameters.         *)
(*                                                                         *)
(* Of a PageLayout its type is kept; of the Dependencies the shape of the   *)
(* image, the rotation and the layout type.  The original dpi and the       *)
(* "regenerate" flags of Params are left out: they make Task::process       *)
(* estimate a layout again but not store it.                                *)
(***************************************************************************)
EXTENDS ProjectPages

NoParams == << >>       \* m_paramsValid is false

LayoutTypes == {"AUTO_LAYOUT_TYPE", "SINGLE_PAGE_UNCUT", "PAGE_PLUS_OFFCUT", "TWO_PAGES"}
PageLayoutTypes == {"SINGLE_PAGE_UNCUT", "SINGLE_PAGE_CUT", "TWO_PAGES"}
Unset == "unset"        \* m_layoutTypeValid is false

NullRecord == [layoutType |-> Unset, params |-> NoParams]

(* The layout type a page layout of the given type satisfies. *)
TypeServed(type) == IF type = "SINGLE_PAGE_CUT" THEN "PAGE_PLUS_OFFCUT" ELSE type

(* toPageLayoutType of Task and CacheDrivenTask. *)
PagesLayout(type) == IF type = "TWO_PAGES" THEN "TWO_PAGE_LAYOUT" ELSE "ONE_PAGE_LAYOUT"

Dependencies(id, rotation, layoutType) ==
    [size |-> IF id \in Wide THEN "wide" ELSE "high", rotation |-> rotation,
     layoutType |-> layoutType]

Params(type, deps, mode) == [type |-> type, deps |-> deps, mode |-> mode]

(* Record::combinedLayoutType; the default type is AUTO in the main window. *)
CombinedLayoutType(record) ==
    IF record.layoutType = Unset THEN "AUTO_LAYOUT_TYPE" ELSE record.layoutType

(* Dependencies::compatibleWith *)
CompatibleWith(deps, params) ==
    /\ deps.size = params.deps.size
    /\ deps.rotation = params.deps.rotation
    /\ \/ deps.layoutType = params.deps.layoutType
       \/ deps.layoutType = "SINGLE_PAGE_UNCUT"
       \/ deps.layoutType = "TWO_PAGES" /\ params.mode = "MODE_MANUAL"

(* Dependencies::fixCompatibility: the layout is scaled, whatever made the  *)
(* two incompatible, and the dependencies are replaced.                     *)
FixCompatibility(deps, params) == [params EXCEPT !.deps = deps]

HasLayoutTypeConflict(params, layoutType) ==
    /\ params # NoParams
    /\ layoutType # "AUTO_LAYOUT_TYPE"
    /\ layoutType # TypeServed(params.type)

(* Record::update, with an action that sets one of the fields. *)
SetLayout(record, layoutType) == [record EXCEPT !.layoutType = layoutType]
SetParams(record, params) == [record EXCEPT !.params = params]

\* Mutant: the conflict is not looked for.
UpdatePageUnchecked(updated) == updated

(* updatePage, after Record::update: parameters in conflict are cleared. *)
UpdatePage(updated) ==
    IF HasLayoutTypeConflict(updated.params, CombinedLayoutType(updated))
    THEN [updated EXCEPT !.params = NoParams]
    ELSE updated

(* conditionalUpdate: parameters in conflict are refused, and the caller    *)
(* gets the record as it is.                                                *)
ConditionalUpdate(record, params) ==
    LET updated == SetParams(record, params)
        conflict == HasLayoutTypeConflict(params, CombinedLayoutType(record))
    IN  [conflict |-> conflict, record |-> IF conflict THEN record ELSE updated]

(* PageLayoutEstimator::estimatePageLayout: a layout of the type asked for. *)
Estimates(layoutType) ==
    IF layoutType = "AUTO_LAYOUT_TYPE" THEN PageLayoutTypes
    ELSE {type \in PageLayoutTypes : TypeServed(type) = layoutType}
=============================================================================
