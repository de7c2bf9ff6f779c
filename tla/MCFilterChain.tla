---------------------------- MODULE MCFilterChain ----------------------------
(* Two pages, the second larger than the first. *)
EXTENDS FilterChain

MCGeometry == <<1, 2>>

Budget(box, output, fault, crash) ==
    [box |-> box, output |-> output, fault |-> fault, crash |-> crash]
MCBudgets == {Budget(1, 0, 0, 0), Budget(0, 2, 1, 0), Budget(0, 1, 0, 1)}
=============================================================================
