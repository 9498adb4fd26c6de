--------------------------- MODULE SectionStore ---------------------------
(***************************************************************************)
(* What the data file and the header file of the brcm firmware are         *)
(* together: a store of sections by index.  It is emptied, filled and      *)
(* changed section by section; after an accident in the middle of that it  *)
(* is damaged until it is made anew, and nothing is said about it.         *)
(***************************************************************************)
CONSTANT Indices  \* of sections

VARIABLES
    store,   \* the sections, records idx and data
    damaged

vars == <<store, damaged>>

InUse(sections) == {s.idx : s \in sections}

Init == InUse(store) \subseteq Indices /\ damaged \in BOOLEAN

Reset == store' = {} /\ damaged' = FALSE

Add ==
    /\ ~damaged /\ UNCHANGED damaged
    /\ \E s \in store' \ store :
          /\ s.idx \in Indices \ InUse(store)
          /\ store' = store \cup {s}

Replace ==
    /\ ~damaged /\ UNCHANGED damaged
    /\ \E s \in store' \ store : \E old \in store \ store' :
          /\ s.idx = old.idx
          /\ store' = (store \ {old}) \cup {s}

Damage == damaged'

Next == Reset \/ Add \/ Replace \/ Damage

Spec == Init /\ [][Next]_vars
=============================================================================
