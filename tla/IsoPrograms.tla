---------------------------- MODULE IsoPrograms -----------------------------
(***************************************************************************)
(* Programs that use the calls of IsoResources by hand.                    *)
(***************************************************************************)
EXTENDS IsoResources

CONSTANTS
    Units,      \* the amounts of bandwidth the programs ask for
    OwnOnly     \* do they release only what the same camera has allocated?

ASSUME ProgramsAssumption == Units \subseteq Nat /\ OwnOnly \in BOOLEAN

Next == IsoCalls(Units, OwnOnly)

Spec == IsoInit /\ [][Next]_isoVars
=============================================================================
