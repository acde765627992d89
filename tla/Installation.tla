----------------------------- MODULE Installation -----------------------------
(***************************************************************************)
(* What an update promises about an install that is replaced as a whole:   *)
(* there is always exactly one release to be run, and it changes in one    *)
(* step, to the release of the apply under way (ADR 0027 section 4.3).     *)
(***************************************************************************)
CONSTANTS
    Releases,
    None

VARIABLES
    current,   \* the release that the install holds
    planned    \* the release of the apply under way

InstallationInit == current \in Releases /\ planned = None

Accept  == planned = None /\ planned' \in Releases /\ UNCHANGED current

Replace == planned # None /\ current' = planned /\ UNCHANGED planned

End     == planned # None /\ planned' = None /\ UNCHANGED current

InstallationNext == Accept \/ Replace \/ End

InstallationSpec ==
    InstallationInit /\ [][InstallationNext]_<<current, planned>>

=============================================================================
