--------------------------- MODULE MCReleaseLoop ----------------------------
(* Instances of ReleaseLoop for TLC. *)
EXTENDS ReleaseLoop

CONSTANTS room, office

\* Messages 2 and 3 are the management conversation's, the others the customer's.
MCConvOf == [m \in 1..N |-> IF m \in {2, 3} THEN office ELSE room]
=============================================================================
