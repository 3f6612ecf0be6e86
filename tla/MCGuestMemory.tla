--------------------------- MODULE MCGuestMemory ---------------------------
(* Guest memory with the regions of a small host, which meet the hypotheses *)
(* of the refinement's proof.                                               *)
EXTENDS GuestMemory

ASSUME HostAndGuest == RegionsApart /\ UnwrappedCopies
=============================================================================
