-------------------------- MODULE MCParticipation --------------------------
(* The organizer of the event and one or two others.                       *)
EXTENDS Participation, TLC

CONSTANTS org, ann, bob, r1, r2

\* Goroutines are interchangeable, and so are the users but the organizer.
Symmetry == Permutations({r1, r2}) \cup Permutations({ann, bob} \cap Users)

=============================================================================
