------------------------------ MODULE MCRental ------------------------------
(* A shop with a few vehicles and bookings over a few days. *)
EXTENDS Rental, TLC

Symmetry == Permutations(Vehicles) \cup Permutations(Bookings)
=============================================================================
