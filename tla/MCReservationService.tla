------------------------ MODULE MCReservationService ------------------------
(* Two products, lists of up to three items: a product can be listed thrice. *)
EXTENDS ReservationService

CONSTANTS p1, p2
=============================================================================
