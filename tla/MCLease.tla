------------------------------ MODULE MCLease ------------------------------
(* Three controllers, two connections: TLC's instance of Lease. *)
EXTENDS Lease
=============================================================================
