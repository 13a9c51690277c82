---------------------------- MODULE MC_ServerLoop ----------------------------
(***************************************************************************)
(* A small server: one datagram service, two worker services and the       *)
(* health check, opened and dispatched in the order of the code.           *)
(***************************************************************************)
EXTENDS ServerLoop

CONSTANTS health, qr, profile, relay

MCOpenOrder == <<health, qr, profile, relay>>
MCDispatchOrder == <<qr, profile, relay, health>>
=============================================================================
