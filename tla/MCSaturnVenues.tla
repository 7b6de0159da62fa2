---------------------------- MODULE MCSaturnVenues ----------------------------
(***************************************************************************)
(* The two venues share nothing but the clock, and each property is about  *)
(* one of them: a behaviour lets one of them move.                         *)
(***************************************************************************)
EXTENDS SaturnVenuesProperties

VARIABLE venue

MCInit == Init /\ venue \in {"marginfi", "meteora"}
MCNext == /\ \/ venue = "marginfi" /\ MarginfiNext
             \/ venue = "meteora" /\ VaultNext
          /\ UNCHANGED venue
MCSpec == MCInit /\ [][MCNext]_<<vars, venue>>
=============================================================================
