-------------------------- MODULE MCP2pkhTransfers --------------------------
(* A transfer and a funding plan compete for two coins and for each        *)
(* other's change.                                                         *)
EXTENDS P2pkhTransfers
=============================================================================
