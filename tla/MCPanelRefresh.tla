--------------------------- MODULE MCPanelRefresh ---------------------------
(* A panel with two accounts, an instance of one of them, and one deployed from it. *)
EXTENDS PanelRefresh, TLC

CONSTANTS a, b, ka, d

MCOwnerOfKept == ka :> a
=============================================================================
