--------------------------- MODULE MCPlatformUpdate ---------------------------
(* Two updates of an installation and one crash, for TLC. *)
EXTENDS PlatformUpdate

=============================================================================
