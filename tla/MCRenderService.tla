--------------------------- MODULE MCRenderService ---------------------------
(* An instance of RenderService for TLC: its bounds are set in the .cfg.    *)
EXTENDS RenderService
=============================================================================
