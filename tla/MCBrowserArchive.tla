-------------------------- MODULE MCBrowserArchive --------------------------
(* Model-checking instance of BrowserArchive. *)
EXTENDS BrowserArchive
=============================================================================
