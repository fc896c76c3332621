--------------------------- MODULE MCBrowserBroker ---------------------------
(* An instance of BrowserBroker for TLC: a desktop client and a browser tab. *)
EXTENDS BrowserBroker

CONSTANTS desktop, tab, pane, r1
=============================================================================
