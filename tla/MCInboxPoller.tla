---------------------------- MODULE MCInboxPoller ----------------------------
(* Small instances of InboxPoller for TLC: one workspace v, one call a of   *)
(* wait_for_message.                                                        *)
EXTENDS InboxPoller

CONSTANTS v, a
=============================================================================
