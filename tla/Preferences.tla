----------------------------- MODULE Preferences -----------------------------
(* All that the settings dialog edits: the lists (Settings) and the options  *)
(* of the OS scan (ScanOptions).  The pages of the dialog share nothing; a   *)
(* step is one of either.                                                    *)
EXTENDS Settings, ScanOptions

PrefInit == Init /\ ScanInit

PrefNext == (Next /\ UNCHANGED scanVars) \/ (ScanNext /\ UNCHANGED vars)

PrefSpec == PrefInit /\ [][PrefNext]_<<vars, scanVars>>

(* What is done is what the user set: Edit and Delete change the entry that  *)
(* is highlighted (gui-settings.c:545), and nmap is run as the options say   *)
(* (gui-settings.c:276, gui-handlers.c:541).                                 *)
SettingsAreObeyed == DialogIsTrue /\ ScanIsAsAsked
=============================================================================
