------------------------------- MODULE Settings -------------------------------
(* The settings of the GUI: one of the lists of EntryLists with the page of  *)
(* the settings dialog that edits it (src/gui-settings.c), the lookups that  *)
(* use and extend it, the commands they run (Commands), and the file that    *)
(* keeps them (src/gui-config.c, src/cheops-gui.c).  The code of one list    *)
(* touches no other, so a behaviour follows one of the three; the options    *)
(* that the dialog also shows are in ScanOptions and Requests.               *)
(*                                                                           *)
(* What GTK 1.2 does is taken from how the code uses it: a row that is       *)
(* removed while it is highlighted is unselected with a signal, a row put in *)
(* before the highlighted one shifts it without; the settings dialog and the *)
(* dialogs it opens are modal, so menus and file dialogs wait, while replies *)
(* of the agent are still handled and may look a pixmap up.                  *)
(*                                                                           *)
(* A definition marked "Wrong:" is the one below it as a plausible bug would *)
(* have it; no action uses it (README.md, Sensitivity).                      *)
EXTENDS EntryLists, Commands

CONSTANTS
  Ports, Strings,   (* keys: of services (with a protocol), of the others    *)
  Matches,         (* pairs of strings: the first holds the second          *)
  Vals, None,
  BuiltinLines(_),  (* the default_list of each kind                         *)
  NoFile,
  MaxEdits(_)       (* bound on changes of each list and commands            *)

VARIABLES
  kind,        (* which list                                                 *)
  h,           (* the list                                                   *)
  open,        (* the settings dialog is open                                *)
  rows,        (* its rows: the row data                                     *)
  row_number,  (* services_row_number and its like; it outlives the dialog   *)
  high,        (* the row GTK shows highlighted, -1 if none                  *)
  file,        (* what was saved                                             *)
  running,
  edits,       (* changes and commands so far                                *)
  clash,       (* history: this dialog saw an entry replaced under its key   *)
  stale,       (* history: row_number was kept while the rows changed        *)
  broken       (* history: a row that is not there, or its freed structure,  *)
               (* was used                                                   *)

dialog   == <<open, rows, row_number, high, clash, stale, broken>>
session  == <<file, running>>
vars     == <<kind, h, dialog, session, edits, commands>>

KeysOf(k)   == IF k = "services" THEN Ports \X {TCP, UDP, IpTCP, IpUDP} ELSE Strings
(* The keys a user can type: the dialog knows TCP and UDP by their IP numbers *)
UserKeys    == IF kind = "services" THEN Ports \X {IpTCP, IpUDP} ELSE Strings

LinesOf(k) == [key : KeysOf(k), val : Vals]

(* The built-in lines have different keys, of services those that entries    *)
(* are added under; and there is memory for an entry of each key, one more   *)
(* for a script that takes the place of another.                             *)
ASSUME SettingsAssumption ==
  /\ IsFiniteSet(Cells) /\ IsFiniteSet(Ports) /\ IsFiniteSet(Strings)
  /\ Cardinality(KeysOf("services")) <= Cardinality(Cells)
  /\ Cardinality(Strings) < Cardinality(Cells)
  /\ NULL \notin Cells /\ Free # Dead /\ None \notin Vals
  /\ \A k \in Kinds :
       /\ {Free, Dead} \intersect LinesOf(k) = {} /\ NoFile \notin Seq(LinesOf(k))
       /\ BuiltinLines(k) \in Seq(LinesOf(k))
       /\ \A i, j \in DOMAIN BuiltinLines(k) : BuiltinLines(k)[i].key = BuiltinLines(k)[j].key => i = j
  /\ \A i \in DOMAIN BuiltinLines("services") : BuiltinLines("services")[i].key[2] \in {TCP, UDP}

Init ==
  /\ kind \in Kinds
  /\ h = Default(kind, BuiltinLines(kind))
  /\ open = FALSE /\ rows = <<>> /\ row_number = -1 /\ high = -1
  /\ file = NoFile /\ running = TRUE
  /\ edits = 0
  /\ clash = FALSE /\ stale = FALSE /\ broken = FALSE
  /\ CommandsInit

(* The GTK thread is in its main loop, or in that of a dialog.  Nothing that *)
(* is left out when a thread is at thread_list touches what the thread does. *)
Idle    == running /\ ~broken /\ ~touched /\ gtk = "idle"
Quiet   == Idle /\ InSection = {}
MayEdit == edits < MaxEdits(kind) /\ edits' = edits + 1

-----------------------------------------------------------------------------
(* src/gui-settings.c: do_settings *)

(* The rows are the list.  The row number is that of the last dialog.        *)
do_settings ==
  /\ Quiet /\ ~open
  /\ open' = TRUE
  /\ rows' = h.list
  /\ stale' = (row_number >= 0)
  /\ UNCHANGED <<kind, h, row_number, high, clash, broken, session, edits, commands>>

(* OK or Cancel: the lists were changed at once.                             *)
CloseSettings ==
  /\ Quiet /\ open
  /\ open' = FALSE /\ rows' = <<>> /\ high' = -1
  /\ clash' = FALSE /\ stale' = FALSE
  /\ h' = Forget(h, {})
  /\ UNCHANGED <<kind, row_number, broken, session, edits, commands>>

select_row(r)   == row_number' = r

(* Wrong: the row number is kept. *)
unselect_rowNot == UNCHANGED row_number

unselect_row    == row_number' = -1

(* A click on row r: the row that was highlighted is unselected first.       *)
Click(r) ==
  /\ Quiet /\ open
  /\ IF high = r THEN high' = -1 /\ unselect_row ELSE high' = r /\ select_row(r)
  /\ stale' = FALSE
  /\ UNCHANGED <<kind, h, open, rows, clash, broken, session, edits, commands>>

(* Prepending a row moves the highlight down and leaves the row number.      *)
do_add ==
  /\ Quiet /\ open /\ MayEdit
  /\ \E k \in UserKeys, v \in Vals, c \in Unused(h) :
       LET added == add(kind, h, k, v, c)
       IN  /\ clash' = (clash \/ Len(added.h.list) = Len(h.list))
           /\ rows' = <<added.ret>> \o rows
           /\ h' = Forget(added.h, ToSet(rows'))
  /\ high' = IF high >= 0 THEN high + 1 ELSE -1
  /\ stale' = (stale \/ row_number >= 0)
  /\ UNCHANGED <<kind, open, row_number, broken, session, commands>>

RowData == IF row_number < Len(rows) THEN rows[row_number + 1] ELSE NULL

(* Row r is taken out (gtk_clist_remove does nothing if there is none), and  *)
(* the rows back put in its place.                                           *)
ReplaceRow(r, back) ==
  IF r >= Len(rows) THEN UNCHANGED <<rows, high>>
  ELSE /\ rows' = SubSeq(rows, 1, r) \o back \o SubSeq(rows, r + 2, Len(rows))
       /\ high' = CASE high = r -> -1
                    [] high > r -> high + Len(back) - 1
                    [] OTHER    -> high

(* Edit: the dialog shows the entry of the row, freed or not.  Then the row  *)
(* is taken out and, unless the dialog returned NULL, put back.              *)
do_edit_broken ==
  /\ Quiet /\ open /\ row_number >= 0
  /\ ~Usable(h, RowData)
  /\ broken' = TRUE
  /\ UNCHANGED <<kind, h, open, rows, row_number, high, clash, stale, session,
                 edits, commands>>

EditRow(ret) ==
  /\ ReplaceRow(row_number, IF ret = NULL THEN <<>> ELSE <<ret>>)
  /\ IF high = row_number THEN unselect_row ELSE UNCHANGED row_number
  /\ stale' = (stale /\ high # row_number)

(* Its dialog is cancelled, or left with an empty field.                     *)
do_edit_nothing ==
  /\ Quiet /\ open /\ row_number >= 0
  /\ Usable(h, RowData)
  /\ EditRow(RowData) \/ EditRow(NULL)
  /\ UNCHANGED <<kind, h, open, clash, broken, session, edits, commands>>

do_edit ==
  /\ Quiet /\ open /\ row_number >= 0 /\ MayEdit
  /\ Usable(h, RowData)
  /\ \E k \in UserKeys, v \in Vals, c \in Unused(h) :
       LET done == change(kind, h, RowData, k, v, c)
       IN  /\ clash' = (clash \/ (kind = "scripts" /\ Len(done.h.list) < Len(h.list)))
           /\ EditRow(done.ret)
           /\ h' = Forget(done.h, ToSet(rows'))
  /\ UNCHANGED <<kind, open, broken, session, commands>>

(* Delete: the entry is searched by its address, nothing is read from it.    *)
do_delete ==
  /\ Quiet /\ open /\ row_number >= 0 /\ MayEdit
  /\ ReplaceRow(row_number, <<>>)
  /\ h' = Forget(remove_ptr(kind, h, RowData), ToSet(rows'))
  /\ row_number' = -1
  /\ stale' = FALSE
  /\ UNCHANGED <<kind, open, clash, broken, session, commands>>

-----------------------------------------------------------------------------
(* The users of the lists. *)

(* A lookup in an empty list builds it in again.                             *)
Filled == IF h.list = <<>> THEN Default(kind, BuiltinLines(kind)) ELSE h

(* src/gui-pixmap.c, for an OS string s that no entry matches: the user is   *)
(* asked for one.  A reply of the agent may come here at any time.           *)
os_pixmap_list_get(s) ==
  /\ Quiet /\ kind = "pixmaps"
  /\ \/ h' = Filled /\ h # Filled /\ MayEdit
     \/ /\ \A c \in Listed(Filled) : <<s, Filled.at[c].key>> \notin Matches
        /\ MayEdit
        /\ \E k \in UserKeys, v \in Vals, c \in Unused(Filled) :
             h' = add(kind, Filled, k, v, c).h
  /\ UNCHANGED <<kind, dialog, session, commands>>

(* src/gui-service.c, for a port of a host: the command is run if an entry   *)
(* has this port and protocol, else the user is asked for one and it is      *)
(* looked for again.  The menus wait while the settings are open.            *)
service_callback(k) ==
  /\ Idle /\ ~open /\ kind = "services" /\ k[2] \in {TCP, UDP} /\ MayEdit
  /\ \/ /\ Holders(Filled, k) # {}
        /\ h' = Filled
     \/ /\ Holders(Filled, k) = {}
        /\ \E key \in UserKeys, v \in Vals, c \in Unused(Filled) :
             h' = add(kind, Filled, key, v, c).h
  /\ IF Holders(h', k) # {} THEN pthread_mutex_init ELSE UNCHANGED commands
  /\ UNCHANGED <<kind, dialog, session>>

(* src/gui-canvas.c: a script is picked from the menu of a host.             *)
page_object_script_callback ==
  /\ Idle /\ ~open /\ kind = "scripts" /\ h.list # <<>> /\ MayEdit
  /\ pthread_mutex_init
  /\ UNCHANGED <<kind, h, dialog, session>>

Command ==
  /\ running /\ ~broken /\ ~touched
  /\ run_command_callback \/ \E t \in Threads : run_service(t)
  /\ UNCHANGED <<kind, h, dialog, session, edits>>

-----------------------------------------------------------------------------
(* src/gui-config.c *)

write_config_file ==
  file' = Entries(h)

read_lines == AddAll(kind, Default(kind, BuiltinLines(kind)), file)

(* The file, or one that does not exist. *)
read_config_file ==
  h' = IF file = NoFile THEN Default(kind, BuiltinLines(kind)) ELSE read_lines

-----------------------------------------------------------------------------
(* src/cheops-gui.c *)

(* Save and Save As. *)
do_save ==
  /\ Quiet /\ ~open
  /\ write_config_file
  /\ UNCHANGED <<kind, h, dialog, running, edits, commands>>

(* Open, with the answer to "save your session?", which is not asked if the  *)
(* option says to save: the file is written and a dialog for the file to     *)
(* open comes up, or, after a yes, the program ends.  (Without a file name a *)
(* yes brings up a dialog whose OK opens that dialog and saves nothing.)     *)
do_open ==
  /\ Quiet /\ ~open /\ file # NoFile
  /\ write_config_file
  /\ UNCHANGED running \/ running' = FALSE
  /\ UNCHANGED <<kind, h, dialog, edits, commands>>

(* OK in that dialog, which may have come up long before.                    *)
open_file_and_read_config_file ==
  /\ Quiet /\ ~open
  /\ read_config_file
  /\ UNCHANGED <<kind, dialog, file, running, edits, commands>>

(* Quit, with the session saved or not; its Save As dialog saves and ends.   *)
do_quit ==
  /\ Quiet
  /\ write_config_file \/ UNCHANGED file
  /\ running' = FALSE
  /\ UNCHANGED <<kind, h, dialog, edits, commands>>

(* The next start: everything is as at the first, then the file is read.     *)
make_main_window ==
  /\ ~running
  /\ read_config_file
  /\ open' = FALSE /\ rows' = <<>> /\ row_number' = -1 /\ high' = -1
  /\ clash' = FALSE /\ stale' = FALSE /\ broken' = FALSE
  /\ running' = TRUE
  /\ gtk' = "idle" /\ new' = Nil
  /\ pc' = [t \in Threads |-> "none"] /\ walk' = [t \in Threads |-> Nil]
  /\ locked' = FALSE /\ thread_list' = Nil /\ next' = [t \in Threads |-> Nil]
  /\ alive' = {} /\ reinitialized' = FALSE /\ touched' = FALSE
  /\ UNCHANGED <<kind, file, edits>>

(* A row that is not there is NULL and ends the process; so may freed memory. *)
Crash ==
  /\ running /\ (broken \/ touched)
  /\ running' = FALSE
  /\ UNCHANGED <<kind, h, dialog, file, edits, commands>>

Next ==
  \/ do_settings \/ CloseSettings
  \/ \E r \in 0..(Len(rows) - 1) : Click(r)
  \/ do_add \/ do_edit \/ do_edit_nothing \/ do_edit_broken \/ do_delete
  \/ \E s \in Strings : os_pixmap_list_get(s)
  \/ \E k \in KeysOf(kind) : service_callback(k)
  \/ page_object_script_callback
  \/ Command
  \/ do_save \/ do_open \/ open_file_and_read_config_file
  \/ do_quit \/ make_main_window \/ Crash

Spec == Init /\ [][Next]_vars

-----------------------------------------------------------------------------
(* Properties. *)

AsTable(lines) ==
  [key \in KeysOf(kind) |->
     IF \E i \in DOMAIN lines : lines[i].key = key
     THEN lines[CHOOSE i \in DOMAIN lines : lines[i].key = key].val ELSE None]

StoredKey(k, key) == IF k = "services" THEN AsEnum(key) ELSE key

BuiltinTable(k) ==
  [key \in KeysOf(k) |->
     IF \E i \in DOMAIN BuiltinLines(k) : BuiltinLines(k)[i].key = key
     THEN BuiltinLines(k)[CHOOSE i \in DOMAIN BuiltinLines(k) : BuiltinLines(k)[i].key = key].val
     ELSE None]

Table == INSTANCE Tables WITH
  Keys <- KeysOf, Builtin <- BuiltinTable, Stored <- StoredKey,
  table <- AsTable(Entries(h)),
  file <- IF file = NoFile THEN [key \in KeysOf(kind) |-> None] ELSE AsTable(file)

(* Through stale row numbers, replaced entries, lookups while the dialog is  *)
(* open, restarts and files: the list is a table, in which an edit changes   *)
(* or drops one entry, and what a start reads is what was saved.             *)
ImplementsTables == Table!Spec

(* The row number, which Edit and Delete go by, is that of the row shown     *)
(* highlighted, as long as it was not kept over an Add or from one dialog to *)
(* the next (gui-settings.c:521, 1484).                                      *)
HighlightIsMeant ==
  open /\ row_number >= 0 /\ ~stale => high = row_number

(* As long as no entry was replaced under its key, each row shows an entry   *)
(* of the list and no two the same; so a row that is not there, or a freed   *)
(* structure, is used only after such a replacement or by a stale number.    *)
RowsAreEntries ==
  /\ ~clash => ToSet(rows) \subseteq Listed(h) /\ IsInjective(rows)
  /\ broken => clash \/ stale

(* What Edit and Delete change is the entry the user sees highlighted        *)
(* (gui-settings.c:545).                                                     *)
DialogIsTrue == HighlightIsMeant /\ RowsAreEntries
=============================================================================
