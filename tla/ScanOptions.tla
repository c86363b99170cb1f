----------------------------- MODULE ScanOptions -----------------------------
(* From the options of the OS detection to the command line of nmap: the     *)
(* settings dialog and the flags derived from it (src/gui-settings.c), the   *)
(* file that keeps them (src/gui-config.c), the request of the GUI           *)
(* (src/gui-handlers.c), the memory in which the agent receives it, and the  *)
(* command (src/agent-nmapxml.c).  When the agent takes a request up, and    *)
(* for whom, is in OsScan; one request is on its way at a time here.         *)
(*                                                                           *)
(* The ports to scan are a text shorter than their 100 bytes.  The request   *)
(* ends with its last character: the GUI counts no byte for the NUL, and the *)
(* agent reads on in its receive buffer, which it never clears.              *)
(*                                                                           *)
(* A definition marked "Wrong:" is the one below it as a plausible bug would *)
(* have it; no action uses it (README.md, Sensitivity).                      *)
EXTENDS Integers, Sequences, SequencesExt, FiniteSetsExt

CONSTANTS
  Settable,   (* what the user may set: [on, tcp, timing, ports]             *)
  Chars, NUL, Nothing,
  Buffers,    (* what malloc may leave where the ports of a request will be; *)
              (* each ends with a NUL                                        *)
  Others      (* the bytes that other requests may have there                *)

VARIABLES
  options,    (* options_os_scan_udp_scan and its like                       *)
  options_os_scan_flags,
  saved,      (* the options in the file, Nothing if there is none           *)
  request,    (* on its way to the agent, or Nothing                         *)
  buffer,     (* the receive buffer of the agent, from the ports on          *)
  command,    (* the last one run, or Nothing                                *)
  asked,      (* history: the options it was asked for with                  *)
  opened,     (* history: a file was opened since the flags were all applied *)
  longest     (* history: how far anything has reached in buffer             *)

gui      == <<options, options_os_scan_flags, saved, opened>>
agent    == <<buffer, command, longest>>
scanVars == <<gui, agent, request, asked>>

(* src/event.h: the flags of which one is set at a time *)
TcpFlag ==
  [Connect |-> "TCP_CONNECT_SCAN", SYN |-> "TCP_SYN_SCAN", FIN |-> "STEALTH_FIN",
   XMAS |-> "STEALTH_XMAS", NULLScan |-> "STEALTH_NULL"]
SCAN_MASK == {TcpFlag[s] : s \in DOMAIN TcpFlag}
TimingFlag ==
  [Normal |-> "TIMING_NORMAL", Paranoid |-> "TIMING_PARANOID", Sneaky |-> "TIMING_SNEAKY",
   Polite |-> "TIMING_POLITE", Aggressive |-> "TIMING_AGGRESSIVE", Insane |-> "TIMING_INSANE"]
TIMING_MASK == {TimingFlag[s] : s \in DOMAIN TimingFlag}

(* The check buttons *)
Toggles ==
  {"UDP_SCAN", "FASTSCAN", "OSSCAN", "USE_PORT_RANGE", "DONT_PING", "RPC_SCAN", "IDENTD_SCAN"}

AllOptions ==
  [on : SUBSET Toggles, tcp : DOMAIN TcpFlag, timing : DOMAIN TimingFlag,
   ports : Seq(Chars \ {NUL})]

(* The ports have a field of their own, and no request reaches the end of    *)
(* the receive buffer: one that did would end the agent (event.c:305).       *)
ASSUME ScanOptionsAssumption ==
  /\ Settable \subseteq AllOptions
  /\ Others \subseteq Seq(Chars)
  /\ \A b \in Buffers :
       /\ b \in Seq(Chars) /\ b # <<>> /\ Last(b) = NUL
       /\ \A o \in Settable : Len(o.ports) < Len(b)
       /\ \A bytes \in Others : Len(bytes) < Len(b)
  /\ Nothing \notin Seq(Chars)

-----------------------------------------------------------------------------
(* src/gui-settings.c *)

(* The flags a setting is about, and those that the options set of them: the *)
(* flags of RPC and identd follow the button of the OS scan.                 *)
FlagsOf(i) == CASE i = "TCP_SCAN" -> SCAN_MASK [] i = "TIMING" -> TIMING_MASK [] OTHER -> {i}

SetBy(i, o) ==
  CASE i = "TCP_SCAN" -> {TcpFlag[o.tcp]}
    [] i = "TIMING"   -> {TimingFlag[o.timing]}
    [] i \in {"RPC_SCAN", "IDENTD_SCAN"} -> IF "OSSCAN" \in o.on THEN {i} ELSE {}
    [] OTHER          -> IF i \in o.on THEN {i} ELSE {}

(* Wrong: the flag of the scan that was chosen before stays set. *)
apply_the_settingKeeping(f, i, o) ==
  (IF i = "TCP_SCAN" THEN f ELSE f \ FlagsOf(i)) \union SetBy(i, o)

apply_the_setting(f, i, o) == (f \ FlagsOf(i)) \union SetBy(i, o)

(* In the order of their numbers. *)
apply_all_settings(f, o) ==
  LET apply(g, i) == apply_the_setting(g, i, o)
      first  == apply(apply(apply(f, "UDP_SCAN"), "TCP_SCAN"), "FASTSCAN")
      second == apply(apply(apply(first, "OSSCAN"), "USE_PORT_RANGE"), "DONT_PING")
  IN  apply(apply(apply(second, "TIMING"), "RPC_SCAN"), "IDENTD_SCAN")

(* Apply or OK.  What is applied button by button before that is all applied *)
(* again.                                                                    *)
apply_settings ==
  /\ options' \in Settable
  /\ options_os_scan_flags' = apply_all_settings(options_os_scan_flags, options')
  /\ opened' = FALSE
  /\ UNCHANGED <<saved, request, agent, asked>>

-----------------------------------------------------------------------------
(* src/gui-config.c: write_config_file, read_config_file *)

write_options ==
  /\ saved' = options
  /\ UNCHANGED <<options, options_os_scan_flags, opened, request, agent, asked>>

(* Every option is applied when it is read, those of RPC and identd before   *)
(* the OS scan, which they follow, is read.                                  *)
read_options ==
  LET apply(g, i) == apply_the_setting(g, i, saved)
      follow(g, i) == apply_the_setting(g, i, options)
      first  == apply(apply(apply(options_os_scan_flags, "TCP_SCAN"), "TIMING"), "UDP_SCAN")
      second == apply(follow(follow(first, "RPC_SCAN"), "IDENTD_SCAN"), "FASTSCAN")
  IN  /\ saved # Nothing
      /\ options' = saved
      /\ options_os_scan_flags' =
           apply(apply(apply(second, "OSSCAN"), "DONT_PING"), "USE_PORT_RANGE")

(* src/cheops-gui.c: open_file_and_read_config_file *)
OpenFile ==
  /\ read_options
  /\ opened' = TRUE
  /\ UNCHANGED <<saved, request, agent, asked>>

-----------------------------------------------------------------------------
(* src/gui-handlers.c *)

do_os_scan ==
  /\ request = Nothing
  /\ request' = [options |-> options_os_scan_flags, ports |-> options.ports]
  /\ asked' = [options |-> options, opened |-> opened]
  /\ command' = Nothing
  /\ UNCHANGED <<gui, buffer, longest>>

-----------------------------------------------------------------------------
(* The agent. *)

Over(bytes, old) == [i \in DOMAIN old |-> IF i <= Len(bytes) THEN bytes[i] ELSE old[i]]

(* The string that starts where the buffer does *)
String(b) == SubSeq(b, 1, Min({i \in DOMAIN b : b[i] = NUL}) - 1)

Reach(b) == Max({0} \union {i \in DOMAIN b : b[i] # NUL})

(* src/agent-nmapxml.c: the word of each flag *)
ScanWord ==
  [TCP_CONNECT_SCAN |-> "-sT", TCP_SYN_SCAN |-> "-sS", STEALTH_FIN |-> "-sF",
   STEALTH_XMAS |-> "-sX", STEALTH_NULL |-> "-sN"]
TimingWord ==
  [TIMING_NORMAL |-> "-T Normal", TIMING_PARANOID |-> "-T Paranoid",
   TIMING_SNEAKY |-> "-T Sneaky", TIMING_POLITE |-> "-T Polite",
   TIMING_AGGRESSIVE |-> "-T Aggressive", TIMING_INSANE |-> "-T Insane"]
Word ==
  [OSSCAN |-> "-O", UDP_SCAN |-> "-sU", RPC_SCAN |-> "-sR", IDENTD_SCAN |-> "-I",
   FASTSCAN |-> "-F", DONT_PING |-> "-P0"]

(* A switch over the masked flags: more than one of them is no case.         *)
OneOf(flags, mask, word) ==
  IF \E f \in mask : flags \intersect mask = {f} THEN {word[f] : f \in flags \intersect mask}
  ELSE {}

runNmapScan(flags, ports) ==
  [words |-> OneOf(flags, SCAN_MASK, ScanWord) \union OneOf(flags, TIMING_MASK, TimingWord)
               \union {Word[f] : f \in flags \intersect DOMAIN Word},
   ports |-> IF "USE_PORT_RANGE" \in flags THEN ports ELSE Nothing]

(* src/agent-osscan.c.  If the next request has come with this one, its      *)
(* length follows, which begins with a zero byte.                            *)
handle_osscan_request ==
  /\ request # Nothing
  /\ \E next \in {<<>>, <<NUL>>} : buffer' = Over(request.ports \o next, buffer)
  /\ longest' = Max({longest, Len(request.ports)})
  /\ command' = runNmapScan(request.options, String(buffer'))
  /\ request' = Nothing
  /\ UNCHANGED <<gui, asked>>

(* Another request, of discovery or the like, is received. *)
OtherRequest ==
  /\ \E bytes \in Others : /\ buffer' = Over(bytes, buffer)
                           /\ longest' = Max({longest, Reach(bytes)})
  /\ UNCHANGED <<gui, command, request, asked>>

-----------------------------------------------------------------------------
ScanInit ==
  /\ options \in Settable
  /\ options_os_scan_flags = apply_all_settings({}, options)
  /\ saved = Nothing /\ opened = FALSE
  /\ request = Nothing /\ asked = Nothing /\ command = Nothing
  /\ buffer \in Buffers /\ longest = Reach(buffer)

ScanNext ==
  \/ apply_settings \/ write_options \/ OpenFile
  \/ do_os_scan \/ handle_osscan_request \/ OtherRequest

ScanSpec == ScanInit /\ [][ScanNext]_scanVars

-----------------------------------------------------------------------------
(* Properties. *)

(* nmap's manual: what the user means by each choice *)
Meant(o) ==
  [Connect |-> {"-sT"}, SYN |-> {"-sS"}, FIN |-> {"-sF"}, XMAS |-> {"-sX"}, NULLScan |-> {"-sN"}][o.tcp]
  \union {[Normal |-> "-T Normal", Paranoid |-> "-T Paranoid", Sneaky |-> "-T Sneaky",
           Polite |-> "-T Polite", Aggressive |-> "-T Aggressive", Insane |-> "-T Insane"][o.timing]}
  \union UNION {[OSSCAN |-> {"-O"}, UDP_SCAN |-> {"-sU"}, FASTSCAN |-> {"-F"},
                 DONT_PING |-> {"-P0"}, RPC_SCAN |-> {}, IDENTD_SCAN |-> {},
                 USE_PORT_RANGE |-> {}][i] : i \in o.on}

(* nmap is run as the options said when the scan was asked for, whatever was *)
(* changed, saved, opened and received since.  But "-sR" and "-I" go with    *)
(* "-O", or, from a file that was opened, with the "-O" of some time before  *)
(* (gui-settings.c:276); and the ports may go on with bytes of an earlier    *)
(* request, unless none reached as far (gui-handlers.c:541).                 *)
ScanIsAsAsked ==
  command # Nothing =>
    LET o    == asked.options
        both == command.words \intersect {"-sR", "-I"}
    IN  /\ command.words \ both = Meant(o)
        /\ both \in {{}, {"-sR", "-I"}}
        /\ ~asked.opened => (both # {} <=> "OSSCAN" \in o.on)
        /\ command.ports # Nothing <=> "USE_PORT_RANGE" \in o.on
        /\ command.ports # Nothing => IsPrefix(o.ports, command.ports)
        /\ command.ports # Nothing /\ longest <= Len(o.ports) => command.ports = o.ports
=============================================================================
