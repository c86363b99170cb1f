------------------------------ MODULE MCSettings ------------------------------
(* Preferences with one port, two strings of which one holds the other, and  *)
(* one built-in entry of each kind.                                          *)
(*                                                                           *)
(* The two halves share no variable, so a behaviour is one of either: the    *)
(* variable part says of which.                                              *)
EXTENDS Preferences, TLC

VARIABLE part

MCInit ==
  /\ PrefInit
  /\ \/ part = "lists" /\ options.ports = <<>> /\ options.tcp = "Connect" /\ buffer[1] = ""
     \/ part = "scan" /\ kind = "services" /\ options.tcp = "Connect"

MCNext ==
  \/ part = "lists" /\ Next /\ UNCHANGED <<part, scanVars>>
  \/ part = "scan" /\ ScanNext /\ UNCHANGED <<part, vars>>

MCSpec == MCInit /\ [][MCNext]_<<part, vars, scanVars>>

MCPorts == {21}
MCStrings == {"Linux", "Linux 2.4"}
MCMatches == {<<"Linux", "Linux">>, <<"Linux 2.4", "Linux">>, <<"Linux 2.4", "Linux 2.4">>}
MCBuiltin(k) ==
  IF k = "services" THEN << [key |-> <<21, TCP>>, val |-> "x"] >>
  ELSE << [key |-> "Linux", val |-> "x"] >>

MCMaxEdits(k) == IF k = "services" THEN 2 ELSE 3

(* As the program starts; the same with a few ports; and one that differs in *)
(* everything, with more ports.                                              *)
MCSettable ==
  LET default == [on |-> {"FASTSCAN", "OSSCAN", "RPC_SCAN", "IDENTD_SCAN", "DONT_PING"},
                  tcp |-> "Connect", timing |-> "Normal", ports |-> <<>>]
      some    == [default EXCEPT !.on = @ \union {"USE_PORT_RANGE"}, !.ports = <<"2">>]
      most    == [on |-> {"UDP_SCAN", "USE_PORT_RANGE"}, tcp |-> "SYN", timing |-> "Insane",
                  ports |-> <<"3", "4">>]
  IN  {default, some, most}

MCBuffers == {<<"", "", "", "">>, <<"9", "", "9", "">>}
MCOthers  == {<<"7", "">>, <<"", "7", "7">>}

MCSymmetry == Permutations(Cells) \union Permutations(Threads)
=============================================================================
