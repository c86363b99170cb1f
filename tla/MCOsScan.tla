------------------------------ MODULE MCOsScan ------------------------------
(* OsScan with two clients and three requests: two replies can run into     *)
(* each other while a third request waits.                                  *)
(*                                                                         *)
(* And ScanReports, with documents of no to four ports, of which the        *)
(* largest has more to say than fits.  OsScan is about when a reply leaves  *)
(* and ScanReports about what is in it; they share no variable, so a        *)
(* behaviour is one of either: the variable part says of which.             *)
EXTENDS OsScan, ScanReports

VARIABLE part

MCHost(addrtype, ports, matches, uptime) ==
  << [addrs |-> <<[addr |-> "a", addrtype |-> addrtype], [addr |-> "m", addrtype |-> "mac"],
                  [addr |-> None, addrtype |-> "ipv4"]>>,
      ports |-> ports, matches |-> matches, uptime |-> uptime] >>

MCPort(id, state, service, owner) ==
  [id |-> id, protocol |-> "tcp", state |-> state, service |-> service, owner |-> owner]

MCDocuments ==
  LET full  == << MCPort(22, "open", <<"s", "h">>, <<"r">>), MCPort(79, "unfiltered", None, None) >>
      one   == << MCPort(79, "open", None, <<"u">>) >>
      other == << MCPort(79, "open", <<"f">>, None), MCPort(25, "filtered", <<"m">>, None) >>
  IN  {None, [root |-> "html", hosts |-> <<>>]}
      \union {[root |-> "nmaprun", hosts |-> h] : h \in
        {<<>>, MCHost("ipv6", one, <<>>, None),
         MCHost("ipv4", full, <<<<"L">>>>, [seconds |-> 9, lastboot |-> <<"d">>]),
         MCHost("ipv4", one, <<>>, [seconds |-> None, lastboot |-> <<"d">>]),
         MCHost("ipv4", other, <<<<"A">>, <<"B">>, None>>, [seconds |-> 5, lastboot |-> None]),
         MCHost("ipv4", full \o other, <<<<"L">>>>, None)}}

MCInit == Init /\ ReportsInit /\ part \in {"scans", "reports"}

MCNext ==
  \/ part = "scans" /\ Next /\ UNCHANGED <<part, reportsVars>>
  \/ part = "reports" /\ ReportsNext /\ UNCHANGED <<part, vars>>

MCSpec == MCInit /\ [][MCNext]_<<part, vars, reportsVars>> /\ (part = "scans" => Fairness)
=============================================================================
