-------------------------- MODULE WlcConfiguration --------------------------
(***************************************************************************)
(* The parser of AireOS controllers, whose configuration is the commands   *)
(* that bring it about.  What is said of one network is scattered, and is  *)
(* drafted command by command; its security is told at the end.            *)
(***************************************************************************)
EXTENDS ConfigReader, FiniteSetsExt

Ending(kind) == LastOf(config, kind)

WlcDevice == [hostname |-> FirstKnown(<<Ending("sysname"), FirstOf(config, "System Name")>>), version |-> Ending("Product Version"), model |-> Ending("Model")]
WlcManagement == [telnet |-> Ending("network telnet"), ssh |-> Ending("network ssh"), http |-> Ending("network webmode"),
                  https |-> Ending("network secureweb"), timeout |-> IF Ending("sessions timeout") = NotFound THEN NotFound ELSE 60 * Ending("sessions timeout")]

\* Every server is kept; it has a key if its line is long enough to hold one.
WlcServers == EachOf(config, "aaa host", LAMBDA s : [type |-> s.val, key |-> Has(s.body, "key")])
\* Each order of methods is kept, and the last one says whether there is a way back.
WlcFallback == IF Has(config, "aaa auth mgmt") THEN "local" \in Ending("aaa auth mgmt") ELSE NotFound
WlcUsers == EachOf(config, "mgmtuser", LAMBDA s : [privilege |-> IF s.val = "read-write" THEN 15 ELSE NotFound])

\* Communities are made and never known to be gone; a version that is switched off
\* switches off both, whatever came before.
WlcSnmp ==
    [communities |-> EachOf(config, "snmp community", LAMBDA s : [default |-> s.val = "public"]),
     enabled |-> IF \E s \in ToSet(Of(config, "snmp version")) : s.val[2] = "disable" THEN FALSE
                 ELSE OrNotFound(Has(config, "snmp community"))]
WlcLogging == EachOf(config, "logging host", LAMBDA s : s.val)
WlcNtp == IF Has(config, "ntp server") THEN FALSE ELSE NotFound
WlcInterfaces ==
    LET named == {s.val[2] : s \in ToSet(Of(config, "interface command"))}
        of(name, action) == SelectSeq(Of(config, "interface command"), LAMBDA s : s.val[1] = action /\ s.val[2] = name)
    IN {[name |-> n, vlan |-> IF of(n, "vlan") = <<>> THEN NotFound ELSE of(n, "vlan")[Len(of(n, "vlan"))].val[3],
         addresses |-> {s.val[3] : s \in ToSet(of(n, "address"))}] : n \in named}
-----------------------------------------------------------------------------
(* Networks.  A command is the identifier of a network and a setting.      *)
NoDraft == [ssid |-> NotFound, enabled |-> NotFound, broadcast |-> NotFound, none |-> NotFound, wep |-> NotFound,
            wpa |-> NotFound, wpa2 |-> NotFound, wpa3 |-> NotFound, akms |-> {}, isolated |-> NotFound]

\* Mutant: a network that was open stays open.
Drafted_Sticky(draft, setting, value) ==
    CASE setting \in {"ssid", "enabled", "broadcast", "wep", "wpa", "wpa2", "wpa3", "isolated"} -> [draft EXCEPT ![setting] = value]
      [] setting = "security wpa" -> IF value THEN draft ELSE [draft EXCEPT !.wpa = FALSE, !.wpa2 = FALSE, !.wpa3 = FALSE]
      [] setting = "none" -> [draft EXCEPT !.none = TRUE]
      [] setting = "akm" -> [draft EXCEPT !.akms = @ \cup {value}]
      [] setting = "no akm" -> [draft EXCEPT !.akms = @ \ {value}]
      [] OTHER -> draft

Drafted(draft, setting, value) ==
    CASE setting \in {"ssid", "enabled", "broadcast", "wep", "wpa", "wpa2", "wpa3", "isolated"} -> [draft EXCEPT ![setting] = value]
      [] setting = "security wpa" -> IF value THEN [draft EXCEPT !.none = FALSE]
                                     ELSE [draft EXCEPT !.wpa = FALSE, !.wpa2 = FALSE, !.wpa3 = FALSE]
      [] setting = "none" -> [draft EXCEPT !.none = TRUE]
      [] setting = "akm" -> [draft EXCEPT !.akms = @ \cup {value}, !.none = FALSE]
      [] setting = "no akm" -> [draft EXCEPT !.akms = @ \ {value}]
      [] OTHER -> draft

\* What the evidence decides: nothing at all is not open.
Classify(draft) ==
    CASE draft.none = TRUE -> "open"
      [] draft.none # TRUE /\ draft.wep = TRUE -> "wep"
      [] draft.none # TRUE /\ draft.wep # TRUE /\ "owe" \in draft.akms -> "owe"
      [] OTHER ->
           CASE draft.wpa3 = TRUE -> IF "sae" \in draft.akms THEN "wpa3-sae" ELSE IF "802.1x" \in draft.akms THEN "wpa3-ent" ELSE "wpa3"
             [] draft.wpa3 # TRUE /\ draft.wpa2 = TRUE ->
                  IF "802.1x" \in draft.akms THEN "wpa2-ent" ELSE IF "psk" \in draft.akms THEN "wpa2-psk" ELSE "wpa2"
             [] draft.wpa3 # TRUE /\ draft.wpa2 # TRUE /\ draft.wpa = TRUE -> "wpa1"
             [] OTHER -> NotFound

\* One that was never created in what was collected is kept under its identifier.
WlanIds == {s.val[1] : s \in ToSet(Of(config, "wlan command"))}
DraftOf(id) ==
    FoldLeft(LAMBDA draft, s : IF s.val[1] = id THEN Drafted(draft, s.val[2], s.val[3]) ELSE draft, NoDraft, Of(config, "wlan command"))
WlcWlans == {[ssid |-> IF DraftOf(id).ssid = NotFound THEN id ELSE DraftOf(id).ssid, enabled |-> DraftOf(id).enabled,
              broadcast |-> DraftOf(id).broadcast, security |-> Classify(DraftOf(id))] : id \in WlanIds}

\* The columns of the table of access points that have been where they are.
WlcAps == EachOf(config, "ap row", LAMBDA s : s.val)
RogueDetection == FirstKnown(<<Ending("wps rogue detection"), Ending("rogue detection")>>)
-----------------------------------------------------------------------------
WlcRisks == {"telnet", "http", "community", "open network", "wep", "no fallback", "time", "no limit"}

\* What a network is after its commands: without any security, or with WEP.
Standing(id, S) ==
    LET mine == SelectSeq(Of(config, "wlan command"), LAMBDA s : s.val[1] = id /\ s.val[2] \in S)
    IN IF mine = <<>> THEN NotFound ELSE mine[Len(mine)].val
WlcOpen(id) ==
    LET last == Standing(id, {"none", "security wpa", "akm"}) IN
    /\ last # NotFound /\ last[2] # "akm" /\ last[3] = (last[2] = "none")
    /\ Standing(id, {"wep"}) = NotFound \/ Standing(id, {"wep"})[3] = FALSE
WlcExposes ==
    LET set(kind, v) == Has(config, kind) /\ Ending(kind) = v IN
    {x \in WlcRisks :
        CASE x = "telnet" -> set("network telnet", TRUE) [] x = "http" -> set("network webmode", TRUE)
          [] x = "no limit" -> set("sessions timeout", 0)
          [] x = "community" -> /\ Has(config, "snmp community")
                                /\ \E v \in {"v1", "v2c"} : ~\E s \in ToSet(Of(config, "snmp version")) : s.val = <<v, "disable">>
          [] x = "open network" -> \E id \in WlanIds : WlcOpen(id)
          [] x = "wep" -> \E id \in WlanIds : Standing(id, {"wep"}) # NotFound /\ Standing(id, {"wep"})[3] /\ ~WlcOpen(id)
          [] x = "no fallback" -> Has(config, "aaa auth mgmt") /\ "local" \notin Ending("aaa auth mgmt")
          [] x = "time" -> Has(config, "ntp server")}
WlcShows ==
    {x \in WlcRisks :
        CASE x = "telnet" -> WlcManagement.telnet = TRUE [] x = "http" -> WlcManagement.http = TRUE
          [] x = "no limit" -> WlcManagement.timeout = 0
          [] x = "community" -> WlcSnmp.enabled = TRUE
          [] x = "open network" -> \E w \in WlcWlans : w.security = "open"
          [] x = "wep" -> \E w \in WlcWlans : w.security = "wep"
          [] x = "no fallback" -> WlcFallback = FALSE
          [] x = "time" -> WlcNtp = FALSE}

\* Security that is switched off leaves a network nothing is known of; one version of
\* SNMP that is off hides the other, and no security at all hides WEP.
WlcHides ==
    {x \in {"open network", "community", "wep"} :
        CASE x = "open network" -> \E id \in WlanIds : Standing(id, {"none", "security wpa", "akm"}) # NotFound
                                       /\ Standing(id, {"none", "security wpa", "akm"})[2] = "security wpa"
          [] x = "community" -> Has(config, "snmp version")
          [] x = "wep" -> \E id \in WlanIds : DraftOf(id).none = TRUE}
\* A network stays open in its reading when its security is switched off after none.
WlcInvents == IF \E id \in WlanIds : DraftOf(id).none = TRUE /\ DraftOf(id).wep = TRUE THEN {"open network"} ELSE {}
=============================================================================
