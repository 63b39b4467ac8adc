----------------------------- MODULE RouteTables -----------------------------
(***************************************************************************)
(* How a device's routes are read: the static routes of its configuration, *)
(* the networks of its interfaces, and the tables it prints of what it     *)
(* forwards by.  A table is read line by line, with what was said above    *)
(* carried down; the routes of one of the sources are kept, under a cap.   *)
(***************************************************************************)
EXTENDS Integers, SequencesExt

CONSTANTS
    Width,              \* of an address
    Static,             \* static routes, as they are meant
    Attachment,         \* interfaces: address, length or none, state
    CiscoLine, NxosLine, GaiaLine, \* lines of the tables
    MaxRoutes,          \* routes kept of a device
    Default,            \* the destination that is everything, by its name
    NoHop, NoInterface, NoVrf, NoPrefix, NoNumber,
    MaxTableLines       \* bound: lines of a table

VARIABLES
    statics, attached,  \* the configuration
    dialect, printed      \* the table a device prints, in one of three dialects

routeVars == <<statics, attached, dialect, printed>>

Lowest(at, length) == 2 ^ (Width - length) * (at \div 2 ^ (Width - length))
Network(at, length) == <<Lowest(at, length), length>>
-----------------------------------------------------------------------------
(* One line of a configuration.  Its words are told apart by what they     *)
(* are, not by where they stand.                                           *)
MaskLength(mask) == {l \in 0 .. Width : mask = 2 ^ Width - 2 ^ (Width - l)}
HostMaskLength(mask) == {l \in 0 .. Width : mask = 2 ^ (Width - l) - 1}
NoMask == <<"none">>

\* to_cidr: a mask may be dotted, a length, or not there; an inverted mask passes.
ToCidr(at, mask) ==
    LET dotted == IF mask[1] # "dotted" THEN {}
                  ELSE IF MaskLength(mask[2]) # {} THEN MaskLength(mask[2]) ELSE HostMaskLength(mask[2])
    IN IF at \in {Default, 0} /\ mask \in {NoMask, <<"dotted", 0>>} THEN Network(0, 0)
       ELSE IF at = Default THEN NoPrefix
       ELSE CASE mask = NoMask -> Network(at, Width)
              [] mask[1] = "length" -> IF mask[2] \in 0 .. Width THEN Network(at, mask[2]) ELSE NoPrefix
              [] mask[1] = "dotted" -> IF dotted = {} THEN NoPrefix ELSE Network(at, CHOOSE l \in dotted : TRUE)

\* How a route is written: its length behind a slash, dotted or as a number, or not
\* at all for the default; then what there is of a gateway, an interface, a distance.
Told(r) ==
    [vrf |-> r.vrf,
     at |-> IF r.spelt = Default THEN Default ELSE r.to[1],
     slash |-> IF r.spelt = "slash" THEN <<"length", r.to[2]>> ELSE NoMask,
     words |-> (CASE r.spelt = "dotted" -> <<<<"dotted", 2 ^ Width - 2 ^ (Width - r.to[2])>>>>
                  [] r.spelt = "number" -> <<<<"number", r.to[2]>>>>
                  [] OTHER -> <<>>)
               \o (IF r.hop = NoHop THEN <<>> ELSE <<<<"dotted", r.hop>>>>)
               \o (IF r.out = NoInterface THEN <<>> ELSE <<<<"name", r.out>>>>)
               \o (IF r.distance = NoNumber THEN <<>> ELSE <<<<"number", r.distance>>>>)
               \o (IF r.labelled THEN <<<<"keyword", "name">>, <<"name", "uplink">>>> ELSE <<>>)]

\* The value of a keyword is not a word of its own.
Positional(words) == {i \in DOMAIN words : /\ words[i][1] # "keyword"
                                           /\ i > 1 => words[i - 1][1] # "keyword"}

LastWord(words, kind, none) ==
    LET S == {i \in Positional(words) : words[i][1] = kind}
    IN IF S = {} THEN none ELSE words[CHOOSE i \in S : \A j \in S : j <= i][2]

\* parse_ios_static_route: the word after the destination is its mask, if it can be one;
\* behind a length it is the first of the rest.
ParseStaticRoute(line) ==
    LET first == IF line.words = <<>> THEN NoMask ELSE line.words[1]
        masked == line.slash = NoMask /\ first[1] \in {"dotted", "number"}
        mask == IF ~masked THEN line.slash ELSE IF first[1] = "number" THEN <<"length", first[2]>> ELSE first
        rest == IF masked THEN Tail(line.words) ELSE line.words
        to == ToCidr(line.at, mask)
    IN [to |-> to, hop |-> LastWord(rest, "dotted", NoHop), out |-> LastWord(rest, "name", NoInterface),
        distance |-> LastWord(rest, "number", NoNumber), protocol |-> "static", vrf |-> line.vrf]

\* An interface that is down attaches nothing; one whose state is not known does.
ConnectedRoutes ==
    LET up == SelectSeq(attached, LAMBDA a : a.up # "down" /\ a.length # NoNumber)
    IN [i \in DOMAIN up |-> [to |-> Network(up[i].at, up[i].length), hop |-> NoHop, out |-> up[i].name,
                             distance |-> NoNumber, protocol |-> "connected", vrf |-> NoVrf]]

FromConfig ==
    SelectSeq([i \in DOMAIN statics |-> ParseStaticRoute(Told(statics[i]))], LAMBDA r : r.to # NoPrefix) \o ConnectedRoutes
-----------------------------------------------------------------------------
(* The tables.                                                             *)
Nearest(i, S) == IF S \cap 1 .. i = {} THEN 0 ELSE CHOOSE k \in S \cap 1 .. i : \A j \in S \cap 1 .. i : j <= k
Lines(test(_)) == {i \in DOMAIN printed : test(printed[i])}
PathOf(to, line, protocol, vrf) ==
    [to |-> to, hop |-> line.hop, out |-> line.out, distance |-> line.distance, protocol |-> protocol, vrf |-> vrf]
Collect(route(_)) == SelectSeq([i \in DOMAIN printed |-> route(i)], LAMBDA r : r.to # NoPrefix)

\* A destination without a length takes that of the last heading above it.
LengthAbove(i) ==
    LET head == Nearest(i, Lines(LAMBDA l : l.is = "heading"))
    IN IF head = 0 THEN NoMask ELSE <<"length", printed[head].length>>
CiscoTo(i) == ToCidr(printed[i].at, IF printed[i].mask # NoMask THEN printed[i].mask ELSE LengthAbove(i))
CiscoRead == Lines(LAMBDA l : l.is = "route" /\ l.code # "unknown")

\* Mutant: a second path without a destination is skipped.
ContinuationOf_None(i) == 0

\* The route a line with a second path continues: the last one that could be read.
ContinuationOf(i) == Nearest(i, {k \in CiscoRead : CiscoTo(k) # NoPrefix})

ParseCiscoTable ==
    LET line(i) ==
          LET above == ContinuationOf(i) IN
          CASE i \in CiscoRead -> PathOf(CiscoTo(i), printed[i], printed[i].code, NoVrf)
            [] printed[i].is = "more" /\ above # 0 -> PathOf(CiscoTo(above), printed[i], printed[above].code, NoVrf)
            [] OTHER -> [to |-> NoPrefix]
    IN Collect(line)

\* A table heading clears the destination; one that cannot be read clears it too.
ParseNxosTable ==
    LET head(i) == Nearest(i, Lines(LAMBDA l : l.is = "vrf"))
        prefix(i) == Nearest(i, Lines(LAMBDA l : l.is = "prefix"))
        line(i) == IF printed[i].is # "via" \/ prefix(i) <= head(i) THEN [to |-> NoPrefix]
                   ELSE PathOf(ToCidr(printed[prefix(i)].at, printed[prefix(i)].mask), printed[i], printed[i].code,
                               IF head(i) = 0 THEN NoVrf ELSE printed[head(i)].vrf)
    IN Collect(line)

\* Routes that are hidden, suppressed or inactive are not forwarded by.
ParseGaiaTable ==
    LET line(i) == IF printed[i].codes \cap {"H", "P", "i"} # {} \/ ~printed[i].leads THEN [to |-> NoPrefix]
                   ELSE PathOf(ToCidr(printed[i].at, printed[i].mask), printed[i], printed[i].code, NoVrf)
    IN Collect(line)

Operational == CASE dialect = "cisco" -> ParseCiscoTable
                 [] dialect = "nxos" -> ParseNxosTable
                 [] dialect = "gaia" -> ParseGaiaTable

\* store and store_routes: the table if anything was read of it, else the configuration.
StoreRoutes ==
    LET from == IF Operational # <<>> THEN Operational ELSE FromConfig
    IN [routes |-> SubSeq(from, 1, Min({MaxRoutes, Len(from)})), truncated |-> Len(from) > MaxRoutes]
-----------------------------------------------------------------------------
RouteInit == statics = <<>> /\ attached = <<>> /\ printed = <<>> /\ dialect \in {"cisco", "nxos", "gaia"}

Configure(r) == Len(statics) < 2 /\ printed = <<>> /\ statics' = Append(statics, r) /\ UNCHANGED <<attached, dialect, printed>>
Attach(a) == attached = <<>> /\ printed = <<>> /\ attached' = <<a>> /\ UNCHANGED <<statics, dialect, printed>>
PrintLine(l) == Len(printed) < MaxTableLines /\ printed' = Append(printed, l) /\ UNCHANGED <<statics, attached, dialect>>

RouteNext ==
    \/ \E r \in Static : Configure(r)
    \/ \E a \in Attachment : Attach(a)
    \/ dialect = "cisco" /\ \E l \in CiscoLine : PrintLine(l)
    \/ dialect = "nxos" /\ \E l \in NxosLine : PrintLine(l)
    \/ dialect = "gaia" /\ \E l \in GaiaLine : PrintLine(l)
-----------------------------------------------------------------------------
\* A static route is read as it is meant, with what it is given of a gateway, an
\* interface and a distance; none is lost but the default with a gateway behind it,
\* whose gateway is taken for a mask.  (to_cidr, parse_ios_static_route.)
StaticsReadTrue ==
    \A r \in ToSet(statics) : LET read == ParseStaticRoute(Told(r)) IN
        IF r.spelt = Default /\ r.hop # NoHop THEN read.to = NoPrefix
        ELSE /\ read.to = IF r.spelt = Default THEN Network(0, 0) ELSE Network(r.to[1], r.to[2])
             /\ <<read.hop, read.out, read.distance, read.vrf>> = <<r.hop, r.out, r.distance, r.vrf>>

\* The line a path is printed under: the last one that starts a route, read or not.
Under(i) == Nearest(i, Lines(LAMBDA l : l.is \in {"route", "prefix", "vrf"}))

\* Every path of a table is stored once, with the destination it is printed under and
\* in the VRF of that part of the table; nothing else is stored.  A second path under
\* a line that is not read is given to the last route that was.
TablesReadTrue ==
    LET stray == {i \in DOMAIN printed : printed[i].is = "more" /\ Under(i) # 0
                                             /\ (Under(i) \notin CiscoRead \/ CiscoTo(Under(i)) = NoPrefix)}
        paths == {i \in DOMAIN printed : printed[i].is \in {"route", "more", "via"}}
        owner(i) == Under(i)
        meant(i) == CASE dialect = "cisco" -> CiscoTo(owner(i))
                      [] dialect = "nxos" -> ToCidr(printed[owner(i)].at, printed[owner(i)].mask)
                      [] dialect = "gaia" -> ToCidr(printed[i].at, printed[i].mask)
        due == {i \in paths :
                  CASE dialect = "cisco" -> owner(i) \in CiscoRead /\ meant(i) # NoPrefix
                    [] dialect = "nxos" -> owner(i) # 0 /\ printed[owner(i)].is = "prefix" /\ meant(i) # NoPrefix
                    [] dialect = "gaia" -> printed[i].leads /\ printed[i].codes \cap {"H", "P", "i"} = {} /\ meant(i) # NoPrefix}
    IN stray = {} \/ dialect # "cisco" =>
         /\ Len(Operational) = Cardinality(due)
         /\ \A i \in due : \E n \in DOMAIN Operational :
               /\ Operational[n].to = meant(i) /\ Operational[n].hop = printed[i].hop /\ Operational[n].out = printed[i].out
               /\ dialect = "nxos" => LET head == Nearest(i, Lines(LAMBDA l : l.is = "vrf")) IN
                     Operational[n].vrf = IF head = 0 THEN NoVrf ELSE printed[head].vrf
         /\ \A n \in DOMAIN Operational : \E i \in due : Operational[n].to = meant(i)

\* Routes are of one source, never of both, and a device that has any keeps some; a
\* device whose routes are not all kept says so.
RoutesAreOfOneSource ==
    LET stored == StoreRoutes.routes IN
    /\ stored = <<>> <=> Operational = <<>> /\ FromConfig = <<>>
    /\ Operational # <<>> => \A n \in DOMAIN stored : \E k \in DOMAIN Operational : stored[n] = Operational[k]
    /\ ~StoreRoutes.truncated => stored \in {Operational, FromConfig}
    /\ \A n \in DOMAIN attached : attached[n].up = "down" => \A k \in DOMAIN FromConfig : FromConfig[k].out # attached[n].name

RoutesReadTrue == StaticsReadTrue /\ TablesReadTrue /\ RoutesAreOfOneSource
=============================================================================
