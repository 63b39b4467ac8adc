----------------------------- MODULE AccessLists -----------------------------
(***************************************************************************)
(* How the access lists of a Cisco configuration become rules.  A device's *)
(* entry is written as a line of words; the reader takes the line apart    *)
(* word by word, and what it cannot express makes the rule one that is not *)
(* understood.  Here an entry is known by what the device does with it, so *)
(* that the reading of its line can be held against it.                    *)
(***************************************************************************)
EXTENDS Integers, SequencesExt

CONSTANTS
    Bits, HighPort,         \* width of an address; highest port
    GroupHolds, OddPort,       \* groups that were collected; a port by a name that is not listed
    NamedList, NumberedList, AclBinding,
    AclEntry,                  \* entries one at a time, as the device means them
    AclLine,              \* what a configuration is made of, line by line
    MaxAclLines          \* bound: lines of a configuration

VARIABLES
    probe,                  \* an entry by itself
    aclLines,               \* lines written so far, of all lists
    bindings                \* <<list, interface, direction>>

aclVars == <<probe, aclLines, bindings>>

Space == 0 .. 2 ^ Bits - 1
Ports == 0 .. HighPort
-----------------------------------------------------------------------------
(* The device: a bit of the wildcard that is set is not compared.          *)
Bit(n, i) == (n \div 2 ^ i) % 2
Matching(host, wildcard) ==
    {a \in Space : \A i \in 0 .. Bits - 1 : Bit(wildcard, i) = 0 => Bit(a, i) = Bit(host, i)}

Meant(x) == CASE x.form = "any" -> Space
              [] x.form \in {"host", "bare"} -> {x.at}
              [] x.form = "wild" -> Matching(x.at, x.mask)
              [] x.form = "slash" -> Matching(x.at, 2 ^ (Bits - x.mask) - 1)
              [] x.form = "group" -> GroupHolds[x.at]
NumberOf(p) == IF p = OddPort THEN HighPort ELSE p
MeantPorts(p) ==
    CASE p.op = "none" -> Ports
      [] p.op = "eq" -> {NumberOf(q) : q \in ToSet(p.of)}
      [] p.op = "neq" -> Ports \ {NumberOf(p.of[1])}
      [] p.op = "lt" -> 0 .. NumberOf(p.of[1]) - 1
      [] p.op = "gt" -> NumberOf(p.of[1]) + 1 .. HighPort
      [] p.op = "range" -> NumberOf(p.of[1]) .. NumberOf(p.of[2])

(* The line a device prints for it.                                        *)
Word(w) == <<"word", w>>
DottedWord(n) == <<"dotted", n>>
WrittenAddress(x) ==
    CASE x.form = "any" -> <<Word("any")>>
      [] x.form = "host" -> <<Word("host"), DottedWord(x.at)>>
      [] x.form = "bare" -> <<DottedWord(x.at)>>
      [] x.form = "wild" -> <<DottedWord(x.at), DottedWord(x.mask)>>
      [] x.form = "slash" -> <<<<"slash", x.at, x.mask>>>>
      [] x.form = "group" -> <<Word("object-group"), Word(x.at)>>
WrittenPorts(p) ==
    IF p.op = "none" THEN <<>>
    ELSE <<Word(p.op)>> \o [i \in DOMAIN p.of |-> IF p.of[i] = OddPort THEN Word("odd") ELSE <<"port", p.of[i]>>]
Line(e) ==
    <<Word(e.action)>>
    \o (IF e.standard THEN WrittenAddress(e.src)
        ELSE <<Word(e.protocol)>> \o WrittenAddress(e.src) \o WrittenPorts(e.sport)
                                  \o WrittenAddress(e.dst) \o WrittenPorts(e.dport))
    \o (IF e.flag = "none" THEN <<>> ELSE <<Word(e.flag)>>)
-----------------------------------------------------------------------------
(* The reader.                                                             *)
End == <<"end">>
WordAt(line, i) == IF i \in DOMAIN line THEN line[i] ELSE End
IsDotted(t) == t[1] = "dotted"
NotRead == {}

\* The length of a mask: of a run of ones from the top, or of one to the bottom.
MaskOf(length) == 2 ^ Bits - 2 ^ (Bits - length)
LengthsOf(mask) == {l \in 0 .. Bits : MaskOf(l) = mask}
InvertedLengthsOf(mask) == {l \in 0 .. Bits : 2 ^ Bits - 1 - MaskOf(l) = mask}

\* The complement of the wildcard is given to a library that takes a netmask and,
\* failing that, an inverted one.
WildcardToCidr(host, wildcard) ==
    LET netmask == 2 ^ Bits - 1 - wildcard
        lengths == IF LengthsOf(netmask) # {} THEN LengthsOf(netmask) ELSE InvertedLengthsOf(netmask)
    IN IF lengths = {} THEN NotRead ELSE Matching(host, 2 ^ (Bits - CHOOSE l \in lengths : TRUE) - 1)

\* Each form takes its own number of words.
ReadAddress(line, i) ==
    LET word == WordAt(line, i)
        after == WordAt(line, i + 1)
        found(set, width) == [is |-> set, next |-> i + width]
    IN CASE word = End -> found(NotRead, 0)
         [] word = Word("any") -> found(Space, 1)
         [] word = Word("host") /\ after # End -> found(IF IsDotted(after) THEN {after[2]} ELSE NotRead, 2)
         [] word = Word("object-group") /\ after # End ->
              found(IF after[2] \in DOMAIN GroupHolds THEN GroupHolds[after[2]] ELSE NotRead, 2)
         [] word[1] = "slash" -> found(Matching(word[2], 2 ^ (Bits - word[3]) - 1), 1)
         [] IsDotted(word) /\ IsDotted(after) -> found(WildcardToCidr(word[2], after[2]), 2)
         [] IsDotted(word) /\ ~IsDotted(after) -> found({word[2]}, 1)
         [] OTHER -> found(NotRead, 1)

Operator == {Word(w) : w \in {"eq", "lt", "gt", "range", "neq"}}
IsPort(t) == t[1] = "port"

\* Ports that follow eq, up to the first word that is none of them.
EqualTo(line, i) ==
    LET run == {n \in i .. Len(line) : \A k \in i .. n : IsPort(line[k])}
    IN [ports |-> {line[k][2] : k \in run}, next |-> i + Cardinality(run), refused |-> run = {}]

ReadPorts(line, i) ==
    LET one == WordAt(line, i + 1)
        two == WordAt(line, i + 2)
        found(set, next) == [ports |-> set, next |-> next, refused |-> set = {}]
        refuse(next) == found({}, next)
    IN CASE WordAt(line, i) \notin Operator -> [ports |-> {}, next |-> i, refused |-> FALSE]
         [] line[i] = Word("range") /\ two = End -> refuse(i + 1)
         [] line[i] = Word("range") /\ two # End ->
              IF IsPort(one) /\ IsPort(two) THEN found(one[2] .. two[2], i + 3) ELSE refuse(i + 3)
         [] line[i] = Word("neq") -> refuse(i + 2)
         [] line[i] \in {Word("lt"), Word("gt")} ->
              IF ~IsPort(one) THEN refuse(IF one = End THEN i + 1 ELSE i + 2)
              ELSE found(IF line[i] = Word("lt") THEN 1 .. one[2] - 1 ELSE one[2] + 1 .. HighPort, i + 2)
         [] line[i] = Word("eq") -> EqualTo(line, i + 1)

NoEntry == [partial |-> TRUE, ace |-> FALSE]

\* A standard entry has neither protocol nor destination.  A source port is not
\* a service: alone it makes the rule one that is not understood.
ReadAce(line, standard, src, sport, dst, dport) ==
    LET rest == IF standard THEN src.next ELSE dport.next
        read == [ace |-> TRUE, action |-> line[1][2], log |-> \E i \in rest .. Len(line) : line[i] = Word("log")]
    IN IF standard
       THEN read @@ [protocol |-> "ip", src |-> src.is, dst |-> Space, ports |-> Ports, partial |-> src.is = NotRead]
       ELSE read @@ [protocol |-> WordAt(line, 2)[2], src |-> src.is, dst |-> dst.is,
                     ports |-> IF dport.ports = {} THEN Ports ELSE dport.ports,
                     partial |-> \/ sport.refused \/ dport.refused \/ NotRead \in {src.is, dst.is}
                                 \/ sport.ports # {} /\ dport.ports = {}]

ParseAce(line) ==
    LET standard == WordAt(line, 2) = Word("any") \/ WordAt(line, 2) = Word("host") \/ IsDotted(WordAt(line, 2))
        src == ReadAddress(line, IF standard THEN 2 ELSE 3)
        sport == ReadPorts(line, src.next)
        dst == ReadAddress(line, sport.next)
    IN IF WordAt(line, 1) \notin {Word("permit"), Word("deny")} THEN NoEntry
       ELSE ReadAce(line, standard, src, sport, dst, ReadPorts(line, dst.next))

\* The rules of one kind of list, in the order they are written, each with the last
\* remark above it in its list.  Lists by name are read before lists by number.
RemarkAbove(i) ==
    LET remarks == {k \in 1 .. i : aclLines[k].list = aclLines[i].list /\ aclLines[k].is = "remark"}
    IN IF remarks = {} THEN "" ELSE aclLines[CHOOSE k \in remarks : \A j \in remarks : j <= k].text

RulesAt(places) ==
    [n \in DOMAIN places |->
        ParseAce(Line(aclLines[places[n]].entry))
        @@ [rulebase |-> aclLines[places[n]].list, comment |-> RemarkAbove(places[n]),
            applied |-> \E b \in bindings : b[1] = aclLines[places[n]].list]]

RulesOf(lists) ==
    RulesAt(SelectSeq([i \in DOMAIN aclLines |-> i],
                      LAMBDA i : /\ aclLines[i].list \in lists /\ aclLines[i].is = "entry"
                                 /\ ParseAce(Line(aclLines[i].entry)).ace))

\* A list by name is a block: all of its lines together, where its header is.
NamedRules == LET heads == SelectSeq([i \in DOMAIN aclLines |-> i],
                                  LAMBDA i : /\ aclLines[i].list \in NamedList
                                             /\ \A k \in 1 .. i - 1 : aclLines[k].list # aclLines[i].list)
           IN FlattenSeq([n \in DOMAIN heads |-> RulesOf({aclLines[heads[n]].list})])

ParseAcls == NamedRules \o RulesOf(NumberedList)
-----------------------------------------------------------------------------
AclInit == probe \in AclEntry /\ aclLines = <<>> /\ bindings = {}

\* A line is added to a configuration.
WriteLine(s) ==
    /\ Len(aclLines) < MaxAclLines
    /\ aclLines' = Append(aclLines, s)
    /\ UNCHANGED <<probe, bindings>>

Bind(b) == b \notin bindings /\ bindings' = bindings \cup {b} /\ UNCHANGED <<probe, aclLines>>

AclNext == (\E s \in AclLine : WriteLine(s)) \/ (\E b \in AclBinding : Bind(b))
-----------------------------------------------------------------------------
\* Two lines are misread without being refused: a wildcard whose complement is the
\* inverse of a netmask, and a list of ports that ends in a name that is not listed.
Mistaken(e) ==
    \/ \E x \in {e.src, e.dst} : x.form = "wild" /\ LengthsOf(2 ^ Bits - 1 - x.mask) = {}
                                   /\ InvertedLengthsOf(2 ^ Bits - 1 - x.mask) # {}
    \/ e.dport.op = "eq" /\ OddPort \in ToSet(Tail(e.dport.of))

\* What the model of a rule has no place for.
Narrower(e) == e.flag = "established" \/ (e.sport.op # "none" /\ e.dport.op # "none")

\* What cannot be expressed.
Inexpressible(e) ==
    \/ \E x \in {e.src, e.dst} : \/ x.form = "wild" /\ \A l \in 0 .. Bits : Meant(x) # Matching(x.at, 2 ^ (Bits - l) - 1)
                                 \/ x.form = "group" /\ GroupHolds[x.at] = {}
    \/ \E p \in {e.sport, e.dport} : p.op # "none" /\ (p.op = "neq" \/ OddPort \in ToSet(p.of) \/ MeantPorts(p) \ {0} = {})
    \/ e.sport.op # "none" /\ e.dport.op = "none"

\* An entry is read as the device means it, port 0 aside: exactly, or as matching
\* more where a rule has no place for a condition; and it is set aside only for
\* something that cannot be expressed.  (parse_ace, read_ports, wildcard_to_cidr.)
ReadTrue(read) ==
    /\ read.ace
    /\ ~read.partial /\ ~Mistaken(probe) =>
          /\ read.action = probe.action /\ read.log = (probe.flag = "log")
          /\ Meant(probe.src) = read.src
          /\ ~probe.standard => /\ Meant(probe.dst) = read.dst /\ probe.protocol = read.protocol
                                /\ MeantPorts(probe.dport) \ {0} = read.ports \ {0}
                                /\ ~Narrower(probe) => probe.sport.op = "none"
    /\ read.partial /\ ~probe.standard => Inexpressible(probe)

EntriesReadTrue == ReadTrue(ParseAce(Line(probe)))

\* Each list is a rulebase of its own, its entries in their order: none is lost, none
\* goes over to another list, and each is documented by the last remark above it.
ReadsList(list, written, read) ==
    /\ Len(read) = Len(written)
    /\ \A n \in DOMAIN written :
          /\ read[n].src = ParseAce(Line(written[n].entry)).src
          /\ read[n].action = written[n].entry.action
    /\ \A n \in DOMAIN read : read[n].comment # "" =>
          \E s \in ToSet(aclLines) : s.list = list /\ s.is = "remark" /\ s.text = read[n].comment

RulesReadTrue(rules) ==
    /\ \A list \in NamedList \cup NumberedList :
          ReadsList(list, SelectSeq(aclLines, LAMBDA s : s.list = list /\ s.is = "entry"),
                    SelectSeq(rules, LAMBDA r : r.rulebase = list))
    /\ \A r \in ToSet(rules) : r.applied <=> \E b \in bindings : b[1] = r.rulebase

ListsReadTrue == RulesReadTrue(ParseAcls)

AccessListsHold == EntriesReadTrue /\ ListsReadTrue
=============================================================================
