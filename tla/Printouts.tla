----------------------------- MODULE Printouts ------------------------------
(***************************************************************************)
(* Output of devices that is read line by line: records of neighbours, and *)
(* configurations that nest by brackets.                                   *)
(***************************************************************************)
EXTENDS Integers, FiniteSets, SequencesExt
-----------------------------------------------------------------------------
(***************************************************************************)
(* What a device prints of its neighbours, read line by line: records      *)
(* between rules of dashes, fields in any order, values that a neighbour   *)
(* declines to give, and in one protocol a value under its own label.      *)
(***************************************************************************)

CONSTANTS
    NeighbourLine,      \* lines: what each is, and its value
    Unadvertised,       \* what stands for a value that is not given
    Nothing,
    MaxNeighbourLines   \* bound: lines of the output

VARIABLES
    protocol, output    \* which of the two printed it; its lines

neighbourVars == <<protocol, output>>

\* _split_records: what is between two rules, before the first or after the last.
SplitRecords(lines) ==
    LET rules == {0} \cup {i \in DOMAIN lines : lines[i].is = "rule"}
        next(i) == CHOOSE k \in i + 1 .. Len(lines) + 1 : (k \in rules \/ k = Len(lines) + 1) /\ \A j \in i + 1 .. k - 1 : j \notin rules
        record(i) == IF i \notin rules THEN <<>> ELSE SubSeq(lines, i + 1, next(i) - 1)
    IN SelectSeq([i \in 1 .. Len(lines) + 1 |-> record(i - 1)], LAMBDA r : r # <<>>)

ValueOf(v) == IF v = Unadvertised THEN Nothing ELSE v
LastValue(record, field) ==
    LET s == SelectSeq(record, LAMBDA l : l.is = field) IN IF s = <<>> THEN Nothing ELSE ValueOf(s[Len(s)].val)

\* The first address that is one.
AddressIn(record) ==
    LET s == SelectSeq(record, LAMBDA l : l.is = "address" /\ l.val # "bad quad") IN IF s = <<>> THEN Nothing ELSE s[1].val

\* A name is preferred to an identifier, which may carry a serial number.
HostName(record) == IF LastValue(record, "name") # Nothing THEN LastValue(record, "name")
                    ELSE IF LastValue(record, "device serial") # Nothing THEN LastValue(record, "device serial")
                    ELSE LastValue(record, "device")

ParseCdp(lines) ==
    LET placed == SelectSeq(SplitRecords(lines), LAMBDA r : LastValue(r, "local") # Nothing)
    IN [i \in DOMAIN placed |-> LET r == placed[i] IN
          [local |-> LastValue(r, "local"), remote |-> LastValue(r, "remote"), device |-> HostName(r), address |-> AddressIn(r),
           platform |-> LastValue(r, "platform")]]

\* A description with nothing beside it is the next line, unless that is a field.
Description(record) ==
    LET at == {i \in DOMAIN record : record[i].is = "description"}
        read(i) == IF ValueOf(record[i].val) # Nothing THEN record[i].val
                   ELSE IF i + 1 \in DOMAIN record /\ record[i + 1].is = "text" THEN ValueOf(record[i + 1].val) ELSE Nothing
    IN IF at = {} THEN Nothing ELSE read(CHOOSE i \in at : \A j \in at : j <= i)

ParseLldp(lines) ==
    LET placed == SelectSeq(SplitRecords(lines), LAMBDA r : LastValue(r, "local") # Nothing)
    IN [i \in DOMAIN placed |-> LET r == placed[i] IN
          [local |-> LastValue(r, "local"), remote |-> LastValue(r, "remote"), device |-> LastValue(r, "name"), address |-> AddressIn(r),
           platform |-> Description(r)]]

Parsed == IF protocol = "cdp" THEN ParseCdp(output) ELSE ParseLldp(output)
-----------------------------------------------------------------------------
NeighbourInit == protocol \in {"cdp", "lldp"} /\ output = <<>>
PrintField(l) == Len(output) < MaxNeighbourLines /\ output' = Append(output, l) /\ UNCHANGED protocol
NeighbourNext == \E l \in NeighbourLine : PrintField(l)
-----------------------------------------------------------------------------
\* Each record that names its own port is one neighbour, in the order of the records,
\* and every field of it stands in that record: none is carried over from another one
\* and none is a value the neighbour declined to give.  (parse_cdp_detail, parse_lldp_detail.)
FieldsStayInTheirRecord ==
    LET record(i) == 1 + Cardinality({k \in 1 .. i : output[k].is = "rule"})
        with_port == {record(i) : i \in {k \in DOMAIN output : output[k].is = "local" /\ output[k].val # Unadvertised
                                          /\ \A j \in k + 1 .. Len(output) : output[j].is = "local" => record(j) # record(k)}}
        printed(n) == {output[i].val : i \in {k \in DOMAIN output : record(k) = n}}
        nth(k) == CHOOSE n \in with_port : Cardinality({m \in with_port : m <= n}) = k
    IN /\ Len(Parsed) = Cardinality(with_port)
       /\ \A k \in DOMAIN Parsed : \A f \in {"local", "remote", "device", "address", "platform"} :
             Parsed[k][f] # Nothing => Parsed[k][f] \in printed(nth(k)) \ {Unadvertised, "bad quad"}
-----------------------------------------------------------------------------
(***************************************************************************)
(* Configurations that nest by brackets, read in one pass with a stack:    *)
(* Junos between braces, where a block that is inactive takes everything   *)
(* in it along, and FortiOS between config or edit and end or next, where  *)
(* a capture may break off with blocks open.                               *)
(***************************************************************************)

CONSTANTS
    NestedLine,         \* lines: what each does, its words, whether it is inactive
    MaxNested           \* bound: lines of a capture

VARIABLES
    bracketed, brackets \* the lines; "braces" or "blocks"

nestingVars == <<bracketed, brackets>>

NoFrames == [stack |-> <<>>, frames |-> <<>>, out |-> <<>>, unread |-> {}]

\* A frame is how many words its brace put on the stack.
Closed(state) ==
    IF state.frames = <<>> THEN state
    ELSE [state EXCEPT !.frames = Front(@), !.stack = SubSeq(@, 1, Len(@) - Last(state.frames).words)]

\* to_set_statements: a statement is every word above it and its own.
ToSetStatements(lines) ==
    FoldLeft(LAMBDA state, l :
        CASE l.is = "open" -> [state EXCEPT !.stack = @ \o l.words, !.frames = Append(@, [words |-> Len(l.words), inactive |-> l.inactive])]
          [] l.is = "close" -> Closed(state)
          [] l.is = "leaf" -> [state EXCEPT !.out = Append(@, [words |-> state.stack \o l.words,
                  inactive |-> l.inactive \/ \E f \in ToSet(state.frames) : f.inactive])],
      NoFrames, lines).out

\* read: what stands outside of every block, and what closes nothing, is put aside;
\* a block that is never closed ends with the capture.
ReadBlocks(lines) ==
    FoldLeft(LAMBDA state, i : LET l == lines[i] IN
        CASE l.is = "open" -> [state EXCEPT !.stack = Append(@, l.words)]
          [] l.is = "close" -> IF state.stack = <<>> THEN [state EXCEPT !.unread = @ \cup {i}] ELSE [state EXCEPT !.stack = Front(@)]
          [] l.is = "leaf" -> IF state.stack = <<>> THEN [state EXCEPT !.unread = @ \cup {i}]
                              ELSE [state EXCEPT !.out = Append(@, [words |-> FlattenSeq(state.stack) \o l.words, inactive |-> FALSE])],
      NoFrames, [i \in DOMAIN lines |-> i])
-----------------------------------------------------------------------------
NestingInit == bracketed = <<>> /\ brackets \in {"braces", "blocks"}
PrintNested(l) ==
    /\ Len(bracketed) < MaxNested /\ bracketed' = Append(bracketed, l) /\ UNCHANGED brackets
    /\ l.inactive => brackets = "braces"
NestingNext == \E l \in NestedLine : PrintNested(l)
-----------------------------------------------------------------------------
\* The blocks a line is in: opened above it and not closed between.
Depth(i, j) == Cardinality({k \in i + 1 .. j : bracketed[k].is = "open"}) - Cardinality({k \in i + 1 .. j : bracketed[k].is = "close"})
Around(n) == SetToSortSeq({i \in 1 .. n - 1 : bracketed[i].is = "open" /\ \A j \in i .. n - 1 : Depth(i, j) >= 0}, LAMBDA a, b : a < b)

\* Every statement is read under exactly the blocks that hold it, in their order, and
\* is inactive if one of them or itself is; in blocks, one that is in none is put aside
\* and not dropped.  (to_set_statements, blocks.read.)
NestingReadTrue ==
    LET leaves == SetToSortSeq({i \in DOMAIN bracketed : bracketed[i].is = "leaf" /\ (brackets = "braces" \/ Around(i) # <<>>)}, LAMBDA a, b : a < b)
        read == IF brackets = "braces" THEN ToSetStatements(bracketed) ELSE ReadBlocks(bracketed).out
    IN /\ Len(read) = Len(leaves)
       /\ \A n \in DOMAIN leaves : LET above == Around(leaves[n]) IN
             /\ read[n].words = FlattenSeq([k \in DOMAIN above |-> bracketed[above[k]].words]) \o bracketed[leaves[n]].words
             /\ read[n].inactive <=> bracketed[leaves[n]].inactive \/ \E k \in ToSet(above) : bracketed[k].inactive
       /\ brackets = "blocks" =>
             ReadBlocks(bracketed).unread = {i \in DOMAIN bracketed : bracketed[i].is # "open" /\ Around(i) = <<>>}
=============================================================================
