---------------------------- MODULE IntervalSets ----------------------------
(* The interval sets every rule comparison is computed with               *)
(* (firewall/intervals.py): sorted, merged, inclusive intervals of        *)
(* integers, with the walks that compare them and the coarse signature    *)
(* that rejects most pairs before a walk.  Two sets are built up, pair by *)
(* pair or by negation, as resolving the two sides of a rule builds them. *)
EXTENDS Integers, SequencesExt

CONSTANTS
    IPv4Max,     \* last value the signature has buckets for
    Top,         \* last value of the universe: beyond IPv4Max is IPv6
    BucketSize   \* values to a bucket of the signature

ASSUME IntervalAssumption ==
    /\ IPv4Max \in Nat /\ Top \in Nat /\ IPv4Max <= Top
    /\ BucketSize \in Nat \ {0}

VARIABLES left, right   \* the two sets, each a sequence of <<lo, hi>>

intervalVars == <<left, right>>

Value == 0 .. Top
Pair == {p \in Value \X Value : p[1] <= p[2]}
Buckets == 0 .. IPv4Max \div BucketSize
Lower(a, b) == IF a <= b THEN a ELSE b
Upper(a, b) == IF a >= b THEN a ELSE b
-----------------------------------------------------------------------------
\* The pairs in the order of their ends, each once.
Sorted(pairs) ==
    CHOOSE s \in [1 .. Cardinality(pairs) -> pairs] :
        /\ ToSet(s) = pairs
        /\ \A i, j \in DOMAIN s : i < j => s[i][1] < s[j][1] \/ (s[i][1] = s[j][1] /\ s[i][2] < s[j][2])

\* Mutant: adjacent intervals are left apart.
Joins_Overlapping(merged, p) == merged # <<>> /\ p[1] <= Last(merged)[2]

\* A pair that overlaps or touches what has been merged so far.
Joins(merged, p) == merged # <<>> /\ p[1] <= Last(merged)[2] + 1

Merged(ordered) ==
    LET merge[k \in 0 .. Len(ordered)] ==
            IF k = 0 THEN <<>>
            ELSE LET done == merge[k - 1]
                     p == ordered[k]
                 IN  IF Joins(done, p)
                     THEN [done EXCEPT ![Len(done)] = <<Last(done)[1], Upper(Last(done)[2], p[2])>>]
                     ELSE Append(done, p)
    IN  merge[Len(ordered)]

FromPairs(pairs) == Merged(Sorted({p \in pairs : p[1] <= p[2]}))

Union(s, t) == IF s = <<>> THEN t ELSE IF t = <<>> THEN s ELSE FromPairs(ToSet(s) \cup ToSet(t))

Size(s) ==
    LET sum[k \in 0 .. Len(s)] == IF k = 0 THEN 0 ELSE sum[k - 1] + (s[k][2] - s[k][1] + 1)
    IN  sum[Len(s)]

\* The buckets a set occupies; every bucket once it leaves the IPv4 space.
SignatureFor(s) ==
    IF \E p \in ToSet(s) : p[2] > IPv4Max THEN Buckets
    ELSE UNION {p[1] \div BucketSize .. p[2] \div BucketSize : p \in ToSet(s)}

\* Where two walks may stand: at an interval of each set, or past its last.
Places(s, t) == (1 .. Len(s) + 1) \X (1 .. Len(t) + 1)

Intersects(s, t) ==
    LET walk[at \in Places(s, t)] ==
            LET i == at[1]
                j == at[2]
            IN  /\ i <= Len(s) /\ j <= Len(t)
                /\ IF s[i][2] < t[j][1] THEN walk[<<i + 1, j>>]
                   ELSE IF t[j][2] < s[i][1] THEN walk[<<i, j + 1>>]
                   ELSE TRUE
    IN  /\ SignatureFor(s) \cap SignatureFor(t) # {}
        /\ walk[<<1, 1>>]

\* Is t within s?  A larger set is refused before the walk.
ContainsSet(s, t) ==
    LET walk[at \in Places(s, t)] ==
            LET i == at[1]
                j == at[2]
            IN  \/ j > Len(t)
                \/ /\ i <= Len(s)
                   /\ IF s[i][2] < t[j][1] THEN walk[<<i + 1, j>>]
                      ELSE s[i][1] <= t[j][1] /\ t[j][2] <= s[i][2] /\ walk[<<i, j + 1>>]
    IN  t = <<>> \/ (Size(t) <= Size(s) /\ walk[<<1, 1>>])

Intersection(s, t) ==
    LET walk[at \in Places(s, t)] ==
            LET i == at[1]
                j == at[2]
                lo == Upper(s[i][1], t[j][1])
                hi == Lower(s[i][2], t[j][2])
                rest == IF s[i][2] < t[j][2] THEN walk[<<i + 1, j>>] ELSE walk[<<i, j + 1>>]
            IN  IF i > Len(s) \/ j > Len(t) THEN <<>>
                ELSE IF lo <= hi THEN <<<<lo, hi>>>> \o rest ELSE rest
    IN  IF SignatureFor(s) \cap SignatureFor(t) = {} THEN <<>> ELSE walk[<<1, 1>>]

\* What s leaves of 0 .. hi, gap by gap behind a cursor.
Complement(s, hi) ==
    LET walk[k \in 0 .. Len(s)] ==
            IF k = 0 THEN [gaps |-> <<>>, cursor |-> 0]
            ELSE LET done == walk[k - 1]
                     p == s[k]
                 IN  IF p[1] > hi \/ done.cursor > hi THEN done
                     ELSE [gaps |-> IF p[1] > done.cursor
                                    THEN Append(done.gaps, <<done.cursor, Lower(p[1] - 1, hi)>>) ELSE done.gaps,
                           cursor |-> Upper(done.cursor, p[2] + 1)]
        end == walk[Len(s)]
    IN  IF end.cursor <= hi THEN Append(end.gaps, <<end.cursor, hi>>) ELSE end.gaps

CoversValue(s, v) ==
    LET search[between \in (1 .. Len(s) + 1) \X (0 .. Len(s))] ==
            LET lo == between[1]
                hi == between[2]
                mid == (lo + hi) \div 2
            IN  /\ lo <= hi
                /\ IF v < s[mid][1] THEN search[<<lo, mid - 1>>]
                   ELSE IF v > s[mid][2] THEN search[<<mid + 1, hi>>] ELSE TRUE
    IN  search[<<1, Len(s)>>]
-----------------------------------------------------------------------------
IntervalInit == left = <<>> /\ right = <<>>

\* Another member of a group is resolved into one of the sides.
Widen ==
    \E p \in Pair : \/ left' = Union(left, FromPairs({p})) /\ UNCHANGED right
                    \/ right' = Union(right, FromPairs({p})) /\ UNCHANGED left

\* A side is negated, over the universe of its family.
Negate == left' = Complement(left, Top) /\ UNCHANGED right

IntervalNext == Widen \/ Negate

IntervalSpec == IntervalInit /\ [][IntervalNext]_intervalVars
-----------------------------------------------------------------------------
Values(s) == UNION {p[1] .. p[2] : p \in ToSet(s)}

\* Two sets that cover the same values are the same intervals.  `is_any` and
\* every comparison of rules rest on it: a set split otherwise compares
\* unequal to "any".
EqualSetsAreEqual == Values(left) = Values(right) => left = right

\* The signature and the walk together find an overlap exactly where there is
\* one, and `intersection` returns exactly the values shared: a prefilter that
\* cleared one occupied bucket would hide conflicts between rules.
OverlapIsExact ==
    /\ Intersects(left, right) <=> Values(left) \cap Values(right) # {}
    /\ Values(Intersection(left, right)) = Values(left) \cap Values(right)
    /\ Intersection(left, right) = FromPairs(ToSet(Intersection(left, right)))

\* Containment, with its rejection by size, is the subset relation.
CoverageIsExact == ContainsSet(left, right) <=> Values(right) \subseteq Values(left)

\* A negated side covers what the side does not, and nothing else; negating
\* twice gives the side back.
NegationIsExact ==
    /\ \A hi \in {IPv4Max, Top} : Values(Complement(left, hi)) = (0 .. hi) \ Values(left)
    /\ Complement(Complement(left, Top), Top) = left

\* The binary search of the rule query finds a value exactly where the set has it.
SearchIsExact == \A v \in Value : CoversValue(left, v) <=> v \in Values(left)
\* Every question rules ask of address and port sets is answered as the sets of
\* values answer it: equality, overlap, containment, negation, membership.
IntervalsAreExact == EqualSetsAreEqual /\ OverlapIsExact /\ CoverageIsExact /\ NegationIsExact /\ SearchIsExact
=============================================================================
