----------------------------- MODULE RollingHash -----------------------------
(***************************************************************************)
(* The hash functions of the Bloom filter (hashFn.h, hashFn.cpp) and the   *)
(* search substringExists (bloomFilter.cpp), which moves a window over a   *)
(* text and computes each hash from the one before.  Arithmetic is modulo  *)
(* 2^64 in the code and modulo 2^Width here; characters are signed in the  *)
(* full hash and in the last term of the rolling one, but the character    *)
(* that leaves the window is an unsigned char.                             *)
(***************************************************************************)
EXTENDS Integers, Sequences

CONSTANTS
    Width,          \* bits of an unsigned word
    TableSize,      \* precomputedArraySize: powers held in a table
    Primes,         \* the p of each hash function
    Codes,          \* character codes, 0 .. 255, that texts are made of
    TextLengths,    \* bound: lengths of the text
    WindowLength,   \* substringLength, and the length of the key in the filter
    FilterSize      \* bitBufferSize

ASSUME RollingOK ==
    /\ Width \in Nat \ {0} /\ 2^Width \in Nat \ {0}
    /\ TableSize \in Nat /\ FilterSize \in Nat \ {0}
    /\ Primes \in Seq(Nat) /\ TextLengths \subseteq Nat
    /\ Codes \subseteq 0 .. 255
    /\ WindowLength \in Nat \ {0}

VARIABLES
    text,           \* data
    filter,         \* the bits that are set: those of one added key
    added,          \* that key
    i,              \* the place of the window, counted from 1
    lastHashes,     \* the hash of the window before, for each function
    lastCharCode,   \* the character that has left the window
    answer          \* "searching", or what substringExists returns

rollingVars == <<text, filter, added, i, lastHashes, lastCharCode, answer>>

Word(n) == n % 2^Width
Signed(c) == IF c < 128 THEN c ELSE c - 256

\* while (exp): multiply in the odd bits, square the base.
Squaring(base, exp) ==
    LET result[e \in 0 .. exp] ==
            [b \in Nat |->
                IF e = 0 THEN 1
                ELSE Word((IF e % 2 = 1 THEN b ELSE 1) * result[e \div 2][Word(b * b)])]
    IN  result[exp][base]

\* The table that the constructor fills: result *= p.
precomputedPowers(p) ==
    LET power[n \in 0 .. TableSize] == IF n = 0 THEN 1 ELSE Word(power[n - 1] * p)
    IN  power

\* Seeded fault: the table is read one place too far.
customPowOff(p, exp) == IF exp < TableSize THEN precomputedPowers(p)[exp + 1] ELSE Squaring(p, exp)

customPow(p, exp) == IF exp < TableSize THEN precomputedPowers(p)[exp] ELSE Squaring(p, exp)

\* HashFn::operator()(input, len).
FullHash(p, s) ==
    LET total[n \in 0 .. Len(s)] ==
            IF n = 0 THEN 0
            ELSE Word(total[n - 1] + Signed(s[n]) * customPow(p, Len(s) - n))
    IN  total[Len(s)]

\* Seeded fault: the leaving character is weighed as if it were one place further.
RolledHashOff(p, s, left, last) ==
    Word(Word(last - left * customPow(p, Len(s))) * p + Signed(s[Len(s)]))

\* HashFn::operator()(input, len, lastCharCode, lastHash).
RolledHash(p, s, left, last) ==
    Word(Word(last - left * customPow(p, Len(s) - 1)) * p + Signed(s[Len(s)]))

\* BloomFilter::add and exists.
BitsSetBy(s) == {FullHash(Primes[j], s) % FilterSize : j \in DOMAIN Primes}

Strings(lengths) == UNION {[1 .. n -> Codes] : n \in lengths}
Window(n) == SubSeq(text, n, n + WindowLength - 1)

RollingInit ==
    /\ text \in Strings(TextLengths)
    /\ added \in Strings({WindowLength})
    /\ filter = BitsSetBy(added)
    /\ i = 1
    /\ lastHashes = [j \in DOMAIN Primes |-> 0]
    /\ lastCharCode = 0
    /\ answer = "searching"

\* getHashesForCharCodes for the window at i.
HashesAt(n) ==
    [j \in DOMAIN Primes |->
        IF n = 1 THEN FullHash(Primes[j], Window(n))
        ELSE RolledHash(Primes[j], Window(n), lastCharCode, lastHashes[j])]

\* One round of the loop of substringExists, or its end.
MoveWindow ==
    /\ answer = "searching"
    /\ IF i > Len(text) - WindowLength + 1
       THEN answer' = "no" /\ UNCHANGED <<i, lastHashes, lastCharCode>>
       ELSE /\ lastHashes' = HashesAt(i)
            /\ answer' = IF \A j \in DOMAIN Primes : lastHashes'[j] % FilterSize \in filter
                         THEN "yes" ELSE "searching"
            /\ lastCharCode' = text[i]
            /\ i' = i + 1
    /\ UNCHANGED <<text, filter, added>>

RollingEnded == answer # "searching" /\ UNCHANGED rollingVars

RollingNext == MoveWindow \/ RollingEnded

RollingSpec == RollingInit /\ [][RollingNext]_rollingVars
-----------------------------------------------------------------------------
\* On characters below 128 the rolled hash is the full hash of the window, across
\* overflow and across the two ways of computing a power (hashFn.cpp:7-14, hashFn.h:13).
RolledIsFull ==
    (i > 1 /\ \A n \in DOMAIN text : text[n] < 128) =>
        \A j \in DOMAIN Primes : lastHashes[j] = FullHash(Primes[j], Window(i - 1))

\* "If false is returned then no substring of the specified string of the specified
\* length is in the bloom filter" (bloomFilter.h:60-62), for characters below 128.
NoIsNo ==
    (answer = "no" /\ \A n \in DOMAIN text : text[n] < 128) =>
        \A n \in 1 .. Len(text) - WindowLength + 1 : Window(n) # added

\* The search is right where the two hashes agree, whatever overflows on the way.
SearchIsRight == RolledIsFull /\ NoIsNo
=============================================================================
