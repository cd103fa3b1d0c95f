------------------------------ MODULE KeyOrder ------------------------------
(***************************************************************************)
(* Strings as the store and the connector API order them: sequences of    *)
(* byte values compared bytewise, and "%.Nd" formatting of naturals.       *)
(* Shared by the key builders (RangeScan) and the event position of        *)
(* ffcapi/api.go, whose ProtocolID is documented as sortable.              *)
(***************************************************************************)
EXTENDS Naturals, Sequences

\* The byte value of each character the key prefixes use.
C(ch) == CASE ch = "/" -> 47 [] ch = "0" -> 48 [] ch = "1" -> 49
           [] ch = "_" -> 95 [] ch = "a" -> 97 [] ch = "c" -> 99
           [] ch = "d" -> 100 [] ch = "e" -> 101 [] ch = "f" -> 102
           [] ch = "g" -> 103 [] ch = "h" -> 104 [] ch = "i" -> 105
           [] ch = "l" -> 108 [] ch = "n" -> 110 [] ch = "o" -> 111
           [] ch = "r" -> 114 [] ch = "s" -> 115 [] ch = "t" -> 116
           [] ch = "x" -> 120

\* "%.Nd" of a natural: its decimal digits, left-padded with "0" to N.
RECURSIVE Digits(_)
Digits(n) == IF n < 10 THEN <<48 + n>> ELSE Digits(n \div 10) \o <<48 + (n % 10)>>
Pad(n, w) == LET d == Digits(n) IN
             [i \in 1..(IF w > Len(d) THEN w - Len(d) ELSE 0) |-> 48] \o d

\* The store's comparator: bytewise at the first differing byte, a proper
\* prefix sorting first.
LexLess(a, b) ==
    LET common == 1..(IF Len(a) < Len(b) THEN Len(a) ELSE Len(b))
        differ == {i \in common : a[i] # b[i]}
        first  == CHOOSE i \in differ : \A j \in differ : i <= j
    IN IF differ = {} THEN Len(a) < Len(b) ELSE a[first] < b[first]

====
