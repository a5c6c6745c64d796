----------------------------- MODULE MCAnalyzer -----------------------------
(***************************************************************************)
(* An instance of Analyzer for TLC: two voices of two lanes of two bits,   *)
(* and keys of four.                                                       *)
(***************************************************************************)
EXTENDS Analyzer

\* One round moves lanes and rotates; two rounds also mix a lane into the next.
Moved(s) == [v \in Voice |-> [l \in Lane |-> {1 - k : k \in s[1 - v][(l + v) % 2]}]]
Mixed(s) == [s EXCEPT ![0][0] = Xor(@, s[0][1] \cap {0}), ![1][1] = Xor(@, s[1][0] \cap s[0][1])]
SmallPermute(s, r) == IF r = 1 THEN Moved(s) ELSE Mixed(Moved(s))

Of(a, b, c, d) == [v \in Voice |-> [l \in Lane |-> <<a, b, c, d>>[1 + 2 * v + l]]]
SomeStates == {Of({}, {0}, {1}, {0, 1}), Of({0, 1}, {1}, {}, {0}), Of({0}, {0, 1}, {0}, {1})}
SomeMasks  == {Of({0}, {1}, {0, 1}, {}), Moved(Of({0}, {1}, {0, 1}, {})), Of({}, {}, {}, {1})}

Digits(n) == [negative |-> FALSE, digits |-> n, trailing |-> FALSE]
SomeTexts == {Digits(0), Digits(1), Digits(2), Digits(9), Digits(40),
              [negative |-> TRUE, digits |-> 1, trailing |-> FALSE],
              [negative |-> TRUE, digits |-> 30, trailing |-> FALSE],
              [negative |-> FALSE, digits |-> 2, trailing |-> TRUE]}

CollisionDigits == {Digits(n) : n \in 0 .. 5}

\* An odd multiplier, as the code's: keys share a home when they agree modulo the
\* capacity.  0 and 8 start in the last of 8 slots, 3 and 11 in the first.
SpreadToEnd(k) == 3 * k + 7
=============================================================================
