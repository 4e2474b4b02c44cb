------------------------------- MODULE Evidence -------------------------------
(* What the evidence services share.  Rows of a package are records in       *)
(* sequences; a digest is the value it is the digest of, so that a signature *)
(* is the pair of the key it claims and the content it was made over.        *)
EXTENDS Integers, Sequences, FiniteSetsExt, TLC

None == [none |-> TRUE]

Abs(x) == IF x < 0 THEN -x ELSE x

(* _variance_pct(actual, expected) <= pct                                    *)
Close(actual, expected, pct) ==
    100 * Abs(actual - expected) <= pct * Max({Abs(actual), Abs(expected), 1})

SumOf(s, Value(_)) == SumFunction([i \in DOMAIN s |-> Value(s[i])])
SumOver(S, Value(_)) == MapThenSumSet(Value, S)

Distinct(s, Key(_)) == \A i, j \in DOMAIN s : Key(s[i]) = Key(s[j]) => i = j

(* {row.key: row for row in rows}: the last row of a key wins.               *)
LastWith(s, Test(_)) ==
    LET of == {i \in DOMAIN s : Test(s[i])} IN IF of = {} THEN None ELSE s[Max(of)]
(* next((row for row in rows if ...), None): the first row wins.             *)
FirstWith(s, Test(_)) ==
    LET of == {i \in DOMAIN s : Test(s[i])} IN IF of = {} THEN None ELSE s[Min(of)]

Row(s, call) == LastWith(s, LAMBDA x : x.call = call)

ButLast(s) == SubSeq(s, 1, Len(s) - 1)
Replaced(s, i, row) == [s EXCEPT ![i] = row]
===============================================================================
