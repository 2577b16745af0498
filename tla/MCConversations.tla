---------------------------- MODULE MCConversations ----------------------------
(***************************************************************************)
(* Small legacy databases for Conversations.                               *)
(***************************************************************************)
EXTENDS Conversations, Sequences

\* Decimal text of a number below 100, as the sequence of its digits.
Text(n) == IF n < 10 THEN <<n>> ELSE <<n \div 10, n % 10>>

\* Text comparison: at the first difference, or a proper prefix.
TextBefore(s, t) ==
    \E i \in 1..Len(t) :
        /\ \A j \in 1..(i - 1) : j <= Len(s) /\ s[j] = t[j]
        /\ i > Len(s) \/ s[i] < t[i]

RankIn(flows) ==
    [f \in flows |-> Cardinality({h \in flows : TextBefore(Text(h), Text(f))})]

\* Flows of equal length: five groups, two of two conversations.  A second
\* conversation of the first group and two whole groups may close late.
SameLengthConvs == 1..7
SameLengthGroups ==
    [c \in SameLengthConvs |-> CASE c <= 2 -> <<1, 11>> [] c = 3 -> <<1, 12>>
                         [] c = 4 -> <<2, 11>>  [] c <= 6 -> <<2, 12>> [] c = 7 -> <<3, 11>>]
SameLengthRank == RankIn({0, 11, 12})
LateConvs == {2, 4, 7}

\* One initiator talked to flows 8, 9 and 10.
MixedLengthConvs == 1..6
MixedLengthGroups ==
    [c \in MixedLengthConvs |-> CASE c <= 2 -> <<1, 8>> [] c <= 4 -> <<1, 9>>
                         [] c = 5 -> <<1, 10>> [] c = 6 -> <<2, 9>>]
MixedLengthRank == RankIn({0, 8, 9, 10})
================================================================================
