------------------------------ MODULE MCPhone ------------------------------
EXTENDS PhoneNormalizer

Heads == UNION {[1 .. n -> {"0", "1", "2", "4", "5", "7"}] : n \in 0 .. 4}
Nines(n) == [k \in 1 .. n |-> "9"]

\* A plus or separators in front, the digits that decide, a fill that makes
\* every length from none to too long, and something after them.
MCInputs ==
  {lead \o head \o Nines(n) \o tail :
     lead \in {<<>>, <<"+">>, <<"(", "+">>}, head \in Heads,
     n \in 5 .. 10, tail \in {<<>>, <<"+">>, <<"-">>, <<"x">>}}
  \cup {<<>>, <<"+">>, <<"-">>, <<"7">>}
=============================================================================
