--------------------------- MODULE MCShareFilter ---------------------------
(* Instances of ShareFilter for TLC. *)
EXTENDS ShareFilter, TLC
CONSTANTS own, p, s, kids, tag, g

Excluding(labels) == [field |-> "label", op |-> "!=", values |-> labels]
Allowing(labels) == [field |-> "label", op |-> "=", values |-> labels]
Rated(op) == [field |-> "contentRating", op |-> op, values |-> {g}]

\* What owners restrict, what an account's filter holds of its own row by mistake, and what the
\* merge of today and the one before it leave.
AllowLists == {Allowing({kids}), Rated("="), Excluding({own})}
AnyClauses ==
  AllowLists \cup {Excluding({p}), Excluding({s}), Excluding({kids}), Excluding({p, kids}),
                   Allowing({own}), Rated("!=")}
=============================================================================
