-------------------------- MODULE MCWatchTransfer --------------------------
(* Instances of WatchTransfer for TLC: a film and a show of two episodes.  *)
EXTENDS WatchTransfer, TLC
CONSTANTS s1

Leaf(count, offset) == [count |-> count, offset |-> offset]
Account(film, first, second) == (1 :> film) @@ (2 :> first) @@ (3 :> second)

ShowsOfLeaves == (1 :> NoShow) @@ (2 :> s1) @@ (3 :> s1)
ViewedOrder == (1 :> 5) @@ (2 :> 9) @@ (3 :> 5)

\* A rewatched film stopped half-way, a show begun; and an owner who watched no episode.
SourceStates ==
  {Account(Leaf(2, 3), Leaf(1, 0), Unwatched), Account(Leaf(1, 0), Unwatched, Unwatched)}

\* A new account, and one that calls for every kind of write.
TargetStates ==
  {Account(Unwatched, Unwatched, Unwatched), Account(Leaf(1, 3), Leaf(2, 0), Leaf(1, 3))}

\* A snapshot of an older version: shows recorded for one episode of two.
OldSnapshots ==
  {[job |-> 0, state |-> Account(Leaf(1, 0), Leaf(1, 0), Unwatched), complete |-> TRUE,
    known |-> {1}, restored |-> FALSE, pristine |-> TRUE]}
NoSnapshots == {}
=============================================================================
