---------------------------- MODULE Subsequences ----------------------------
(* What a filter lets through of a list, by the places that pass it.         *)
EXTENDS Integers, Sequences

Passing(list, passed) ==
  LET kept[n \in 0..Len(list)] ==
        CASE n = 0 -> <<>>
          [] n # 0 /\ n \in passed -> Append(kept[n - 1], list[n])
          [] OTHER -> kept[n - 1]
  IN kept[Len(list)]
=============================================================================
