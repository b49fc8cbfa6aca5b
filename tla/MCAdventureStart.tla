--------------------------- MODULE MCAdventureStart ---------------------------
(* Small instance of AdventureStart for TLC. *)
EXTENDS AdventureStart, TLC

CONSTANTS author, player, written, builtin, v1, v2, trial, old, new, p1, p2, k1, k2, c1, c2

TheStory == [v \in {v1, v2, trial, old, new} |->
                IF v \in {old, new} THEN builtin ELSE written]
TheOwner == [s \in {written, builtin} |-> IF s = written THEN author ELSE NoOne]

Id(v)  == [by |-> "id", version |-> v]
Ref(v) == [by |-> "ref", version |-> v]
SomeWants == {Id(v1), Id(trial), Ref(old)}

CallerSymmetry == Permutations({p1, p2}) \cup Permutations({c1, c2})
===============================================================================
