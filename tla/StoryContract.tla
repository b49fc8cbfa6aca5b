----------------------------- MODULE StoryContract ----------------------------
(***************************************************************************)
(* What the public may rely on: there is one release, it changes only when *)
(* its author publishes a valid definition that he has played to an end,   *)
(* a stopped story is not listed, and lifting the stop does not list it.   *)
(***************************************************************************)
CONSTANTS Scenarios, Metadata, Valid, Gone

VARIABLES standing,  \* "open", "closed" by the author, or "stopped" by an administrator
          release,   \* what players start; Gone in both fields before the first
          listed,    \* the release is on show
          played     \* definitions the author completed

cvars == <<standing, release, listed, played>>

Nothing == [scenario |-> Gone, about |-> Gone]

Init == /\ standing = "open"
        /\ release = Nothing
        /\ listed = FALSE
        /\ played = {}

Play(s) == /\ standing # "stopped"
           /\ played' = played \cup {s}
           /\ UNCHANGED <<standing, release, listed>>

Publish(s, m) == /\ standing = "open"
                 /\ s \in Valid \cap played
                 /\ release' = [scenario |-> s, about |-> m]
                 /\ listed' \in BOOLEAN
                 /\ UNCHANGED <<standing, played>>

\* The author shows, hides, closes or reopens his story.
Settle == /\ standing # "stopped"
          /\ standing' \in {"open", "closed"}
          /\ listed' \in BOOLEAN
          /\ listed' => standing' = "open" /\ release # Nothing
          /\ UNCHANGED <<release, played>>

Stop == /\ standing' = "stopped"
        /\ listed' = FALSE
        /\ UNCHANGED <<release, played>>

Lift == /\ standing' = "closed"
        /\ listed' = FALSE
        /\ UNCHANGED <<release, played>>

Next == \/ \E s \in Scenarios : Play(s)
        \/ \E s \in Scenarios, m \in Metadata : Publish(s, m)
        \/ Settle \/ Stop \/ Lift

Spec == Init /\ [][Next]_cvars
=============================================================================
