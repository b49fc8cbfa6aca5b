---------------------------- MODULE MCUsageQuota ----------------------------
(* Small instance of UsageQuota for TLC. *)
EXTENDS UsageQuota

It(handler, owner, story, campaign, number) ==
    [handler |-> handler, owner |-> owner, story |-> story, campaign |-> campaign,
     number |-> number]

\* Principal 1 plays story 1 in campaigns 1 and 2 and works on it; 3 is an administrator.
Turn1    == It("accept", 1, 1, 1, 1)
Turn2    == It("accept", 1, 1, 2, 1)
Call1    == It("reserve", 1, 1, 1, 1)
Call2    == It("reserve", 1, 1, 1, 2)
End1     == It("conclude", 1, 1, 1, 1)
Create1  == It("create", 1, 0, 0, 1)
Copy1    == It("duplicate", 1, 1, 0, 2)
Check1   == It("validate", 1, 1, 0, 1)
Job1     == It("enqueue", 1, 1, 0, 3)
Ask1     == It("call", 1, 1, 0, 1)
Cancel1  == It("cancel", 1, 1, 0, 0)
Claim1   == It("claim", 0, 0, 0, 0)
Block1   == It("block", 3, 1, 0, 4)
Lift1    == It("withdraw", 3, 1, 0, 5)
Pause1   == It("pause", 3, 0, 0, 6)
Resume1  == It("resume", 3, 0, 0, 7)

SomeItems == {Turn1, Turn2, Call1, Call2, End1, Create1, Copy1, Check1, Job1, Ask1,
              Cancel1, Claim1, Block1, Lift1, Pause1, Resume1}

SomeNeeds == [i \in SomeItems |->
    CASE i \in {Call1, End1}  -> {Turn1}
      [] i = Call2            -> {Call1}
      [] i = Ask1             -> {Job1}
      [] i = Cancel1          -> {Job1}
      [] i = Lift1            -> {Block1}
      [] i = Resume1          -> {Pause1}
      [] OTHER                -> {}]

\* The turn of campaign 1 and a job of story 1 are under way.
TheEve == {Turn1, Job1}

OneEach == [u \in Purposes |-> 1]
=============================================================================
