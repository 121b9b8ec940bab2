SPECIFICATION FairSpec
INVARIANT MembersSound
INVARIANT ClockFollowsPause
PROPERTY QuitEnds
