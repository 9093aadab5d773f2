SPECIFICATION FairSpec
CONSTANT MaxTries = 2
INVARIANTS AllReleased OwnTorAnswers CetStatusKept
PROPERTIES TorDeathWipes ShutdownHonoured
