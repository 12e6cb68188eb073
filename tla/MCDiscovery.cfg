CONSTANT Listeners <- Crowded
SPECIFICATION LiveSpec
INVARIANT TypeOK
INVARIANT OnePerPort
PROPERTY WebListed
PROPERTY GoneUnlisted
