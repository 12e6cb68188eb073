CONSTANT Listeners <- Pair
SPECIFICATION LiveSpec
PROPERTY WebListedBesideIgnored
