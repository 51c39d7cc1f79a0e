SPECIFICATION Spec
CONSTANTS
    Tasks = {cron, hand}
    Cron = {cron}
    Sources = {s1}
    Names <- MCNames
    Minor = {"EventCountDecreasingError"}
    NotUpdated = "SourceNotUpdatedError"
    MaxResponses = 2
    MaxDay = 2
    MaxFails = 1
    MaxChanges = 1
INVARIANT TypeOK
PROPERTY NothingLost
INVARIANT OneAlert
PROPERTY Examined
