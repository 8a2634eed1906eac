CONSTANTS
    c1 = c1
    c2 = c2
    Client = {c1, c2}
    None = None
    Ops = {"get", "getOrCreate", "create", "update", "delete"}
    MaxObj = 2
    MaxUpd = 2
    MaxFaults = 1
SPECIFICATION FairSpec
CHECK_DEADLOCK FALSE
INVARIANT CacheMatchesMetadata CachedIsOpen StoredUpdateKept
 
