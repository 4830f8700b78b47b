CONSTANTS
    Talkers = {pilot, radar, clock}
    Channels = {1, 2, 3}
    Clients = {m1, m2}
    Nobody = Nobody
    NoClient = NoClient
    Requests <- MCRequests
    MaxCalls = 2
SPECIFICATION FairSpec
INVARIANTS
    OneVoicePerChannel
    OneStreamPerClient
PROPERTIES
    OnTheAir
    AlwaysSpoken
    AllGivenBack
CHECK_DEADLOCK FALSE
