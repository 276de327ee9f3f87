SPECIFICATION ResidencySpec
CONSTANTS
    m1 = m1
    m2 = m2
    llama = llama
    api = api
    k1 = k1
    k2 = k2
    Uninit = Uninit
    None = None
    Models <- MCModels
    Backends <- MCBackends
    BackendOf <- MCOneBackend
    InitialBackends <- MCEager
    Mb <- MCMb
    Budget = 4
    Chats <- MCOneChat
    MaxRungs = 1
INVARIANTS AdmittedIsLoaded
PROPERTIES EvictedIsReleased
