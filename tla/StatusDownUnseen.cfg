SPECIFICATION Spec
CONSTANTS
    Names = {"web", "db"}
    RemotePorts = {23334}
    LocalPorts = {1080}
    Met <- MCMet
    Faults = 2
PROPERTY DownIsReported
