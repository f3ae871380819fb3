CONSTANTS
    Shell = {"usb", "ssh"}
    Recv = "recv"
    Main = "main"
    Peer = {1}
    Val = {1, 2}
    Name = {1}
    QueueMax = 1
    MaxJobs = 2
    MaxLoss = 2
    MaxEvents = 3
    MaxFault = 1
SPECIFICATION Spec
INVARIANTS TypeOK NameCoherent IdentityStable LabelFitsZone
PROPERTIES PinSticks CommandEnds
CHECK_DEADLOCK FALSE
