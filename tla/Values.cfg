SPECIFICATION Spec
CONSTANTS
    NumRelays = 1
    NumOutputs = 1
    Inputs = {i1, i2}
    Mosfets = {m1}
    MaxClients = 1
    TimerQueueLength = 1
    MaxPercent = 100
    MaxDuty = 1023
    Threshold = 2
    MinInterval = 2
    Percents = {33}
    MaxLevel = 2
    Wrap = 3
    MaxFaults = 1
INVARIANTS
    InputsAreReported
    MosfetsAreReported
    AnalogIsClose
