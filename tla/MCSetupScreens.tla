--------------------------- MODULE MCSetupScreens ---------------------------
EXTENDS SetupScreens
CONSTANTS d1, d2
MCDevices == {d1, d2}
MCSaved == {[k \in Kinds |-> None]}
MCAdverts == {[addr |-> d1, name |-> "launcher", launcher |-> FALSE, switchboard |-> FALSE],
              [addr |-> d2, name |-> "other", launcher |-> TRUE, switchboard |-> FALSE],
              [addr |-> d2, name |-> "launcher", launcher |-> FALSE, switchboard |-> TRUE]}
=============================================================================
