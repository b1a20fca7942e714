------------------------- MODULE SwitchboardConfig -------------------------
(***************************************************************************)
(* The parameters of the switchboard, schakelbord/source/include/config.h: *)
(* its channels and the limits of its outputs, MOSFETs and inputs.  All    *)
(* parts of the board are built with the same values.                      *)
(***************************************************************************)
EXTENDS Integers

CONSTANTS NumRelays,        \* RELAY_COUNT, channels of port B
          NumOutputs,       \* OUTPUT_COUNT, channels of port A
          Inputs,           \* digital inputs
          Mosfets,          \* MOSFET channels
          MaxClients,       \* BLE_MAX_CONNECTIONS
          TimerQueueLength, \* commands the timer task holds
          MaxPercent,       \* MOSFET_MAX_PERCENT
          MaxDuty,          \* duty of a fully open MOSFET, 2 ^ MOSFET_PWM_RESOLUTION_BITS - 1
          Threshold,        \* ANALOG_NOTIFY_THRESHOLD_MV
          MinInterval,      \* ANALOG_NOTIFY_MIN_INTERVAL_MS, in samples
          Percents,         \* bound of the models: duties a client asks for
          MaxLevel,         \* bound: levels of an analog input are 0 .. MaxLevel
          Wrap,             \* bound: period of millis(), in samples
          MaxFaults         \* bound: glitches of the port expander and restarts

ASSUME OutputsAssumption ==
    /\ NumRelays \in Nat /\ NumOutputs \in Nat
    /\ TimerQueueLength \in Nat /\ MaxClients \in Nat
    /\ MaxFaults \in Nat

ASSUME ValuesAssumption ==
    /\ Percents \subseteq Nat /\ MaxPercent \in Nat \ {0} /\ MaxDuty \in Nat
    /\ MaxClients \in Nat /\ MaxLevel \in Nat /\ Threshold \in Nat \ {0}
    /\ MinInterval \in Nat /\ Wrap \in Nat /\ MinInterval < Wrap
=============================================================================
