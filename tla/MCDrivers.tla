----------------------------- MODULE MCDrivers -----------------------------
(* The drivers of pdcan-drivers that talk to a chip.  They share no state, *)
(* so one of them is at work at a time.                                    *)
EXTENDS Sw3538, RomSearch, Ina237, Thermometer
LOCAL INSTANCE TLC

CONSTANT Drivers

VARIABLE at_work

Policy(enabled, mv, ma, mw) ==
    [enabled |-> enabled,
     pd_limits |-> [max_voltage_mv |-> mv, max_current_ma |-> ma, max_power_mw |-> mw]]

\* A strong supply and a weak one, whose currents differ in the low bits too; one
\* that is switched off; more than a cable may carry; no limits.
MCPolicies ==
    {Policy(TRUE, 20000, 5000, 50000), Policy(TRUE, 12000, 3270, 33330),
     Policy(FALSE, 20000, 5000, 100000), Policy(TRUE, 20000, 7000, 100000),
     [enabled |-> TRUE, pd_limits |-> NoLimits]}

\* Devices whose codes part at the first bit, in the middle and at the last; one of
\* them is of another family.
MCRoms == {{}, {4}, {2, 3}, {2, 4}, {1, 3}}
MCOurs == MCRoms \ {{2, 4}}

Configuration(range, microohms, microamps) ==
    [adc_range |-> range, shunt_microohms |-> microohms, current_lsb_microamps |-> microamps]

\* CARRIER_CONFIG of the driver's tests and INA237_CONFIG of the backplane; two that
\* are refused.
Carrier == Configuration("Wide", 6000, 500)
Backplane == Configuration("Narrow", 1000, 1000)

BothBoards ==
    {Carrier, Backplane, Configuration("Wide", 1, 1), Configuration("Narrow", 0, 500)}
TheBackplane == {Backplane}

\* 30 A through the backplane's shunt and back, at 20 V; next to nothing; the most that
\* the narrow range measures.
Quantities(shunt, bv, temperature) ==
    [shunt |-> shunt, bus |-> bv, temperature |-> temperature]

MCInputs ==
    {Quantities(24000, 6400, 200), Quantities(-24003, 6403, -17),
     Quantities(-3, 1, -1), Quantities(32767, 3841, 1000)}

\* 8 A through the backplane's shunt at 20 V.
EightAmperes == {Quantities(6400, 6400, 200)}

\* Words of which the checksum accepts a mixture: 18.06 degrees, if the sensor is
\* unplugged after the first byte, and -9.88, if it replaces 85 degrees after the tenth
\* bit.
MCWords == {-158, 289}

Interchangeable == Permutations(Sensors)

DriversInit ==
    /\ at_work \in Drivers
    /\ Init /\ RomInit /\ InaInit /\ ThermometerInit
    /\ at_work # "search" => present = {}
    /\ at_work # "thermometer" => plugged = {}
    /\ at_work # "ina237" =>
          config = (CHOOSE c \in Configs : TRUE) /\ input = (CHOOSE i \in Inputs : TRUE)

DriversNext ==
    /\ \/ at_work = "sw3538" /\ Next /\ UNCHANGED <<romVars, inaVars, thermometerVars>>
       \/ at_work = "search" /\ RomNext /\ UNCHANGED <<vars, inaVars, thermometerVars>>
       \/ at_work = "ina237" /\ InaNext /\ UNCHANGED <<vars, romVars, thermometerVars>>
       \/ at_work = "thermometer" /\ ThermometerNext /\ UNCHANGED <<vars, romVars, inaVars>>
    /\ UNCHANGED at_work

DriversSpec ==
    DriversInit /\ [][DriversNext]_<<at_work, vars, romVars, inaVars, thermometerVars>>
=============================================================================
