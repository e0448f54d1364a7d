------------------------------ MODULE GpioPorts ------------------------------
(***************************************************************************)
(* The tables of src/GPIO/src/gpio.c: which bit of which registers belongs *)
(* to a pin of the board's connectors. Registers are sets of bits; a write *)
(* to a SET or CLR register changes the bits of its mask only.             *)
(***************************************************************************)
EXTENDS Integers, Sequences, FiniteSets

Ports == 0..3

(* port_info[port].MAPPING: pin of the connector by position; port 3 has   *)
(* two positions ({-1, -1}) without a pin.                                 *)
NoPin == "none"
Mapping == [port \in Ports |->
  CASE port = 0 -> <<"J3.40", "J2.24", "J2.11", "J2.12", "J2.13", "J2.14",
                     "J3.33", "J1.27">>
    [] port = 1 -> <<>>
    [] port = 2 -> <<"J3.47", "J3.56", "J3.48", "J3.55", "J3.49", "J3.58",
                     "J3.50", "J3.45", "J1.49", "J1.50", "J1.51", "J1.52",
                     "J1.53">>
    [] port = 3 -> <<"J3.54", "J3.46", NoPin, NoPin, "J3.36", "J1.24">>]

AllPins == (UNION {{Mapping[p][j] : j \in 1..Len(Mapping[p])} : p \in Ports}) \ {NoPin}

(* Mutant: port 3 without its offset.                                      *)
MappingOffsetMissing(port) == 0

(* port_info[port].MAPPING_OFFSET: port 3's bits come after port 2's in    *)
(* the registers the two share.                                            *)
MappingOffset(port) == IF port = 3 THEN 25 ELSE 0

(* The DIR registers of ports 2 and 3 are the same; OUTP is per port.      *)
DirRegister(port) == IF port = 3 THEN 2 ELSE port
DirRegisters == {DirRegister(p) : p \in Ports}

(* get_port_mapping: the first place that holds the pin.                   *)
Earlier(a, b) == a[1] < b[1] \/ (a[1] = b[1] /\ a[2] < b[2])
Holding(pin) ==
  {a \in Ports \X (1..32) : a[2] \in DOMAIN Mapping[a[1]] /\ Mapping[a[1]][a[2]] = pin}
Place == [pin \in AllPins |->
  CHOOSE a \in Holding(pin) : \A b \in Holding(pin) : ~Earlier(b, a)]
PortOf(pin) == Place[pin][1]
Bit(pin) == Place[pin][2] - 1 + MappingOffset(PortOf(pin))

(* gpio_init numbers the device files in the order of the tables, for each *)
(* pin first its direction, then its value.                                *)
Minor(pin, function) ==
  2 * Cardinality({q \in AllPins : Earlier(Place[q], Place[pin])})
    + (IF function = "direction" THEN 0 ELSE 1)
Devices == AllPins \X {"direction", "value"}
mappings == [m \in {Minor(d[1], d[2]) : d \in Devices} |->
               CHOOSE d \in Devices : Minor(d[1], d[2]) = m]
=============================================================================
