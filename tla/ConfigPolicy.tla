---------------------------- MODULE ConfigPolicy ----------------------------
(***************************************************************************)
(* The CONF key grammar and value policy (config_parser.cpp,               *)
(* config_value.cpp, config_policy.cpp, config_validate.cpp), what the two *)
(* drivers check again (sx127x_driver.cpp, sx1262_driver.cpp), and the     *)
(* bands' boot defaults (daemon_band.cpp).                                 *)
(*                                                                         *)
(* A value is the form its text has and the number it denotes, in          *)
(* thousandths of the key's unit: SF=7 is Dec(7), BW=7.8 is Frac(7800),    *)
(* FREQ=869.525 is Frac(869525), SYNC=0x12 is Hex(18).                     *)
(***************************************************************************)
EXTENDS Integers, Sequences, FiniteSets

Dec(i)  == [form |-> "int",  n |-> 1000 * i]
Frac(t) == [form |-> "real", n |-> t]
Hex(i)  == [form |-> "hex",  n |-> 1000 * i]
Word(w) == [form |-> w,      n |-> 0]           \* auto, off, none or junk

LoraOnly == {"SF", "BW", "CR", "LDRO", "CRC"}
FskOnly  == {"BR", "FREQDEV", "RXBW", "OOK", "SHAPING", "ENCODING"}
Common   == {"FREQ", "POWER", "PREAMBLE", "SYNC"}
ModeKeys(mode) == Common \cup IF mode = "LORA" THEN LoraOnly ELSE FskOnly
OtherKeys(mode) == IF mode = "LORA" THEN FskOnly ELSE LoraOnly
Known(key) == key \in {"GETRSSI"} \cup Common \cup LoraOnly \cup FskOnly

-----------------------------------------------------------------------------
(* Parsers: a set of the numbers a text can be read as, empty when refused. *)

AsInt(v)   == IF v.form = "int" THEN {v.n \div 1000} ELSE {}
AsFloat(v) == IF v.form \in {"int", "real", "hex"} THEN {v.n} ELSE {}
AsBool(v)  == AsInt(v) \cap {0, 1}
AsU32(v)   == IF v.form \in {"int", "hex"} /\ v.n >= 0 THEN {v.n \div 1000} ELSE {}

-----------------------------------------------------------------------------
(* config_policy.cpp                                                        *)

LoraBw == {7800, 10400, 15600, 20800, 31250, 41700, 62500, 125000, 250000, 500000}

RxBw127 == {2600, 3100, 3900, 5200, 6300, 7800, 10400, 12500, 15600, 20800, 25000, 31250,
            31300, 41700, 50000, 62500, 83300, 100000, 125000, 166700, 200000, 250000}

RxBw126 == {4800, 5800, 7300, 9700, 11700, 14600, 19500, 23400, 29300, 39000, 46900, 58600,
            78200, 93800, 117300, 156200, 187200, 234300, 312000, 373600, 467000}

PowerOk(p, power) ==
    IF p.family = "SX127X"
    THEN power \in 2 .. 17 \/ (p.high_power /\ power = 20)
    ELSE power \in 0 .. p.power_max

FskSyncOk(s) == s \in 1 .. 65535 /\ (s > 255 => s % 256 # 0)

\* Symbol time of 16 ms or more; sf in bits, bw in Hz.
LdroRequired(sf, bw) == 2^sf * 1000 >= 16 * bw

PayloadLimit(p, mode) == IF p.family = "SX127X" /\ mode = "FSK" THEN 63 ELSE 255

\* The largest LoRa packet takes at most CONFIG_POLICY_MAX_AIRTIME_MS,
\* 20 s.  Counted in quarters of a symbol: preamble + 4.25 + payload.
LoraAirtimeOk(sf, bw, cr, preamble, len) ==
    LET den == 4 * (IF LdroRequired(sf, bw) THEN sf - 2 ELSE sf)
        num == 8 * len - 4 * sf + 44
        payload == 8 + (IF num > 0 THEN ((num + den - 1) \div den) * cr ELSE 0)
    IN  (4 * preamble + 17 + 4 * payload) * 2^sf <= 80 * bw

\* br in bit/s.
FskAirtimeOk(br, bits, len) == bits + 8 * (len + 10) <= 20 * br

-----------------------------------------------------------------------------
(* config_validate.cpp: is v acceptable for key in a mode?                  *)

ShapingOk(v) == v.form \in {"off", "none"} \/ AsFloat(v) \cap {0, 300, 500, 700, 1000} # {}

CommonValid(p, key, v) ==
    CASE key = "FREQ"  -> \E f \in AsFloat(v) : p.band.min <= f /\ f <= p.band.max
      [] key = "POWER" -> \E d \in AsInt(v) : PowerOk(p, d)

LoraValid(p, key, v) ==
    CASE key = "SF"       -> AsInt(v) \cap 7 .. 12 # {}
      [] key = "BW"       -> AsFloat(v) \cap LoraBw # {}
      [] key = "CR"       -> AsInt(v) \cap 5 .. 8 # {}
      [] key = "CRC"      -> AsBool(v) # {}
      [] key = "PREAMBLE" -> AsInt(v) \cap 6 .. 512 # {}
      [] key = "SYNC"     -> AsU32(v) \cap 0 .. 255 # {}
      [] key = "LDRO"     -> v.form = "auto" \/ AsBool(v) # {}
      [] OTHER            -> CommonValid(p, key, v)

FskValid(p, key, v) ==
    CASE key = "BR"       -> \E b \in AsFloat(v) : 500 <= b /\ b <= 300000
      [] key = "FREQDEV"  -> \E d \in AsFloat(v) :
                                /\ 0 < d /\ d <= 200000
                                /\ p.family = "SX1262" => d >= 600
      [] key = "RXBW"     -> AsFloat(v) \cap (IF p.family = "SX1262" THEN RxBw126 ELSE RxBw127) # {}
      [] key = "OOK"      -> p.family # "SX1262" /\ AsBool(v) # {}
      [] key = "SHAPING"  -> ShapingOk(v)
      [] key = "ENCODING" -> AsInt(v) \cap (IF p.family = "SX1262" THEN {0, 2} ELSE 0 .. 2) # {}
      [] key = "PREAMBLE" -> AsInt(v) \cap 0 .. 2048 # {}
      [] key = "SYNC"     -> \E s \in AsU32(v) : FskSyncOk(s)
      [] OTHER            -> CommonValid(p, key, v)

Valid(p, mode, key, v) == IF mode = "LORA" THEN LoraValid(p, key, v) ELSE FskValid(p, key, v)

-----------------------------------------------------------------------------
(* The drivers check every value again before the setter.  A value they do  *)
(* not take is printed as rejected and the setter's state stays 0, success. *)
(* OOK on the SX1262 is the exception: it is an error.                      *)

Takes127(p, mode, key, v) ==
    CASE key = "FREQ"     -> \E f \in AsFloat(v) : f > 0
      [] key = "FREQDEV"  -> \E d \in AsFloat(v) : 0 < d /\ d <= 200000
      [] key = "ENCODING" -> AsInt(v) \cap 0 .. 2 # {}
      [] OTHER            -> Valid(p, mode, key, v)

Takes126(p, mode, key, v) ==
    CASE key = "RXBW"     -> \E b \in AsFloat(v) : b > 0
      [] key = "OOK"      -> TRUE
      [] OTHER            -> Takes127(p, mode, key, v)

\* Mutant: the driver is built without the --high-power permission.
DriverTakesUnpermitted(p, mode, key, v) ==
    IF p.family = "SX127X" THEN Takes127([p EXCEPT !.high_power = FALSE], mode, key, v)
    ELSE Takes126(p, mode, key, v)

DriverTakes(p, mode, key, v) ==
    IF p.family = "SX127X" THEN Takes127(p, mode, key, v) ELSE Takes126(p, mode, key, v)

DriverFails(p, mode, key) == p.family = "SX1262" /\ mode = "FSK" /\ key = "OOK"

-----------------------------------------------------------------------------
(* A configuration: the modem and what each of its keys is set to.  LDRO is *)
(* -1 for auto.  A key that a boot or a mode switch leaves to RadioLib is   *)
(* None.                                                                    *)

LdroAuto == -1000
None == -2000

\* What a setter is called with.
Setting(key, v) ==
    CASE key = "LDRO" /\ v.form = "auto"               -> LdroAuto
      [] key = "SHAPING" /\ v.form \in {"off", "none"} -> 0
      [] OTHER                                         -> v.n

Band433 == [min |-> 430000, max |-> 440000, FREQ |-> 433900, SF |-> 12000, BW |-> 125000,
            SYNC |-> 18000, PREAMBLE |-> 8000, CR |-> 5000, CRC |-> 1000, LDRO |-> 1000,
            POWER |-> 10000]

Band868 == [min |-> 863000, max |-> 870000, FREQ |-> 869525, SF |-> 11000, BW |-> 250000,
            SYNC |-> 43000, PREAMBLE |-> 16000, CR |-> 5000, CRC |-> 1000, LDRO |-> LdroAuto,
            POWER |-> 10000]

\* What RadioDriver::begin() and switchMode() leave on the chip.
Defaults(p, mode) ==
    [mode |-> mode,
     val  |-> [key \in ModeKeys(mode) |->
        CASE mode = "LORA" -> p.band[key]
          [] mode = "FSK" /\ key \in {"FREQ", "POWER"} -> p.band[key]
          [] mode = "FSK" /\ key = "BR"       -> 4800
          [] mode = "FSK" /\ key = "FREQDEV"  -> 5000
          [] mode = "FSK" /\ key = "PREAMBLE" -> 16000
          [] OTHER -> None]]
=============================================================================
