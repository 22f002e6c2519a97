--------------------------------- MODULE Devices ---------------------------------
(***************************************************************************)
(* The two device stacks as the programs use them: Encoder over            *)
(* EncoderDriver over ModbusRTU, Sensor over DeviceDriver over SerialPort. *)
(*                                                                         *)
(* Opening takes several calls to the system, any of which may fail, after *)
(* which what the earlier ones acquired has to be given back; opening,     *)
(* reading and closing may come in any order and be repeated.              *)
(*                                                                         *)
(* libmodbus, the tty driver and the devices are external: every call may  *)
(* fail.  The raw position is a number below 2^Width - of 64 bits.         *)
(***************************************************************************)
EXTENDS Integers

CONSTANT Width     \* bits of the encoder's position, at least one

Protocols == {"BISSC", "ABZ", "TAMAGAWA"}
Configs == [protocol : Protocols, mt : {0, 1}]

VARIABLES
  enc_open,            \* EncoderDriver::open_
  modbus,              \* modbus_: null, or a context, perhaps connected_
  config,              \* protocol_, mt_bits_ (0 or not)
  adc_open,            \* DeviceDriver::open_
  port,                \* port_: null, or a SerialPort, perhaps with an fd_
  pcE, pcA,            \* where open() of each is
  handles,             \* system: descriptors held by each stack
  registers, position, \* the encoder: its configuration, its raw position
  value                \* the last position Encoder::read returned, and from what

encoder == <<enc_open, modbus, config, pcE, value>>
sensor == <<adc_open, port, pcA>>
world == <<registers, position>>
devVars == <<encoder, sensor, handles, world>>

Stacks == {"encoder", "sensor"}
Raw == 0..(2 ^ Width - 1)

DevInit ==
  /\ enc_open = FALSE /\ modbus = "null"
  /\ config = [protocol |-> "BISSC", mt |-> 0]
  /\ adc_open = FALSE /\ port = "null"
  /\ pcE = "idle" /\ pcA = "idle"
  /\ handles = [d \in Stacks |-> 0]
  /\ registers \in Configs /\ position \in Raw
  /\ value = [is |-> FALSE, n |-> 0, raw |-> 0]
-----------------------------------------------------------------------------
(* The devices (external).                                                 *)

Turn ==
  /\ position' \in Raw
  /\ UNCHANGED <<encoder, sensor, handles, registers>>

Reconfigure ==
  /\ registers' \in Configs
  /\ UNCHANGED <<encoder, sensor, handles, position>>
-----------------------------------------------------------------------------
(* ModbusRTU.                                                              *)

Hold(d) == handles' = [handles EXCEPT ![d] = @ + 1]
Release(d) == handles' = [handles EXCEPT ![d] = @ - 1]

(* disconnect and the destructor: the connection closed, the context freed.*)
ModbusReset ==
  /\ modbus' = "null"
  /\ IF modbus = "connected" THEN Release("encoder") ELSE UNCHANGED handles

(* Nothing happens if it is open already, or if modbus_new_rtu fails: open *)
(* catches the exception.                                                  *)
EncOpen ==
  /\ pcE = "idle"
  /\ \/ UNCHANGED <<pcE, modbus>>
     \/ ~enc_open /\ modbus' = "context" /\ pcE' = "connect"
  /\ UNCHANGED <<enc_open, config, value, sensor, handles, world>>

EncConnect ==
  /\ pcE = "connect"
  /\ \/ modbus' = "connected" /\ Hold("encoder") /\ pcE' = "init"
     \/ ModbusReset /\ pcE' = "idle"
  /\ UNCHANGED <<enc_open, config, value, sensor, world>>

(* Mutant: open gives up on init without giving back the connection.       *)
EncInitKeep ==
  /\ pcE = "init"
  /\ \/ config' = registers /\ enc_open' = TRUE
     \/ UNCHANGED <<config, enc_open>>
  /\ pcE' = "idle"
  /\ UNCHANGED <<modbus, handles, value, sensor, world>>

(* init reads the configuration registers at once.                         *)
EncInit ==
  /\ pcE = "init"
  /\ \/ config' = registers /\ enc_open' = TRUE /\ UNCHANGED <<modbus, handles>>
     \/ ModbusReset /\ UNCHANGED <<config, enc_open>>
  /\ pcE' = "idle"
  /\ UNCHANGED <<value, sensor, world>>

(* close, which the destructors of Encoder and EncoderDriver call too.     *)
EncClose ==
  /\ pcE = "idle"
  /\ enc_open
  /\ ModbusReset
  /\ enc_open' = FALSE
  /\ UNCHANGED <<config, pcE, value, sensor, world>>

(* int64_t from the bits of a uint64_t.                                    *)
Signed(raw) == IF raw >= 2 ^ (Width - 1) THEN raw - 2 ^ Width ELSE raw

(* Mutant: whatever the configuration, only the signed field is used.      *)
DecodeSigned(raw) ==
  IF config.protocol = "ABZ" \/ config.mt = 0 THEN Signed(raw) ELSE 0

(* EncoderDriver::read_value files the position as signed or unsigned by   *)
(* its configuration, Encoder::read casts the unsigned one.                *)
Decode(raw) ==
  LET is_unsigned == config.protocol # "ABZ" /\ config.mt # 0
      signed_val == IF is_unsigned THEN 0 ELSE Signed(raw)
      unsigned_val == IF is_unsigned THEN raw ELSE 0 IN
  IF is_unsigned THEN Signed(unsigned_val) ELSE signed_val

EncRead ==
  /\ pcE = "idle"
  /\ enc_open
  /\ value' = [is |-> TRUE, n |-> Decode(position), raw |-> position]
  /\ UNCHANGED <<enc_open, modbus, config, pcE, sensor, handles, world>>
-----------------------------------------------------------------------------
(* DeviceDriver and SerialPort.                                            *)

AdcOpen ==
  /\ pcA = "idle"
  /\ \/ UNCHANGED <<pcA, port, handles>>
     \/ ~adc_open /\ port' = "fd" /\ Hold("sensor") /\ pcA' = "attributes"
  /\ UNCHANGED <<adc_open, encoder, world>>

(* tcgetattr and tcsetattr; either failing closes the descriptor, and      *)
(* DeviceDriver drops the port.                                            *)
AdcAttributes ==
  /\ pcA = "attributes"
  /\ \/ adc_open' = TRUE /\ UNCHANGED <<port, handles>>
     \/ port' = "null" /\ Release("sensor") /\ UNCHANGED adc_open
  /\ pcA' = "idle"
  /\ UNCHANGED <<encoder, world>>

AdcClose ==
  /\ pcA = "idle"
  /\ adc_open
  /\ port' = "null" /\ Release("sensor")
  /\ adc_open' = FALSE
  /\ UNCHANGED <<pcA, encoder, world>>
-----------------------------------------------------------------------------
DevNext ==
  \/ Turn \/ Reconfigure
  \/ EncOpen \/ EncConnect \/ EncInit \/ EncClose \/ EncRead
  \/ AdcOpen \/ AdcAttributes \/ AdcClose

DevSpec == DevInit /\ [][DevNext]_devVars
-----------------------------------------------------------------------------
(* Properties                                                              *)

(* After any sequence of opens, failures at any step of them, and closes,  *)
(* a stack that says it is open has its one connection, and one that says  *)
(* it is closed holds nothing of the system - an open that fails can be    *)
(* tried again for ever.                                                   *)
Released ==
  /\ pcE = "idle" =>
       /\ handles["encoder"] = IF enc_open THEN 1 ELSE 0
       /\ modbus = IF enc_open THEN "connected" ELSE "null"
  /\ pcA = "idle" =>
       /\ handles["sensor"] = IF adc_open THEN 1 ELSE 0
       /\ port = IF adc_open THEN "fd" ELSE "null"

(* What Encoder::read returns is the raw position as a signed number, in   *)
(* whichever way the driver's configuration files it and however stale     *)
(* that is: "the value is unsigned and cast to int64_t" (Encoder.h:42).    *)
ValueIsPosition == value.is => value.n = Signed(value.raw)
=============================================================================
