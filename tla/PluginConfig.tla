---------------------------- MODULE PluginConfig ----------------------------
(***************************************************************************)
(* The configuration file (src/config/server_plugin_config.c).  A line is  *)
(* the sequence of its words, empty when it is blank or a comment, and a   *)
(* file the sequence of its lines.                                         *)
(***************************************************************************)
EXTENDS Integers, Sequences

CONSTANTS
    MaxPort,        \* server_port_max; port 0 is the system plugin's
    DefaultSystem,  \* server_default_system_plugin_path
    Numbers,        \* Numbers[w]: what strtol makes of w, if it takes all of it
    LongWords,      \* words that do not fit in a path of the configuration
    PayloadMin, PayloadMax, PayloadDefault,
    IntRange        \* 2^32, the values of an int

ASSUME ConfigAssumption ==
    /\ MaxPort \in 0..255
    /\ PayloadDefault \in PayloadMin..PayloadMax
    /\ Numbers \in [DOMAIN Numbers -> Int]
    /\ IntRange \in Nat \ {0}
    /\ Numbers["1"] = 1 /\ Numbers["2"] = 2
    /\ Numbers["7"] = 7 /\ Numbers["8"] = 8

Ports == 0..MaxPort

\* init_server_plugin_config_file.
Defaults ==
    [valid |-> TRUE, system_plugin |-> DefaultSystem, mappings |-> <<>>,
     serial_device |-> "", serial_baud |-> 9600, serial_databits |-> 8,
     serial_parity |-> "none", serial_stopbits |-> 1,
     serial_flow |-> "rtscts", squid_payload |-> PayloadDefault]

Invalid(config) == [config EXCEPT !.valid = FALSE]

\* parse_port_number, which reads the payload too.
IsByte(word) == word \in DOMAIN Numbers /\ Numbers[word] \in 0..255

SystemPluginLine(config, values) ==
    IF Len(values) # 1 \/ values[1] \in LongWords THEN Invalid(config)
    ELSE [config EXCEPT !.system_plugin = values[1]]

\* Mutant of PluginLine: a port may be given a second plugin.
PluginLineTwice(config, values) ==
    LET port == Numbers[values[1]]
    IN  IF \/ Len(values) # 2
           \/ ~IsByte(values[1])
           \/ port \notin Ports \ {0}
           \/ Len(config.mappings) >= MaxPort
           \/ values[2] \in LongWords
        THEN Invalid(config)
        ELSE [config EXCEPT !.mappings =
                Append(@, [port |-> port, library |-> values[2]])]

PluginLine(config, values) ==
    LET port == Numbers[values[1]]
        mapped == {config.mappings[i].port : i \in DOMAIN config.mappings}
    IN  IF \/ Len(values) # 2
           \/ ~IsByte(values[1])
           \/ port \notin Ports \ {0}
           \/ port \in mapped
           \/ Len(config.mappings) >= MaxPort
           \/ values[2] \in LongWords
        THEN Invalid(config)
        ELSE [config EXCEPT !.mappings =
                Append(@, [port |-> port, library |-> values[2]])]

\* The other directives: one value, checked and stored.
SettingLine(config, keyword, value) ==
    LET number == Numbers[value]
        Choice(words) == value \in words
    IN  CASE keyword = "serial_device" /\ value \notin LongWords ->
               [config EXCEPT !.serial_device = value]
          [] keyword = "serial_baud" /\ value \in DOMAIN Numbers
               /\ number > 0 ->
               [config EXCEPT !.serial_baud = number % IntRange]
          [] keyword = "serial_databits" /\ Choice({"7", "8"}) ->
               [config EXCEPT !.serial_databits = number]
          [] keyword = "serial_parity" /\ Choice({"none", "even", "odd"}) ->
               [config EXCEPT !.serial_parity = value]
          [] keyword = "serial_stopbits" /\ Choice({"1", "2"}) ->
               [config EXCEPT !.serial_stopbits = number]
          [] keyword = "serial_flow" /\ Choice({"none", "rtscts", "xonxoff"}) ->
               [config EXCEPT !.serial_flow = value]
          [] keyword = "squid_payload" /\ IsByte(value)
               /\ number \in PayloadMin..PayloadMax ->
               [config EXCEPT !.squid_payload = number]
          [] OTHER -> Invalid(config)

\* One turn of the loop.  The first bad line ends it.
ParseLine(config, line) ==
    CASE ~config.valid \/ line = <<>> -> config
      [] config.valid /\ line # <<>> /\ line[1] = "system_plugin" ->
           SystemPluginLine(config, Tail(line))
      [] config.valid /\ line # <<>> /\ line[1] = "plugin" ->
           PluginLine(config, Tail(line))
      [] config.valid /\ Len(line) = 2
           /\ line[1] \notin {"system_plugin", "plugin"} ->
           SettingLine(config, line[1], line[2])
      [] OTHER -> Invalid(config)
=============================================================================
