------------------------ MODULE ServerLifecycleProofs -----------------------
(***************************************************************************)
(* Proofs about the server's lifecycle, for every number of ports, set of  *)
(* libraries and configuration file.                                       *)
(***************************************************************************)
EXTENDS ServerLifecycle, TLAPS

Loading == {"open", "factory", "register", "start", "record"}
Running == {"transport", "accept", "sockets", "loop", "close_sockets",
            "close_transport"}
Ending == {"unload", "done"}

Settings ==
    [valid : BOOLEAN, system_plugin : Libraries, mappings : Seq(Mapping),
     serial_device : STRING \cup {""}, serial_baud : Int, serial_databits : {7, 8},
     serial_parity : {"none", "even", "odd"}, serial_stopbits : {1, 2},
     serial_flow : {"none", "rtscts", "xonxoff"},
     squid_payload : PayloadMin..PayloadMax]

\* How far run_server_runtime is, and what is loaded and open there.
StageInv ==
    /\ settings \in Settings
    /\ pc \in {"signals", "parse"} => loaded = <<>> /\ calls = <<>>
    /\ pc = "signals" => index = 1 /\ settings = Defaults
    /\ pc = "parse" => settings.valid /\ index \in 1..(Len(file) + 1)
    /\ pc \in Loading =>
         /\ settings.valid
         /\ index \in 1..(Len(config) + 1)
         /\ pc # "open" => index =< Len(config)
         /\ Len(loaded) = index - 1
         /\ \A i \in 1..Len(loaded) : loaded[i] = config[i]
    /\ pc \in Running => settings.valid /\ loaded = config
    /\ pc = "done" => loaded = <<>>

\* The transport is open only while the loop is prepared, runs and is left.
OpenInv ==
    /\ pc \notin (Running \cup {"killed"}) \ {"transport"} => fds = {}
    /\ pc # "killed" => fds \subseteq IF mode = "serial" THEN {"serial"}
                                      ELSE {"listen", "path", "client"}
    /\ pc = "accept" => mode = "local"
    /\ pc \notin {"loop", "close_sockets", "killed"} => sockets = {}

\* TypeOK, but for the handles.
StateOK ==
    /\ keep_running \in BOOLEAN
    /\ disposition \in [Signals -> {"default", "handler"}]
    /\ file \in Files
    /\ index \in 1..(Len(file) + 1) \cup 1..(Len(config) + 1)
    /\ pc \in Stages
    /\ slots \in [Ports -> Libraries \cup {NULL}]
    /\ loaded \in Seq(Mapping)
    /\ fds \subseteq {"listen", "path", "client", "serial"}
    /\ sockets \subseteq Ports \ {0}
    /\ status \in {0, 1}
    /\ calls \in Seq(Call)

TypeInv == StateOK /\ StageInv /\ OpenInv

\* No two plugins share a port, the one being started included.
PortsInv ==
    /\ \A j, k \in 1..Len(loaded) : loaded[j].port = loaded[k].port => j = k
    /\ pc \in {"start", "record"} =>
         \A k \in 1..Len(loaded) : loaded[k].port # Now.port

LifecycleInv ==
    /\ TypeInv
    /\ RegistryMatchesLoader
    /\ PortsInv
-----------------------------------------------------------------------------
(***************************************************************************)
(* The configuration file.                                                 *)
(***************************************************************************)

TakenPath(line) ==
    line # <<>> /\ <<line[1], Len(line)>> \in PathLines =>
      PathOf(line) \in Libraries \cup LongWords

LEMMA ModInt ==
    ASSUME NEW a \in Int, NEW b \in Nat, b # 0
    PROVE  a % b \in Int
  OBVIOUS

LEMMA SeqFacts ==
    ASSUME NEW S, NEW s \in Seq(S)
    PROVE  /\ Len(s) \in Nat /\ DOMAIN s = 1..Len(s)
           /\ \A i \in 1..Len(s) : s[i] \in S
           /\ s # <<>> => Len(s) > 0
  OBVIOUS

LEMMA AppendFacts ==
    ASSUME NEW S, NEW s \in Seq(S), NEW e \in S
    PROVE  /\ Append(s, e) \in Seq(S)
           /\ Len(Append(s, e)) = Len(s) + 1
           /\ Append(s, e)[Len(s) + 1] = e
           /\ \A i \in 1..Len(s) : Append(s, e)[i] = s[i]
  OBVIOUS

LEMMA TailOf ==
    ASSUME NEW S, NEW s \in Seq(S), s # <<>>
    PROVE  /\ Len(s) \in Nat /\ Len(s) > 0
           /\ Len(Tail(s)) = Len(s) - 1
           /\ \A i \in 1..(Len(s) - 1) : Tail(s)[i] = s[i + 1]
           /\ \A i \in 1..Len(s) : s[i] \in S
  OBVIOUS

LEMMA SameElements ==
    ASSUME NEW S, NEW s \in Seq(S), NEW t \in Seq(S),
           Len(s) = Len(t), \A i \in 1..Len(s) : s[i] = t[i]
    PROVE  s = t
  OBVIOUS

\* init_server_plugin_config_file gives settings, with no plugin mapped.
LEMMA DefaultsType ==
    /\ Defaults \in Settings
    /\ Defaults.valid
    /\ Defaults.mappings = <<>>
    /\ Defaults.system_plugin = DefaultSystem
<1>1. <<>> \in Seq(Mapping)
  BY SeqFacts
<1>2. DefaultSystem \in Libraries
  BY LifecycleAssumption
<1>3. PayloadDefault \in PayloadMin..PayloadMax
  BY ConfigAssumption
<1> QED BY <1>1, <1>2, <1>3 DEF Defaults, Settings

\* A setting changes neither the plugins nor, when it is taken, the validity.
LEMMA SettingLineEffect ==
    ASSUME NEW c \in Settings, NEW k \in STRING, NEW v \in STRING
    PROVE  /\ SettingLine(c, k, v) \in Settings
           /\ SettingLine(c, k, v).system_plugin = c.system_plugin
           /\ SettingLine(c, k, v).mappings = c.mappings
           /\ SettingLine(c, k, v).valid => SettingLine(Defaults, k, v).valid
<1> DEFINE number == Numbers[v]
<1>1. v \in DOMAIN Numbers => number \in Int
  BY ConfigAssumption
<1>2. v \in DOMAIN Numbers => number % IntRange \in Int
  <2>1. IntRange \in Nat /\ IntRange # 0
    BY ConfigAssumption
  <2> QED BY <1>1, <2>1, ModInt
<1>3. v \in {"7", "8"} => number \in {7, 8}
  BY ConfigAssumption
<1>4. v \in {"1", "2"} => number \in {1, 2}
  BY ConfigAssumption
<1> HIDE DEF number
<1> DEFINE Taken ==
      \/ k = "serial_device" /\ v \notin LongWords
      \/ k = "serial_baud" /\ v \in DOMAIN Numbers /\ number > 0
      \/ k = "serial_databits" /\ v \in {"7", "8"}
      \/ k = "serial_parity" /\ v \in {"none", "even", "odd"}
      \/ k = "serial_stopbits" /\ v \in {"1", "2"}
      \/ k = "serial_flow" /\ v \in {"none", "rtscts", "xonxoff"}
      \/ k = "squid_payload" /\ IsByte(v) /\ number \in PayloadMin..PayloadMax
<1>5. ASSUME NEW d \in Settings
      PROVE  /\ SettingLine(d, k, v) \in Settings
             /\ SettingLine(d, k, v).system_plugin = d.system_plugin
             /\ SettingLine(d, k, v).mappings = d.mappings
             /\ Taken => SettingLine(d, k, v).valid = d.valid
             /\ ~Taken => ~SettingLine(d, k, v).valid
  BY <1>2, <1>3, <1>4, ZenonT(40) DEF SettingLine, Settings, Invalid, number
<1> QED
  BY <1>5, DefaultsType

\* What a line that is taken does to the plugins.
LineEffect(c, line) ==
    \/ /\ ParseLine(c, line).system_plugin = c.system_plugin
       /\ ParseLine(c, line).mappings = c.mappings
       /\ line # <<>> => line[1] \notin {"system_plugin", "plugin"}
    \/ /\ line # <<>> /\ line[1] = "system_plugin"
       /\ ParseLine(c, line).system_plugin = PathOf(line)
       /\ ParseLine(c, line).mappings = c.mappings
    \/ /\ line # <<>> /\ line[1] = "plugin"
       /\ ParseLine(c, line).system_plugin = c.system_plugin
       /\ Numbers[line[2]] \in Ports \ {0}
       /\ \A i \in 1..Len(c.mappings) : c.mappings[i].port # Numbers[line[2]]
       /\ ParseLine(c, line).mappings =
            Append(c.mappings, [port |-> Numbers[line[2]],
                                library |-> PathOf(line)])

\* parse_server_plugin_config_file: a line that is taken is one that is taken
\* whatever came before it, and adds to the plugins what it says.
LEMMA ParseLineEffect ==
    ASSUME NEW c \in Settings, c.valid, NEW line \in Seq(STRING),
           TakenPath(line)
    PROVE  /\ ParseLine(c, line) \in Settings
           /\ ParseLine(c, line).valid =>
                /\ LineEffect(c, line)
                /\ line = <<>> \/ ParseLine(Defaults, line).valid
<1>0. Defaults.valid
  BY DefaultsType
<1> DEFINE Words == line # <<>> =>
      /\ Len(line) \in Nat /\ Len(line) > 0
      /\ Len(Tail(line)) = Len(line) - 1
      /\ \A i \in 1..(Len(line) - 1) : Tail(line)[i] = line[i + 1]
      /\ \A i \in 1..Len(line) : line[i] \in STRING
<1>w. Words
  BY TailOf, Zenon
<1>1. CASE line = <<>>
  BY <1>1 DEF ParseLine, LineEffect
<1>2. CASE line # <<>> /\ line[1] = "system_plugin"
  <2>1. /\ ParseLine(c, line) = SystemPluginLine(c, Tail(line))
        /\ ParseLine(Defaults, line) = SystemPluginLine(Defaults, Tail(line))
    BY <1>0, <1>2 DEF ParseLine
  <2>0. /\ Len(line) \in Nat /\ Len(Tail(line)) = Len(line) - 1
        /\ \A i \in 1..(Len(line) - 1) : Tail(line)[i] = line[i + 1]
    BY <1>2, <1>w
  <2>2. Len(Tail(line)) = 1 => Len(line) = 2 /\ Tail(line)[1] = PathOf(line)
    <3>1. Len(Tail(line)) = 1 => Len(line) = 2
      BY ONLY <2>0
    <3>2. Len(line) = 2 => 1 \in 1..(Len(line) - 1)
      BY ONLY <2>0
    <3>3. Len(line) = 2 => Tail(line)[1] = line[1 + 1]
      BY ONLY <2>0, <3>2, Zenon
    <3> QED BY ONLY <3>1, <3>3 DEF PathOf
  <2>3. Len(Tail(line)) = 1 => PathOf(line) \in Libraries \cup LongWords
    BY <1>2, <2>2 DEF TakenPath, PathLines
  <2>4. CASE Len(Tail(line)) = 1 /\ Tail(line)[1] \notin LongWords
    <3>1. ParseLine(c, line) = [c EXCEPT !.system_plugin = PathOf(line)]
      BY <2>1, <2>2, <2>4 DEF SystemPluginLine
    <3>2. ParseLine(Defaults, line).valid
      BY <2>1, <2>4, DefaultsType DEF SystemPluginLine, Settings
    <3> QED BY <1>2, <2>2, <2>3, <2>4, <3>1, <3>2, ZenonT(40) DEF LineEffect, Settings
  <2>5. CASE ~(Len(Tail(line)) = 1 /\ Tail(line)[1] \notin LongWords)
    BY <2>1, <2>5, ZenonT(40) DEF SystemPluginLine, Invalid, Settings
  <2> QED BY <2>4, <2>5
<1>3. CASE line # <<>> /\ line[1] = "plugin"
  <2>1. /\ ParseLine(c, line) = PluginLine(c, Tail(line))
        /\ ParseLine(Defaults, line) = PluginLine(Defaults, Tail(line))
    BY <1>0, <1>3 DEF ParseLine
  <2>2. Len(Tail(line)) = 2 => /\ Len(line) = 3
                               /\ Tail(line)[1] = line[2]
                               /\ Tail(line)[2] = PathOf(line)
    <3>0. /\ Len(line) \in Nat /\ Len(Tail(line)) = Len(line) - 1
          /\ \A i \in 1..(Len(line) - 1) : Tail(line)[i] = line[i + 1]
      BY <1>3, <1>w
    <3>1. Len(Tail(line)) = 2 => Len(line) = 3
      BY ONLY <3>0
    <3>2. Len(line) = 3 => {1, 2} \subseteq 1..(Len(line) - 1)
      BY ONLY <3>0
    <3>3. Len(line) = 3 => /\ Tail(line)[1] = line[1 + 1]
                           /\ Tail(line)[2] = line[2 + 1]
      BY ONLY <3>0, <3>2, Zenon
    <3> QED BY ONLY <3>1, <3>2, <3>3 DEF PathOf
  <2>3. Len(Tail(line)) = 2 => PathOf(line) \in Libraries \cup LongWords
    BY <1>3, <2>2 DEF TakenPath, PathLines
  <2> DEFINE port == Numbers[Tail(line)[1]]
             mapped == {c.mappings[i].port : i \in DOMAIN c.mappings}
             Bad == \/ Len(Tail(line)) # 2
                    \/ ~IsByte(Tail(line)[1])
                    \/ port \notin Ports \ {0}
                    \/ port \in mapped
                    \/ Len(c.mappings) >= MaxPort
                    \/ Tail(line)[2] \in LongWords
  <2> HIDE DEF port
  <2>4. CASE Bad
    <3>1. ParseLine(c, line) = Invalid(c)
      BY <2>1, <2>4 DEF PluginLine, port
    <3> QED BY <3>1 DEF Invalid, Settings
  <2>5. CASE ~Bad
    <3> DEFINE new == [port |-> port, library |-> Tail(line)[2]]
    <3>1. ParseLine(c, line) = [c EXCEPT !.mappings = Append(c.mappings, new)]
      BY <2>1, <2>5 DEF PluginLine, port
    <3>2. c.mappings \in Seq(Mapping) /\ new \in Mapping
      BY <2>2, <2>3, <2>5 DEF Settings, Mapping
    <3> HIDE DEF new
    <3>3. Append(c.mappings, new) \in Seq(Mapping)
      BY <3>2, AppendFacts
    <3>4. \A i \in 1..Len(c.mappings) : c.mappings[i].port # port
      BY <2>5, <3>2
    <3>5. MaxPort > 0
      <4>0. MaxPort \in 0..255
        BY ConfigAssumption, Zenon
      <4>1. MaxPort \in Nat
        BY <4>0
      <4>2. Len(c.mappings) \in Nat
        BY <3>2, SeqFacts
      <4>3. ~(Len(c.mappings) >= MaxPort)
        BY <2>5
      <4> QED BY <4>1, <4>2, <4>3
    <3>6. PluginLine(Defaults, Tail(line)) =
            [Defaults EXCEPT !.mappings = Append(@, new)]
      <4>0. MaxPort \in 0..255
        BY ConfigAssumption, Zenon
      <4>1. MaxPort \in Nat
        BY <4>0
      <4>2. ~(Len(<<>>) >= MaxPort)
        BY <4>1, <3>5
      <4>3. {<<>>[i].port : i \in DOMAIN <<>>} = {}
        OBVIOUS
      <4> QED BY <2>5, <4>2, <4>3, DefaultsType DEF PluginLine, port, new
    <3>7. ParseLine(Defaults, line).valid
      BY <2>1, <3>6, DefaultsType DEF Settings
    <3>8. /\ ParseLine(c, line) \in Settings
          /\ ParseLine(c, line).system_plugin = c.system_plugin
          /\ ParseLine(c, line).mappings = Append(c.mappings, new)
      BY <3>1, <3>3 DEF Settings
    <3>9. /\ port = Numbers[line[2]]
          /\ new = [port |-> Numbers[line[2]], library |-> PathOf(line)]
          /\ port \in Ports \ {0}
      BY <2>2, <2>5 DEF port, new
    <3> QED BY <1>3, <3>4, <3>7, <3>8, <3>9 DEF LineEffect
  <2> QED BY <2>4, <2>5
<1>4. CASE line # <<>> /\ line[1] \notin {"system_plugin", "plugin"}
  <2>1. CASE Len(line) = 2
    <3>1. /\ ParseLine(c, line) = SettingLine(c, line[1], line[2])
          /\ ParseLine(Defaults, line) = SettingLine(Defaults, line[1], line[2])
      BY <1>0, <1>4, <2>1 DEF ParseLine
    <3>2. line[1] \in STRING /\ line[2] \in STRING
      BY <1>4, <2>1, <1>w
    <3>3. /\ ParseLine(c, line) \in Settings
          /\ ParseLine(c, line).system_plugin = c.system_plugin
          /\ ParseLine(c, line).mappings = c.mappings
          /\ ParseLine(c, line).valid => ParseLine(Defaults, line).valid
      <4> DEFINE k == line[1]
                 v == line[2]
      <4>1. /\ SettingLine(c, k, v) \in Settings
            /\ SettingLine(c, k, v).system_plugin = c.system_plugin
            /\ SettingLine(c, k, v).mappings = c.mappings
            /\ SettingLine(c, k, v).valid => SettingLine(Defaults, k, v).valid
        <5> HIDE DEF k, v
        <5>1. k \in STRING /\ v \in STRING
          BY <3>2 DEF k, v
        <5> QED BY <5>1, SettingLineEffect, Zenon
      <4> QED BY <3>1, <4>1
    <3> QED BY <1>4, <3>3 DEF LineEffect
  <2>2. CASE Len(line) # 2
    <3>1. ParseLine(c, line) = Invalid(c)
      BY <1>4, <2>2 DEF ParseLine
    <3> QED BY <3>1 DEF Invalid, Settings
  <2> QED BY <2>1, <2>2
<1> QED BY <1>1, <1>2, <1>3, <1>4
-----------------------------------------------------------------------------
(***************************************************************************)
(* Stages, types and open descriptors.                                     *)
(***************************************************************************)

\* What load_configured_plugins loads: the system plugin, then the mappings.
ConfigOf(c) == <<[port |-> 0, library |-> c.system_plugin]>> \o c.mappings

LEMMA ConfigOfIs ==
    ASSUME NEW c \in Settings
    PROVE  /\ ConfigOf(c) \in Seq(Mapping)
           /\ Len(c.mappings) \in Nat
           /\ Len(ConfigOf(c)) = Len(c.mappings) + 1
           /\ ConfigOf(c)[1] = [port |-> 0, library |-> c.system_plugin]
           /\ \A k \in 1..Len(c.mappings) : ConfigOf(c)[k + 1] = c.mappings[k]
<1> DEFINE sys == [port |-> 0, library |-> c.system_plugin]
           ms == c.mappings
<1>1. ms \in Seq(Mapping)
  BY DEF Settings
<1>2. sys \in Mapping
  <2>1. c.system_plugin \in Libraries
    BY DEF Settings
  <2>2. MaxPort \in 0..255
    BY ConfigAssumption, Zenon
  <2>3. 0 \in Ports
    BY <2>2 DEF Ports
  <2> QED BY <2>1, <2>3 DEF Mapping
<1> HIDE DEF sys, ms
<1>3. <<sys>> \in Seq(Mapping) /\ Len(<<sys>>) = 1 /\ <<sys>>[1] = sys
  BY <1>2
<1>4. ConfigOf(c) = <<sys>> \o ms
  BY DEF ConfigOf, sys, ms
<1>5. Len(ms) \in Nat
  BY <1>1, SeqFacts
<1>6. /\ ConfigOf(c) \in Seq(Mapping)
      /\ Len(ConfigOf(c)) = 1 + Len(ms)
      /\ ConfigOf(c)[1] = sys
      /\ \A k \in 1..Len(ms) : ConfigOf(c)[k + 1] = ms[k]
  BY <1>1, <1>3, <1>4, <1>5
<1> QED BY <1>5, <1>6 DEF sys, ms

LEMMA ConfigIs ==
    ASSUME settings \in Settings
    PROVE  /\ config \in Seq(Mapping)
           /\ Len(settings.mappings) \in Nat
           /\ Len(config) = Len(settings.mappings) + 1
           /\ config[1] = [port |-> 0, library |-> settings.system_plugin]
           /\ \A k \in 1..Len(settings.mappings) :
                config[k + 1] = settings.mappings[k]
<1>1. config = ConfigOf(settings)
  BY DEF config, ConfigOf
<1> QED BY <1>1, ConfigOfIs

LEMMA SameConfig ==
    settings' = settings => config' = config /\ mode' = mode
  BY DEF config, mode

LEMMA FrontOf ==
    ASSUME NEW S, NEW s \in Seq(S), s # <<>>
    PROVE  /\ Len(s) \in Nat /\ Len(s) > 0
           /\ SubSeq(s, 1, Len(s) - 1) \in Seq(S)
           /\ Len(SubSeq(s, 1, Len(s) - 1)) = Len(s) - 1
           /\ \A i \in 1..(Len(s) - 1) : SubSeq(s, 1, Len(s) - 1)[i] = s[i]
<1>1. Len(s) \in Nat /\ Len(s) > 0
  OBVIOUS
<1> DEFINE n == Len(s) - 1
<1>2. n \in Nat /\ n =< Len(s)
  BY <1>1
<1> HIDE DEF n
<1>3. Len(SubSeq(s, 1, n)) = n
  BY <1>2
<1>4. SubSeq(s, 1, n) \in Seq(S)
  BY <1>2
<1>5. \A i \in 1..n : SubSeq(s, 1, n)[i] = s[i]
  BY <1>2
<1> QED BY <1>1, <1>3, <1>4, <1>5 DEF n

\* The mapping in hand is one of the configured ones.
LEMMA NowIs ==
    ASSUME LifecycleInv, pc \in Loading, pc # "open"
    PROVE  Now \in Mapping /\ Now.library \in Libraries /\ Now.port \in Ports
<1>1. config \in Seq(Mapping)
  BY ConfigIs DEF LifecycleInv, TypeInv, StageInv
<1>2. index \in 1..Len(config)
  BY <1>1, SeqFacts DEF LifecycleInv, TypeInv, StageInv
<1>3. Now \in Mapping
  BY <1>1, <1>2, SeqFacts DEF Now
<1> QED BY <1>3 DEF Mapping

\* Every step keeps the types, and the stages in their order.
LEMMA TypeStep ==
    ASSUME LifecycleInv, Next
    PROVE  TypeInv'
<1>0. StateOK /\ StageInv /\ OpenInv
  BY DEF LifecycleInv, TypeInv
<1>c. config \in Seq(Mapping) /\ Len(config) \in Nat /\ Len(config) > 0
  BY <1>0, ConfigIs, SeqFacts DEF StageInv
<1>f. file \in Seq(Seq(STRING)) /\ Len(file) \in Nat
  BY <1>0, FilesAssumption, SeqFacts DEF StateOK
<1>m. settings' \in Settings => config' \in Seq(Mapping)
  <2>1. config' = ConfigOf(settings')
    BY DEF config, ConfigOf
  <2> QED BY <2>1, ConfigOfIs
<1>s. settings' = settings => config' = config /\ mode' = mode
  BY SameConfig
<1>l. loaded \in Seq(Mapping) /\ Len(loaded) \in Nat
  BY <1>0, SeqFacts DEF StateOK
<1> HIDE DEF config, mode
<1>1. CASE InstallSignals
  <2>1. disposition' \in [Signals -> {"default", "handler"}]
    BY <1>0, <1>1 DEF InstallSignals, StateOK, Signals
  <2>2. settings.valid
    BY <1>0, <1>1, DefaultsType DEF InstallSignals, StageInv
  <2>3. /\ \/ pc' = "parse" /\ status' = status
           \/ pc' = "done" /\ status' = 1
        /\ pc = "signals"
        /\ UNCHANGED <<keep_running, file, settings, index, slots, loaded,
                       handles, fds, sockets, calls>>
    BY <1>1 DEF InstallSignals
  <2> QED
    BY <1>0, <1>c, <1>f, <1>l, <1>m, <1>s, <2>1, <2>2, <2>3
       DEF TypeInv, StateOK, StageInv, OpenInv, Loading, Running, Stages
<1>2. CASE ParseConfig
  <2> DEFINE next == ParseLine(settings, file[index])
  <2>1. index \in 1..Len(file) => next \in Settings
    <3>1. SUFFICES ASSUME index \in 1..Len(file) PROVE next \in Settings
      OBVIOUS
    <3>2. file[index] \in Seq(STRING)
      BY <1>f, <3>1, SeqFacts
    <3>3. TakenPath(file[index])
      BY <1>0, <1>f, <3>1, FilesAssumption, SeqFacts
         DEF StateOK, TakenPath
    <3>4. settings \in Settings /\ settings.valid
      BY <1>0, <1>2 DEF StageInv, ParseConfig
    <3> QED BY <3>2, <3>3, <3>4, ParseLineEffect
  <2> HIDE DEF next
  <2>2. /\ pc = "parse" /\ index \in 1..(Len(file) + 1)
        /\ settings \in Settings /\ settings.valid
        /\ loaded = <<>> /\ calls = <<>> /\ fds = {} /\ sockets = {}
        /\ UNCHANGED <<keep_running, disposition, file, slots, loaded, fds,
                       sockets, calls>>
    BY <1>0, <1>2 DEF ParseConfig, StageInv, OpenInv, Running
  <2>3. settings' \in Settings /\ config' \in Seq(Mapping)
        /\ Len(config') \in Nat
    BY <1>2, <1>f, <1>m, <2>1, <2>2, SeqFacts DEF ParseConfig, next
  <2>4. \/ /\ index =< Len(file) /\ settings'.valid
           /\ index' = index + 1 /\ pc' = pc /\ status' = status
        \/ index' = 1 /\ pc' = "unload" /\ status' = 1
        \/ /\ index > Len(file) /\ pc' = "open" /\ index' = 1
           /\ settings' = settings /\ status' = status
    BY <1>2 DEF ParseConfig, Fail
  <2>5. StateOK'
    BY <1>0, <1>f, <1>m, <2>2, <2>3, <2>4 DEF StateOK, Stages
  <2>6. StageInv'
    BY <1>f, <2>2, <2>3, <2>4 DEF StageInv, Loading, Running
  <2>7. OpenInv'
    BY <2>2, <2>4 DEF OpenInv, Running
  <2> QED BY <2>5, <2>6, <2>7 DEF TypeInv
<1>3. CASE AllLoaded
  <2>1. loaded = config
    BY <1>0, <1>c, <1>l, <1>3, SameElements DEF AllLoaded, StageInv, Loading
  <2> QED
    BY <1>0, <1>c, <1>f, <1>l, <1>m, <1>s, <1>3, <2>1 DEF AllLoaded, TypeInv, StateOK,
     StageInv, OpenInv, Loading, Running, Stages
<1>4. CASE OpenLibrary
  BY <1>0, <1>c, <1>f, <1>l, <1>m, <1>s, <1>4 DEF OpenLibrary, Fail, TypeInv, StateOK,
     StageInv, OpenInv, Loading, Running, Stages
<1>5. CASE CallFactory
  BY <1>0, <1>c, <1>f, <1>l, <1>m, <1>s, <1>5 DEF CallFactory, Fail, TypeInv, StateOK,
     StageInv, OpenInv, Loading, Running, Stages
<1>6. CASE Register
  <2>1. Now.port \in Ports /\ Now.library \in Libraries
    BY <1>6, NowIs DEF Register, Loading
  <2> HIDE DEF Now
  <2> QED
    BY <1>0, <1>c, <1>f, <1>l, <1>m, <1>s, <1>6, <2>1 DEF Register, Fail, TypeInv, StateOK,
     StageInv, OpenInv, Loading, Running, Stages
<1>7. CASE StartPlugin
  <2>1. Now.port \in Ports /\ Now.library \in Libraries
    BY <1>7, NowIs DEF StartPlugin, Loading
  <2>2. Called("start", Now) \in Seq(Call)
    BY <1>0, <2>1, AppendFacts DEF Called, Call, StateOK
  <2> HIDE DEF Now
  <2> QED
    BY <1>0, <1>c, <1>f, <1>l, <1>m, <1>s, <1>7, <2>1, <2>2 DEF StartPlugin, Fail,
       TypeInv, StateOK,
     StageInv, OpenInv, Loading, Running, Stages
<1>8. CASE RecordPlugin
  <2>1. Now \in Mapping
    BY <1>8, NowIs DEF RecordPlugin, Loading
  <2>2. /\ Append(loaded, Now) \in Seq(Mapping)
        /\ Len(Append(loaded, Now)) = Len(loaded) + 1
        /\ \A i \in 1..Len(loaded) : Append(loaded, Now)[i] = loaded[i]
        /\ Append(loaded, Now)[Len(loaded) + 1] = Now
    BY <1>l, <2>1, AppendFacts
  <2>3. Now = config[index]
    BY DEF Now
  <2> HIDE DEF Now
  <2> QED
    BY <1>0, <1>c, <1>f, <1>l, <1>m, <1>s, <1>8, <2>2, <2>3 DEF RecordPlugin, TypeInv, StateOK,
     StageInv, OpenInv, Loading, Running, Stages
<1>9. CASE OpenTransport
  BY <1>0, <1>c, <1>f, <1>l, <1>m, <1>s, <1>9 DEF OpenTransport, Fail, TypeInv, StateOK,
     StageInv, OpenInv, Loading, Running, Stages
<1>10. CASE OpenSockets
  BY <1>0, <1>c, <1>f, <1>l, <1>m, <1>s, <1>10 DEF OpenSockets, TypeInv, StateOK,
     StageInv, OpenInv, Loading, Running, Stages
<1>11. CASE LoopEnds
  BY <1>0, <1>c, <1>f, <1>l, <1>m, <1>s, <1>11 DEF LoopEnds, TypeInv, StateOK,
     StageInv, OpenInv, Loading, Running, Stages
<1>12. CASE CloseSockets
  BY <1>0, <1>c, <1>f, <1>l, <1>m, <1>s, <1>12 DEF CloseSockets, TypeInv, StateOK,
     StageInv, OpenInv, Loading, Running, Stages
<1>13. CASE CloseTransport
  BY <1>0, <1>c, <1>f, <1>l, <1>m, <1>s, <1>13 DEF CloseTransport, TypeInv, StateOK,
     StageInv, OpenInv, Loading, Running, Stages
<1>14. CASE UnloadLast
  <2> DEFINE last == loaded[Len(loaded)]
             front == SubSeq(loaded, 1, Len(loaded) - 1)
  <2>1. front \in Seq(Mapping)
    BY <1>l, <1>14, FrontOf DEF UnloadLast
  <2>2. last \in Mapping
    <3>1. Len(loaded) \in 1..Len(loaded)
      BY <1>l, <1>14, FrontOf DEF UnloadLast
    <3> QED BY <1>l, <3>1, SeqFacts
  <2>3. last.port \in Ports /\ last.library \in Libraries
    BY <2>2 DEF Mapping
  <2>4. Called("stop", last) \in Seq(Call)
    BY <1>0, <2>3, AppendFacts DEF Called, Call, StateOK
  <2>5. /\ calls' \in Seq(Call) /\ loaded' = front
        /\ slots' = [slots EXCEPT ![last.port] = NULL]
        /\ pc = "unload"
        /\ UNCHANGED <<keep_running, disposition, file, settings, pc, index, fds,
                       sockets, status>>
    BY <1>0, <1>14, <2>4 DEF UnloadLast, StateOK
  <2> HIDE DEF last, front
  <2> QED
    BY <1>0, <1>c, <1>f, <1>l, <1>m, <1>s, <2>1, <2>3, <2>5 DEF TypeInv, StateOK,
     StageInv, OpenInv, Loading, Running, Stages
<1>15. CASE Unloaded
  BY <1>0, <1>c, <1>f, <1>l, <1>m, <1>s, <1>15 DEF Unloaded, TypeInv, StateOK,
     StageInv, OpenInv, Loading, Running, Stages
<1>16. CASE Accept
  BY <1>0, <1>c, <1>f, <1>l, <1>m, <1>s, <1>16 DEF Accept, TypeInv, StateOK,
     StageInv, OpenInv, Loading, Running, Stages
<1>17. CASE AcceptFails
  BY <1>0, <1>c, <1>f, <1>l, <1>m, <1>s, <1>17 DEF AcceptFails, GiveUpAccept, Fail, TypeInv, StateOK,
     StageInv, OpenInv, Loading, Running, Stages
<1>18. CASE TransportFails
  BY <1>0, <1>c, <1>f, <1>l, <1>m, <1>s, <1>18 DEF TransportFails, TypeInv, StateOK,
     StageInv, OpenInv, Loading, Running, Stages
<1>19. ASSUME NEW s \in Signals, HandleSignal(s) \/ Kill(s)
       PROVE  TypeInv'
  <2>1. /\ keep_running' \in BOOLEAN
        /\ disposition' \in [Signals -> {"default", "handler"}]
    BY <1>0, <1>19 DEF HandleSignal, Kill, StateOK
  <2>2. /\ \/ pc' = pc /\ fds' = fds /\ status' = status
           \/ pc' = "killed" /\ fds' = fds /\ status' = status
           \/ pc = "accept" /\ pc' = "unload" /\ fds' = {} /\ status' = 1
        /\ UNCHANGED <<file, settings, index, slots, loaded, handles, sockets,
                       calls>>
    BY <1>19 DEF HandleSignal, Kill, GiveUpAccept, Fail
  <2> QED
    BY <1>0, <1>c, <1>f, <1>l, <1>m, <1>s, <2>1, <2>2
       DEF TypeInv, StateOK, StageInv, OpenInv, Loading, Running, Stages
<1>20. CASE Exited
  BY <1>0, <1>20, <1>s DEF Exited, vars, TypeInv, StateOK,
     StageInv, OpenInv, Loading, Running, Stages
<1> QED BY <1>1, <1>2, <1>3, <1>4, <1>5, <1>6, <1>7, <1>8, <1>9, <1>10, <1>11,
           <1>12, <1>13, <1>14, <1>15, <1>16, <1>17, <1>18, <1>19, <1>20
        DEF Next, Server
-----------------------------------------------------------------------------
(***************************************************************************)
(* The registry and the loader.                                            *)
(***************************************************************************)

At(s, p, l) == \E i \in 1..Len(s) : s[i] = [port |-> p, library |-> l]
Distinct(s) == \A j, k \in 1..Len(s) : s[j].port = s[k].port => j = k

LEMMA MappingIs ==
    ASSUME NEW m \in Mapping
    PROVE  /\ m = [port |-> m.port, library |-> m.library]
           /\ m.port \in Ports /\ m.library \in Libraries
  BY DEF Mapping

LEMMA AtAppend ==
    ASSUME NEW s \in Seq(Mapping), NEW m \in Mapping, NEW p, NEW l
    PROVE  At(Append(s, m), p, l) <=>
             At(s, p, l) \/ m = [port |-> p, library |-> l]
<1> DEFINE t == Append(s, m)
<1>1. /\ Len(s) \in Nat /\ Len(t) = Len(s) + 1 /\ t[Len(s) + 1] = m
      /\ \A i \in 1..Len(s) : t[i] = s[i]
  BY AppendFacts, SeqFacts
<1> HIDE DEF t
<1>2. At(t, p, l) => At(s, p, l) \/ m = [port |-> p, library |-> l]
  BY <1>1 DEF At
<1>3. At(s, p, l) => At(t, p, l)
  BY <1>1 DEF At
<1>4. m = [port |-> p, library |-> l] => At(t, p, l)
  <2>1. Len(s) + 1 \in 1..Len(t)
    BY <1>1
  <2> QED BY <1>1, <2>1 DEF At
<1> QED BY <1>2, <1>3, <1>4 DEF t

\* Taking the last of a sequence with one mapping per port takes its port.
LEMMA AtFront ==
    ASSUME NEW s \in Seq(Mapping), s # <<>>, Distinct(s), NEW p, NEW l
    PROVE  At(SubSeq(s, 1, Len(s) - 1), p, l) <=>
             At(s, p, l) /\ p # s[Len(s)].port
<1> DEFINE t == SubSeq(s, 1, Len(s) - 1)
<1>1. /\ Len(s) \in Nat /\ Len(s) > 0 /\ Len(t) = Len(s) - 1
      /\ \A i \in 1..(Len(s) - 1) : t[i] = s[i]
  BY FrontOf
<1> HIDE DEF t
<1>2. ASSUME At(t, p, l) PROVE At(s, p, l) /\ p # s[Len(s)].port
  <2>1. PICK i \in 1..Len(t) : t[i] = [port |-> p, library |-> l]
    BY <1>2 DEF At
  <2>2. i \in 1..Len(s) /\ Len(s) \in 1..Len(s) /\ i # Len(s)
    BY <1>1
  <2>3. s[i] = [port |-> p, library |-> l] /\ s[i].port = p
    BY <1>1, <2>1
  <2> QED BY <2>2, <2>3 DEF At, Distinct
<1>3. ASSUME At(s, p, l), p # s[Len(s)].port PROVE At(t, p, l)
  <2>1. PICK i \in 1..Len(s) : s[i] = [port |-> p, library |-> l]
    BY <1>3 DEF At
  <2>2. i # Len(s)
    BY <1>3, <2>1
  <2>3. i \in 1..Len(t)
    BY <1>1, <2>2
  <2> QED BY <1>1, <2>1, <2>3 DEF At
<1> QED BY <1>2, <1>3 DEF t

LEMMA RegistryStep ==
    ASSUME LifecycleInv, Next
    PROVE  RegistryMatchesLoader' /\ PortsInv'
<1> DEFINE InStart == pc \in {"start", "record"}
           Is(p, l) == Now = [port |-> p, library |-> l]
<1>0. /\ slots \in [Ports -> Libraries \cup {NULL}] /\ loaded \in Seq(Mapping)
      /\ Len(loaded) \in Nat
      /\ NULL \notin Libraries
  BY LifecycleAssumption, SeqFacts DEF LifecycleInv, TypeInv, StateOK
<1>r. pc # "killed" =>
        \A p \in Ports : \A l \in Libraries :
          slots[p] = l <=> At(loaded, p, l) \/ (InStart /\ Is(p, l))
  <2>1. RegistryMatchesLoader
    BY DEF LifecycleInv
  <2> QED BY <2>1, Zenon DEF RegistryMatchesLoader, At
<1>d. /\ Distinct(loaded)
      /\ InStart => \A k \in 1..Len(loaded) : loaded[k].port # Now.port
  BY DEF LifecycleInv, PortsInv, Distinct
<1>g. ASSUME pc' # "killed" =>
               \A p \in Ports : \A l \in Libraries :
                 slots'[p] = l <=> At(loaded', p, l) \/ (InStart' /\ Is(p, l)'),
             Distinct(loaded'),
             InStart' => \A k \in 1..Len(loaded') : loaded'[k].port # Now'.port
      PROVE  RegistryMatchesLoader' /\ PortsInv'
  <2>1. RegistryMatchesLoader'
    BY <1>g, Zenon DEF RegistryMatchesLoader, At
  <2>2. PortsInv'
    BY <1>g, Zenon DEF PortsInv, Distinct
  <2> QED BY <2>1, <2>2
<1>n. /\ pc \in Loading /\ pc # "open" => Now \in Mapping
      /\ settings' = settings /\ index' = index => Now' = Now
  BY NowIs, SameConfig DEF Now
<1>p. \A k \in 1..Len(loaded) :
        /\ loaded[k].port \in Ports /\ loaded[k].library \in Libraries
        /\ At(loaded, loaded[k].port, loaded[k].library)
  BY <1>0, SeqFacts, MappingIs DEF At
\* Neither side changes.
<1>1. CASE /\ UNCHANGED <<slots, loaded>>
           /\ pc # "killed"
           /\ \/ ~InStart /\ ~InStart'
              \/ UNCHANGED <<settings, index>> /\ InStart /\ InStart'
              \/ pc' = "killed"
  <2>1. pc' # "killed" => (InStart' <=> InStart) /\ (InStart => Now' = Now)
    BY <1>1, <1>n
  <2> HIDE DEF InStart
  <2>2. pc' # "killed" =>
          \A p \in Ports : \A l \in Libraries :
            slots'[p] = l <=> At(loaded', p, l) \/ (InStart' /\ Is(p, l)')
    BY <1>1, <1>r, <2>1, Zenon
  <2>3. InStart' => InStart /\ Now' = Now
    BY <1>1, <1>n DEF InStart
  <2> QED BY <1>1, <1>d, <1>g, <2>2, <2>3
<1>2. CASE Register
  <2>1. Now \in Mapping /\ Now.port \in Ports /\ Now.library \in Libraries
    BY <1>2, <1>n, MappingIs DEF Register, Loading
  <2>2. /\ ~InStart /\ pc # "killed" /\ pc' # "killed"
        /\ UNCHANGED <<settings, index, loaded>> /\ Now' = Now
    BY <1>2, <1>n DEF Register, Fail
  <2>3. CASE slots[Now.port] # NULL
    BY <1>1, <1>2, <2>2, <2>3 DEF Register, Fail
  <2>4. CASE slots[Now.port] = NULL
    <3>1. InStart' /\ slots' = [slots EXCEPT ![Now.port] = Now.library]
      BY <1>2, <2>4 DEF Register
    <3>2. \A l \in Libraries : ~At(loaded, Now.port, l)
      BY <1>0, <1>r, <2>1, <2>2, <2>4
    <3>3. \A k \in 1..Len(loaded) : loaded[k].port # Now.port
      BY <1>p, <3>2
    <3>4. ASSUME NEW p \in Ports, NEW l \in Libraries
          PROVE  slots'[p] = l <=> At(loaded, p, l) \/ Is(p, l)
      <4>1. CASE p = Now.port
        BY <1>0, <2>1, <3>1, <3>2, <4>1, MappingIs
      <4>2. CASE p # Now.port
        BY <1>0, <1>r, <2>2, <3>1, <4>2
      <4> QED BY <4>1, <4>2
    <3> QED BY <1>d, <1>g, <2>2, <3>1, <3>3, <3>4
  <2> QED BY <2>3, <2>4
<1>3. CASE StartPlugin
  <2>1. Now \in Mapping /\ Now.port \in Ports /\ Now.library \in Libraries
    BY <1>3, <1>n, MappingIs DEF StartPlugin, Loading
  <2>2. /\ InStart /\ pc # "killed" /\ pc' # "killed"
        /\ UNCHANGED <<settings, index, loaded>>
    BY <1>3 DEF StartPlugin, Fail
  <2>3. CASE pc' = "record"
    BY <1>1, <1>3, <2>2, <2>3 DEF StartPlugin, Fail
  <2>4. CASE pc' # "record"
    <3>1. ~InStart' /\ slots' = [slots EXCEPT ![Now.port] = NULL]
      BY <1>3, <2>4 DEF StartPlugin, Fail
    <3>2. ASSUME NEW p \in Ports, NEW l \in Libraries
          PROVE  slots'[p] = l <=> At(loaded, p, l)
      <4>1. CASE p = Now.port
        <5>1. ~At(loaded, p, l)
          BY <1>d, <2>2, <4>1 DEF At
        <5> QED BY <1>0, <3>1, <4>1, <5>1
      <4>2. CASE p # Now.port
        BY <1>0, <1>r, <2>2, <3>1, <4>2
      <4> QED BY <4>1, <4>2
    <3> QED BY <1>d, <1>g, <2>2, <3>1, <3>2
  <2> QED BY <2>3, <2>4
<1>4. CASE RecordPlugin
  <2>1. Now \in Mapping
    BY <1>4, <1>n DEF RecordPlugin, Loading
  <2>2. /\ InStart /\ ~InStart' /\ pc # "killed" /\ slots' = slots
        /\ loaded' = Append(loaded, Now)
    BY <1>4 DEF RecordPlugin
  <2>3. /\ Len(loaded') = Len(loaded) + 1 /\ loaded'[Len(loaded) + 1] = Now
        /\ \A i \in 1..Len(loaded) : loaded'[i] = loaded[i]
    BY <1>0, <2>1, <2>2, AppendFacts
  <2>4. Distinct(loaded')
    BY <1>0, <1>d, <2>2, <2>3 DEF Distinct
  <2>5. \A p, l : At(loaded', p, l) <=> At(loaded, p, l) \/ Is(p, l)
    BY <1>0, <2>1, <2>2, AtAppend
  <2> QED BY <1>g, <1>r, <2>2, <2>4, <2>5
<1>5. CASE UnloadLast
  <2> DEFINE last == loaded[Len(loaded)]
  <2>1. /\ ~InStart /\ ~InStart' /\ pc # "killed" /\ loaded # <<>>
        /\ slots' = [slots EXCEPT ![last.port] = NULL]
        /\ loaded' = SubSeq(loaded, 1, Len(loaded) - 1)
    BY <1>5 DEF UnloadLast
  <2>2. /\ Len(loaded) > 0 /\ Len(loaded') = Len(loaded) - 1
        /\ \A i \in 1..(Len(loaded) - 1) : loaded'[i] = loaded[i]
    BY <1>0, <2>1, FrontOf
  <2>3. Distinct(loaded')
    BY <1>0, <1>d, <2>2 DEF Distinct
  <2>4. \A p, l : At(loaded', p, l) <=> At(loaded, p, l) /\ p # last.port
    BY <1>0, <1>d, <2>1, AtFront
  <2>5. last.port \in Ports
    BY <1>0, <1>p, <2>2
  <2> HIDE DEF last
  <2>6. ASSUME NEW p \in Ports, NEW l \in Libraries
        PROVE  slots'[p] = l <=> At(loaded', p, l)
    BY <1>0, <1>r, <2>1, <2>4, <2>5
  <2> QED BY <1>g, <2>1, <2>3, <2>6
<1>6. CASE Exited
  BY <1>6, <1>d, <1>g, <1>n, <1>r DEF Exited, vars
<1>7. CASE InstallSignals \/ ParseConfig \/ AllLoaded \/ OpenLibrary
             \/ CallFactory \/ OpenTransport \/ OpenSockets \/ LoopEnds
             \/ CloseSockets \/ CloseTransport \/ Unloaded \/ Accept
             \/ AcceptFails \/ TransportFails
  BY <1>1, <1>7 DEF InstallSignals, ParseConfig, AllLoaded, OpenLibrary,
       CallFactory, OpenTransport, OpenSockets, LoopEnds, CloseSockets,
       CloseTransport, Unloaded, Accept, AcceptFails, GiveUpAccept,
       TransportFails, Fail
<1>8. ASSUME NEW s \in Signals, HandleSignal(s) \/ Kill(s)
      PROVE  RegistryMatchesLoader' /\ PortsInv'
  BY <1>1, <1>8 DEF HandleSignal, Kill, GiveUpAccept, Fail
<1> QED BY <1>2, <1>3, <1>4, <1>5, <1>6, <1>7, <1>8 DEF Next, Server
-----------------------------------------------------------------------------
(***************************************************************************)
(* The results.                                                            *)
(***************************************************************************)

LEMMA LifecycleInit ==
    Init => LifecycleInv
<1> SUFFICES ASSUME Init PROVE LifecycleInv
  OBVIOUS
<1>0. /\ loaded = <<>> /\ calls = <<>> /\ pc = "signals" /\ index = 1
      /\ settings = Defaults /\ settings \in Settings /\ file \in Files
      /\ slots = [p \in Ports |-> NULL] /\ handles = [l \in Libraries |-> 0]
      /\ fds = {} /\ sockets = {}
  BY DefaultsType DEF Init
<1>1. TypeInv
  <2>1. StateOK
    <3>1. config \in Seq(Mapping) /\ Len(config) \in Nat /\ Len(file) \in Nat
      BY <1>0, ConfigIs, FilesAssumption, SeqFacts
    <3>2. loaded \in Seq(Mapping) /\ calls \in Seq(Call)
      BY <1>0, SeqFacts
    <3> HIDE DEF config
    <3> QED BY <1>0, <3>1, <3>2 DEF Init, StateOK, Stages
  <2>2. StageInv
    BY <1>0 DEF StageInv, Loading, Running
  <2>3. OpenInv
    BY <1>0 DEF OpenInv, Running
  <2> QED BY <2>1, <2>2, <2>3 DEF TypeInv
<1>2. RegistryMatchesLoader
  BY <1>0, LifecycleAssumption DEF RegistryMatchesLoader
<1>3. PortsInv
  BY <1>0 DEF PortsInv
<1> QED BY <1>1, <1>2, <1>3 DEF LifecycleInv

LEMMA LifecycleNext ==
    LifecycleInv /\ [Next]_vars => LifecycleInv'
<1>1. ASSUME LifecycleInv, Next PROVE LifecycleInv'
  BY <1>1, TypeStep, RegistryStep DEF LifecycleInv
<1>2. ASSUME LifecycleInv, UNCHANGED vars PROVE LifecycleInv'
  <2>0. config' = config /\ mode' = mode /\ Now' = Now
    BY <1>2, SameConfig DEF vars, Now
  <2>1. TypeInv'
    BY <1>2, <2>0 DEF LifecycleInv, vars, TypeInv, StateOK, StageInv, OpenInv
  <2>2. RegistryMatchesLoader' /\ PortsInv'
    <3>1. pc' = pc /\ loaded' = loaded /\ slots' = slots
      BY <1>2 DEF vars
    <3> HIDE DEF Now
    <3> QED BY <1>2, <2>0, <3>1 DEF LifecycleInv, RegistryMatchesLoader, PortsInv
  <2> QED BY <2>1, <2>2 DEF LifecycleInv
<1> QED BY <1>1, <1>2

\* The inductive invariant: types, stages, what is open, registry and ports, at
\* every point of start-up and of the way down.
THEOREM LifecycleInvariant == Spec => []LifecycleInv
  BY LifecycleInit, LifecycleNext, PTL DEF Spec

\* The registry has on each port the plugin that the loader will unload.
THEOREM RegistryAgrees == Spec => []RegistryMatchesLoader
<1>1. LifecycleInv => RegistryMatchesLoader
  BY DEF LifecycleInv
<1> QED BY <1>1, LifecycleInvariant, PTL
-----------------------------------------------------------------------------
(***************************************************************************)
(* What the configuration file comes to: the plugins of the running server *)
(* are the ones its lines name.                                            *)
(***************************************************************************)
Good(i) == file[i] = <<>> \/ ParseLine(Defaults, file[i]).valid

\* The one line of the first n that names port p gives it this library.
OnlyLine(n, p, library) ==
    \E i \in 1..n : /\ NamesPlugin(file[i], p)
                    /\ library = PathOf(file[i])
                    /\ \A j \in 1..n : NamesPlugin(file[j], p) => j = i

\* Settings c are what the first n lines of the file come to.
Parsed(c, n) ==
    /\ \A i \in 1..n : Good(i)
    /\ Gives(n, 0, c.system_plugin)
    /\ \A k \in 1..Len(c.mappings) :
         /\ c.mappings[k].port # 0
         /\ OnlyLine(n, c.mappings[k].port, c.mappings[k].library)
    /\ \A i \in 1..n : \A p \in Ports \ {0} :
         NamesPlugin(file[i], p) =>
           \E k \in 1..Len(c.mappings) : c.mappings[k].port = p

\* Is a library open?
Opened == \E l \in Libraries : handles[l] # 0

\* Acceptable, by line number.
AllTaken ==
    /\ \A i \in 1..Len(file) : Good(i)
    /\ \A p \in Ports \ {0} : \A i, j \in 1..Len(file) :
         NamesPlugin(file[i], p) /\ NamesPlugin(file[j], p) => i = j

FileInv ==
    /\ pc = "parse" => Parsed(settings, index - 1)
    /\ pc \in Loading \cup Running => Parsed(settings, Len(file))
    /\ loaded # <<>> \/ Opened => AllTaken
-----------------------------------------------------------------------------
(***************************************************************************)
(* The file and the settings it comes to.                                  *)
(***************************************************************************)

\* A line that names no plugin of p leaves what the file says of p.
LEMMA GivesMore ==
    ASSUME NEW n \in Nat, NEW p, NEW path, Gives(n, p, path),
           ~NamesPlugin(file[n + 1], p)
    PROVE  Gives(n + 1, p, path)
<1> DEFINE LastLine(i, m) ==
      /\ i \in 1..m /\ NamesPlugin(file[i], p)
      /\ \A j \in (i + 1)..m : ~NamesPlugin(file[j], p)
      /\ path = PathOf(file[i])
<1>1. ASSUME NEW i, LastLine(i, n) PROVE LastLine(i, n + 1)
  BY <1>1
<1>2. CASE \E i : LastLine(i, n)
  BY <1>1, <1>2 DEF Gives
<1>3. CASE (\A i \in 1..n : ~NamesPlugin(file[i], p))
             /\ path = IF p = 0 THEN DefaultSystem ELSE NULL
  BY <1>3 DEF Gives
<1>4. (\E i : LastLine(i, n))
        \/ ((\A i \in 1..n : ~NamesPlugin(file[i], p))
             /\ path = IF p = 0 THEN DefaultSystem ELSE NULL)
  BY DEF Gives
<1> QED BY <1>2, <1>3, <1>4

LEMMA OnlyLineMore ==
    ASSUME NEW n \in Nat, NEW p, NEW library, OnlyLine(n, p, library),
           ~NamesPlugin(file[n + 1], p)
    PROVE  OnlyLine(n + 1, p, library)
<1>1. PICK i \in 1..n : /\ NamesPlugin(file[i], p)
                        /\ library = PathOf(file[i])
                        /\ \A j \in 1..n : NamesPlugin(file[j], p) => j = i
  BY DEF OnlyLine
<1>2. i \in 1..(n + 1) /\ \A j \in 1..(n + 1) : NamesPlugin(file[j], p) => j = i
  BY <1>1
<1> QED BY <1>1, <1>2 DEF OnlyLine

\* The parts of Parsed: lines name plugins, and plugins come from lines.
FromLines(c, n) ==
    \A k \in 1..Len(c.mappings) :
      /\ c.mappings[k].port # 0
      /\ OnlyLine(n, c.mappings[k].port, c.mappings[k].library)
LinesKept(c, n) ==
    \A i \in 1..n : \A p \in Ports \ {0} :
      NamesPlugin(file[i], p) =>
        \E k \in 1..Len(c.mappings) : c.mappings[k].port = p

LEMMA ParsedParts ==
    ASSUME NEW c, NEW n
    PROVE  Parsed(c, n) <=> /\ \A i \in 1..n : Good(i)
                            /\ Gives(n, 0, c.system_plugin)
                            /\ FromLines(c, n) /\ LinesKept(c, n)
  BY Zenon DEF Parsed, FromLines, LinesKept

\* A line that names no plugin of a port above 0 leaves the mappings.
LEMMA SameMappings ==
    ASSUME NEW c, NEW d, NEW n \in Nat, d.mappings = c.mappings,
           \A p : p # 0 => ~NamesPlugin(file[n + 1], p),
           FromLines(c, n), LinesKept(c, n)
    PROVE  FromLines(d, n + 1) /\ LinesKept(d, n + 1)
<1>1. FromLines(d, n + 1)
  BY OnlyLineMore DEF FromLines
<1>2. ASSUME NEW i \in 1..(n + 1), NEW p \in Ports \ {0},
             NamesPlugin(file[i], p)
      PROVE  \E k \in 1..Len(d.mappings) : d.mappings[k].port = p
  <2>1. i # n + 1
    BY <1>2
  <2>2. i \in 1..n
    BY <2>1
  <2> QED BY <1>2, <2>2, Zenon DEF LinesKept
<1> QED BY <1>1, <1>2, Zenon DEF LinesKept

\* One more line that is taken.
LEMMA ParseMore ==
    ASSUME NEW c \in Settings, NEW n \in Nat, Parsed(c, n), Good(n + 1),
           LineEffect(c, file[n + 1]), ParseLine(c, file[n + 1]) \in Settings
    PROVE  Parsed(ParseLine(c, file[n + 1]), n + 1)
<1> DEFINE line == file[n + 1]
           d == ParseLine(c, file[n + 1])
<1>0. /\ c.mappings \in Seq(Mapping) /\ Len(c.mappings) \in Nat
      /\ d.mappings \in Seq(Mapping)
  BY SeqFacts DEF Settings
<1>1. /\ \A i \in 1..n : Good(i)
      /\ Gives(n, 0, c.system_plugin)
      /\ FromLines(c, n) /\ LinesKept(c, n)
  BY ParsedParts
<1>2. \A i \in 1..(n + 1) : Good(i)
  BY <1>1
<1> HIDE DEF d
<1>3. CASE /\ d.system_plugin = c.system_plugin
           /\ d.mappings = c.mappings
           /\ line # <<>> => line[1] \notin {"system_plugin", "plugin"}
  <2>1. \A p : ~NamesPlugin(line, p)
    BY <1>3 DEF NamesPlugin
  <2>2. Gives(n + 1, 0, d.system_plugin)
    BY <1>1, <1>3, <2>1, GivesMore
  <2>3. FromLines(d, n + 1) /\ LinesKept(d, n + 1)
    BY <1>1, <1>3, <2>1, SameMappings
  <2> QED BY <1>2, <2>2, <2>3, ParsedParts DEF d
<1>4. CASE /\ line # <<>> /\ line[1] = "system_plugin"
           /\ d.system_plugin = PathOf(line)
           /\ d.mappings = c.mappings
  <2>1. NamesPlugin(line, 0) /\ \A p : p # 0 => ~NamesPlugin(line, p)
    BY <1>4 DEF NamesPlugin
  <2>2. Gives(n + 1, 0, d.system_plugin)
    <3>1. n + 1 \in 1..(n + 1) /\ \A j \in ((n + 1) + 1)..(n + 1) : FALSE
      OBVIOUS
    <3> QED BY <1>4, <2>1, <3>1, Zenon DEF Gives
  <2>3. FromLines(d, n + 1) /\ LinesKept(d, n + 1)
    BY <1>1, <1>4, <2>1, SameMappings
  <2> QED BY <1>2, <2>2, <2>3, ParsedParts DEF d
<1>5. CASE /\ line # <<>> /\ line[1] = "plugin"
           /\ d.system_plugin = c.system_plugin
           /\ Numbers[line[2]] \in Ports \ {0}
           /\ \A i \in 1..Len(c.mappings) : c.mappings[i].port # Numbers[line[2]]
           /\ d.mappings = Append(c.mappings, [port |-> Numbers[line[2]],
                                               library |-> PathOf(line)])
  <2> DEFINE port == Numbers[line[2]]
             new == [port |-> port, library |-> PathOf(line)]
             last == Len(c.mappings) + 1
  <2>1. \A p : NamesPlugin(line, p) <=> p # 0 /\ p = port
    BY <1>5 DEF NamesPlugin
  <2>0. port # 0 /\ port \in Ports
    BY <1>5
  <2>2. Gives(n + 1, 0, d.system_plugin)
    BY <1>1, <1>5, <2>1, GivesMore
  <2>3. /\ Len(d.mappings) = last /\ d.mappings[last] = new
        /\ \A k \in 1..Len(c.mappings) : d.mappings[k] = c.mappings[k]
    BY <1>0, <1>5
  <2>4. \A j \in 1..n : ~NamesPlugin(file[j], port)
    BY <1>1, <1>5, Zenon DEF LinesKept
  <2> HIDE DEF port
  <2>5. OnlyLine(n + 1, port, PathOf(line))
    <3>1. \A j \in 1..(n + 1) : NamesPlugin(file[j], port) => j = n + 1
      BY <2>4
    <3>2. n + 1 \in 1..(n + 1)
      OBVIOUS
    <3>3. NamesPlugin(file[n + 1], port)
      BY <2>0, <2>1, Zenon
    <3> QED BY <3>1, <3>2, <3>3, Zenon DEF OnlyLine
  <2>6. new.port = port /\ new.library = PathOf(line)
    OBVIOUS
  <2> HIDE DEF new
  <2>7. ASSUME NEW k \in 1..Len(d.mappings)
        PROVE  /\ d.mappings[k].port # 0
               /\ OnlyLine(n + 1, d.mappings[k].port, d.mappings[k].library)
    <3>1. CASE k = last
      BY <2>0, <2>3, <2>5, <2>6, <3>1, Zenon
    <3>2. CASE k # last
      <4>1. k \in 1..Len(c.mappings)
        BY <1>0, <2>3, <3>2
      <4>2. ~NamesPlugin(file[n + 1], c.mappings[k].port)
        BY <1>5, <2>1, <4>1, Zenon DEF port
      <4>3. /\ c.mappings[k].port # 0
            /\ OnlyLine(n, c.mappings[k].port, c.mappings[k].library)
        BY <1>1, <4>1, Zenon DEF FromLines
      <4>4. OnlyLine(n + 1, c.mappings[k].port, c.mappings[k].library)
        BY <4>2, <4>3, OnlyLineMore, Zenon
      <4> QED BY <2>3, <4>1, <4>3, <4>4, Zenon
    <3> QED BY <3>1, <3>2
  <2>8. ASSUME NEW i \in 1..(n + 1), NEW p \in Ports \ {0},
               NamesPlugin(file[i], p)
        PROVE  \E k \in 1..Len(d.mappings) : d.mappings[k].port = p
    <3>1. CASE i = n + 1
      <4>1. p = port
        BY <2>1, <2>8, <3>1, Zenon
      <4>2. last \in 1..Len(d.mappings)
        BY <1>0, <2>3
      <4> QED BY <2>3, <2>6, <4>1, <4>2, Zenon
    <3>2. CASE i # n + 1
      <4>1. i \in 1..n
        BY <3>2
      <4>2. PICK k \in 1..Len(c.mappings) : c.mappings[k].port = p
        BY <1>1, <2>8, <4>1, Zenon DEF LinesKept
      <4>3. k \in 1..Len(d.mappings)
        BY <1>0, <2>3
      <4> QED BY <2>3, <4>2, <4>3, Zenon
    <3> QED BY <3>1, <3>2
  <2>9. FromLines(d, n + 1) /\ LinesKept(d, n + 1)
    BY <2>7, <2>8, Zenon DEF FromLines, LinesKept
  <2> QED BY <1>2, <2>2, <2>9, ParsedParts DEF d
<1> QED BY <1>3, <1>4, <1>5 DEF LineEffect, d

\* The file is read once: what it says does not change.
LEMMA SameFile ==
    ASSUME file' = file
    PROVE  /\ \A c, n : Parsed(c, n)' = Parsed(c, n)
           /\ AllTaken' = AllTaken
<1>1. \A i : Good(i)' = Good(i)
  BY Zenon DEF Good
<1>2. \A n, p, path : Gives(n, p, path)' = Gives(n, p, path)
  BY Zenon DEF Gives
<1>3. \A n, p, l : OnlyLine(n, p, l)' = OnlyLine(n, p, l)
  BY Zenon DEF OnlyLine
<1>4. \A c, n : Parsed(c, n)' = Parsed(c, n)
  BY <1>1, <1>2, <1>3, Zenon DEF Parsed
<1>5. AllTaken' = AllTaken
  BY <1>1, Zenon DEF AllTaken
<1> QED BY <1>4, <1>5

\* Settings that are what the whole file comes to say that all of it was taken.
LEMMA ParsedTaken ==
    ASSUME NEW c, Parsed(c, Len(file))
    PROVE  AllTaken
<1>1. ASSUME NEW p \in Ports \ {0}, NEW i \in 1..Len(file), NEW j \in 1..Len(file),
             NamesPlugin(file[i], p), NamesPlugin(file[j], p)
      PROVE  i = j
  <2>1. PICK k \in 1..Len(c.mappings) : c.mappings[k].port = p
    BY <1>1, Zenon DEF Parsed
  <2>2. OnlyLine(Len(file), p, c.mappings[k].library)
    BY <2>1, Zenon DEF Parsed
  <2> QED BY <1>1, <2>2, Zenon DEF OnlyLine
<1> QED BY <1>1, Zenon DEF AllTaken, Parsed

LEMMA FileStep ==
    ASSUME LifecycleInv, FileInv, Next
    PROVE  FileInv'
<1>0. /\ FileInv /\ StageInv /\ file' = file
      /\ file \in Seq(Seq(STRING)) /\ Len(file) \in Nat
  <2>1. file' = file
    BY DEF Next, Server, InstallSignals, ParseConfig, AllLoaded, OpenLibrary,
       CallFactory, Register, StartPlugin, RecordPlugin, OpenTransport,
       OpenSockets, LoopEnds, CloseSockets, CloseTransport, UnloadLast,
       Unloaded, Accept, AcceptFails, GiveUpAccept, TransportFails,
       HandleSignal, Kill, Exited, vars
  <2>2. file \in Seq(Seq(STRING))
    BY FilesAssumption DEF LifecycleInv, TypeInv, StateOK
  <2> QED BY <2>1, <2>2, SeqFacts DEF LifecycleInv, TypeInv
<1>s. /\ \A c, n : Parsed(c, n)' = Parsed(c, n)
      /\ AllTaken' = AllTaken
  BY <1>0, SameFile
<1>g. ASSUME UNCHANGED settings, pc' # "parse",
             pc' \in Loading \cup Running => Parsed(settings, Len(file)),
             loaded' # <<>> \/ Opened' => AllTaken
      PROVE  FileInv'
  BY <1>0, <1>g, <1>s, Zenon DEF FileInv
<1>h. handles' = handles => Opened' = Opened
  BY DEF Opened
<1>1. CASE InstallSignals
  <2>1. /\ pc' \in {"parse", "done"} /\ settings' = Defaults /\ index' = 1
        /\ handles' = handles /\ loaded' = <<>>
    BY <1>0, <1>1 DEF InstallSignals, StageInv
  <2>2. Parsed(Defaults, 0)
    BY DefaultsType DEF Parsed, Gives
  <2> QED BY <1>0, <1>h, <1>s, <2>1, <2>2 DEF FileInv, Loading, Running
<1>2. CASE ParseConfig
  <2> DEFINE next == ParseLine(settings, file[index])
  <2>1. /\ pc = "parse" /\ index \in 1..(Len(file) + 1) /\ settings \in Settings
        /\ settings.valid /\ handles' = handles /\ loaded' = <<>>
        /\ Parsed(settings, index - 1) /\ (Opened' => AllTaken)
    BY <1>0, <1>2, <1>h DEF ParseConfig, StageInv, FileInv
  <2>2. CASE pc' = "parse"
    <3>1. /\ index =< Len(file) /\ settings' = next /\ settings'.valid
          /\ index' = index + 1
      <4> HIDE DEF next
      <4> QED BY <1>2, <2>2 DEF ParseConfig, Fail, next
    <3>2. index \in 1..Len(file) /\ index - 1 \in Nat /\ (index - 1) + 1 = index
      BY <1>0, <2>1, <3>1
    <3>3. file[index] \in Seq(STRING) /\ TakenPath(file[index])
      <4>1. file[index] \in Seq(STRING)
        BY <1>0, <3>2, SeqFacts
      <4>2. file \in Files
        BY DEF LifecycleInv, TypeInv, StateOK
      <4> QED BY <1>0, <3>2, <4>1, <4>2, FilesAssumption, SeqFacts
              DEF TakenPath
    <3>4. /\ next \in Settings /\ LineEffect(settings, file[index])
          /\ file[index] = <<>> \/ ParseLine(Defaults, file[index]).valid
      BY <2>1, <3>1, <3>3, ParseLineEffect
    <3>5. Good(index)
      BY <3>4 DEF Good
    <3>6. Parsed(next, index)
      BY <2>1, <3>2, <3>4, <3>5, ParseMore
    <3>7. index' - 1 = index
      BY <3>1, <3>2
    <3> HIDE DEF next
    <3> QED BY <1>s, <2>1, <2>2, <3>1, <3>6, <3>7 DEF FileInv, Loading, Running
  <2>3. CASE index > Len(file) /\ settings' = settings /\ pc' = "open"
    <3>1. index - 1 = Len(file)
      BY <1>0, <2>1, <2>3
    <3> QED BY <1>g, <2>1, <2>3, <3>1
  <2>4. CASE pc' = "unload"
    BY <1>s, <2>1, <2>4 DEF FileInv, Loading, Running
  <2> HIDE DEF next
  <2> QED BY <1>2, <2>2, <2>3, <2>4 DEF ParseConfig, Fail, next
<1>3. CASE OpenLibrary \/ CallFactory \/ Register \/ StartPlugin \/ RecordPlugin
  <2>1. pc \in Loading /\ pc' # "parse" /\ settings' = settings
    BY <1>3 DEF OpenLibrary, CallFactory, Register, StartPlugin, RecordPlugin,
       Fail, Loading
  <2>2. Parsed(settings, Len(file))
    BY <1>0, <2>1 DEF FileInv
  <2> QED BY <1>g, <2>1, <2>2, ParsedTaken
<1>4. CASE UnloadLast
  <2>1. loaded # <<>> /\ pc' = "unload" /\ settings' = settings
    BY <1>4 DEF UnloadLast
  <2> QED BY <1>0, <1>g, <2>1 DEF FileInv, Loading, Running
<1>6. CASE AllLoaded \/ OpenTransport \/ OpenSockets \/ LoopEnds \/ CloseSockets
             \/ CloseTransport \/ Unloaded \/ Accept \/ AcceptFails
  <2>1. /\ UNCHANGED <<settings, handles, loaded>> /\ pc' # "parse"
        /\ pc' \in Loading \cup Running => pc \in Loading \cup Running
    BY <1>6 DEF AllLoaded, OpenTransport,
       OpenSockets, LoopEnds, CloseSockets, CloseTransport,
       Unloaded, Accept, AcceptFails, GiveUpAccept, Fail, Loading, Running
  <2> QED BY <1>0, <1>g, <1>h, <2>1 DEF FileInv
<1>7. CASE TransportFails \/ Exited \/ \E s \in Signals : HandleSignal(s) \/ Kill(s)
  <2>1. /\ UNCHANGED <<settings, handles, loaded, index>>
        /\ pc' = pc \/ pc' \in {"unload", "killed"}
    BY <1>7 DEF TransportFails, Exited, vars, HandleSignal, Kill, GiveUpAccept,
       Fail
  <2> QED BY <1>0, <1>h, <1>s, <2>1 DEF FileInv, Loading, Running
<1> QED BY <1>1, <1>2, <1>3, <1>4, <1>6, <1>7 DEF Next, Server
-----------------------------------------------------------------------------
(***************************************************************************)
(* The results.                                                            *)
(***************************************************************************)

LEMMA FileInit ==
    Init => FileInv
  BY DEF Init, FileInv, Opened, Loading, Running

LEMMA FileNext ==
    LifecycleInv /\ FileInv /\ [Next]_vars => FileInv'
<1>1. ASSUME FileInv, UNCHANGED vars PROVE FileInv'
  <2>1. /\ file' = file /\ settings' = settings /\ pc' = pc /\ index' = index
        /\ loaded' = loaded /\ handles' = handles
    BY <1>1 DEF vars
  <2>2. /\ \A c, n : Parsed(c, n)' = Parsed(c, n)
        /\ AllTaken' = AllTaken /\ Opened' = Opened
    BY <2>1, SameFile DEF Opened
  <2> QED BY <1>1, <2>1, <2>2 DEF FileInv
<1> QED BY <1>1, FileStep

\* From the first line to the last, the settings are what the lines read so
\* far come to, and libraries are opened only for a file that is all right.
THEOREM FileInvariant == Spec => [](LifecycleInv /\ FileInv)
  BY LifecycleInvariant, FileInit, FileNext, PTL DEF Spec

\* The running server has exactly the plugins its configuration file names, and
\* no library is ever open for a file with a malformed line or a port named twice.
THEOREM ServesItsFile == Spec => []RunsTheFile
<1>1. LifecycleInv /\ FileInv => RunsTheFile
  <2> SUFFICES ASSUME LifecycleInv, FileInv PROVE RunsTheFile
    OBVIOUS
  <2>0. /\ FileInv /\ StageInv /\ StateOK /\ RegistryMatchesLoader
        /\ file \in Seq(Seq(STRING))
    BY FilesAssumption DEF LifecycleInv, TypeInv, StateOK
  <2>1. Opened => Acceptable
    <3>1. DOMAIN file = 1..Len(file)
      BY <2>0, SeqFacts
    <3>2. AllTaken => Acceptable
      BY <3>1, Zenon DEF AllTaken, Acceptable, Good
    <3> QED BY <2>0, <3>2 DEF FileInv
  <2>2. ASSUME pc = "loop", NEW p \in Ports PROVE Gives(Len(file), p, slots[p])
    <3>1. /\ Parsed(settings, Len(file)) /\ loaded = config
          /\ settings \in Settings /\ pc # "killed"
          /\ pc \notin {"start", "record"}
      BY <2>0, <2>2 DEF FileInv, StageInv, Running
    <3>2. /\ Len(settings.mappings) \in Nat
          /\ Len(config) = Len(settings.mappings) + 1
          /\ config[1] = [port |-> 0, library |-> settings.system_plugin]
          /\ \A k \in 1..Len(settings.mappings) :
               config[k + 1] = settings.mappings[k]
      BY <3>1, ConfigIs
    <3>3. ASSUME NEW i \in 1..Len(config), config[i].port = p
          PROVE  slots[p] = config[i].library
      <4>1. config[i] \in Mapping
        BY <3>1, <3>3, ConfigIs, SeqFacts
      <4>2. /\ config[i] = [port |-> p, library |-> config[i].library]
            /\ config[i].library \in Libraries
        BY <3>3, <4>1, MappingIs
      <4> QED BY <2>0, <3>1, <3>3, <4>2 DEF RegistryMatchesLoader
    <3>4. CASE p = 0
      <4>1. slots[p] = settings.system_plugin
        BY <3>2, <3>3, <3>4
      <4> QED BY <3>1, <3>4, <4>1 DEF Parsed
    <3>5. CASE p # 0 /\ \E k \in 1..Len(settings.mappings) :
                          settings.mappings[k].port = p
      <4>1. PICK k \in 1..Len(settings.mappings) : settings.mappings[k].port = p
        BY <3>5
      <4>2. slots[p] = settings.mappings[k].library
        <5>1. k + 1 \in 1..Len(config) /\ config[k + 1].port = p
          BY <3>2, <4>1
        <5> QED BY <3>2, <3>3, <5>1
      <4>3. OnlyLine(Len(file), p, slots[p])
        BY <3>1, <4>1, <4>2 DEF Parsed
      <4>4. Len(file) \in Nat
        BY <2>0, SeqFacts
      <4> QED BY <4>3, <4>4 DEF OnlyLine, Gives
    <3>6. CASE p # 0 /\ ~\E k \in 1..Len(settings.mappings) :
                           settings.mappings[k].port = p
      <4>1. \A i \in 1..Len(file) : ~NamesPlugin(file[i], p)
        BY <3>1, <3>6 DEF Parsed
      <4>2. \A i \in 1..Len(loaded) : loaded[i].port # p
        <5>1. SUFFICES ASSUME NEW i \in 1..Len(config) PROVE config[i].port # p
          BY <3>1
        <5>2. CASE i = 1
          BY <3>2, <3>6, <5>2
        <5>3. CASE i # 1
          <6>1. i - 1 \in 1..Len(settings.mappings) /\ (i - 1) + 1 = i
            BY <3>2, <5>3
          <6>2. config[i] = settings.mappings[i - 1]
            BY <3>2, <6>1
          <6> QED BY <3>6, <6>1, <6>2
        <5> QED BY <5>2, <5>3
      <4>3. \A l \in Libraries : slots[p] # l
        <5>1. \A l : \A i \in 1..Len(loaded) :
                loaded[i] # [port |-> p, library |-> l]
          BY <4>2
        <5>2. \A l \in Libraries : slots[p] = l =>
                \E i \in 1..Len(loaded) : loaded[i] = [port |-> p, library |-> l]
          BY <2>0, <3>1 DEF RegistryMatchesLoader
        <5> QED BY <5>1, <5>2, Zenon
      <4>4. slots[p] = NULL
        BY <2>0, <4>3 DEF StateOK
      <4> QED BY <3>6, <4>1, <4>4 DEF Gives
    <3> QED BY <3>4, <3>5, <3>6
  <2> QED BY <2>1, <2>2 DEF RunsTheFile, Opened
<1> QED BY <1>1, FileInvariant, PTL
=============================================================================
