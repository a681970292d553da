------------------------- MODULE MCServerLifecycle -------------------------
(***************************************************************************)
(* Configuration files for TLC.                                            *)
(***************************************************************************)
EXTENDS ServerLifecycle

NumberOf ==
    [w \in {"0", "1", "2", "3", "7", "8", "300"} |->
       CASE w = "0" -> 0 [] w = "1" -> 1 [] w = "2" -> 2 [] w = "3" -> 3
         [] w = "7" -> 7 [] w = "8" -> 8 [] w = "300" -> 300]

Some == {"both", "nostart", "nostop"}
PluginLines == {<<"plugin", p, l>> : p \in {"1", "2"}, l \in Some}

\* What a file can start with: nothing, comments and the other directives.
Openings ==
    {<<>>,
     <<<<"system_plugin", "both">>, <<>>, <<"system_plugin", "sys">>,
       <<"serial_device", "tty">>, <<"serial_baud", "300">>,
       <<"serial_databits", "7">>, <<"serial_parity", "odd">>,
       <<"serial_stopbits", "2">>, <<"serial_flow", "none">>,
       <<"squid_payload", "7">>>>,
     <<<<"system_plugin", "both">>>>}

BadLines ==
    {<<"system_plugin">>, <<"system_plugin", "long">>, <<"plugin", "1">>,
     <<"plugin", "tty", "both">>, <<"plugin", "0", "both">>,
     <<"plugin", "300", "both">>, <<"plugin", "7", "both">>,
     <<"plugin", "1", "long">>, <<"serial_device", "long">>,
     <<"serial_baud", "0">>, <<"serial_baud", "tty">>,
     <<"serial_databits", "1">>, <<"serial_parity", "7">>,
     <<"serial_stopbits", "3">>, <<"serial_flow", "odd">>,
     <<"squid_payload", "300">>, <<"squid_payload", "8", "8">>, <<"tty">>}

\* Up to three mappings: libraries shared by ports, ports named twice,
\* callbacks left out; or a mapping and a line that is no good.
SmallFiles ==
    {opening \o rest : opening \in Openings,
                       rest \in UNION {[1..n -> PluginLines] : n \in 0..2}}
      \cup {<<<<"plugin", "3", a>>, <<"plugin", "1", b>>, <<"plugin", "2", c>>>> :
              a, b, c \in Some}
      \cup {<<<<"plugin", "2", "both">>, line>> : line \in BadLines}

\* Files for the liveness runs.
LocalFile == {<<<<"plugin", "1", "both">>, <<"plugin", "2", "both">>>>}
SerialFile == {<<<<"serial_device", "tty">>, <<"plugin", "1", "both">>,
                 <<"plugin", "2", "both">>>>}
=============================================================================
