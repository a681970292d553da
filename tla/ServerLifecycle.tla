-------------------------- MODULE ServerLifecycle ---------------------------
(***************************************************************************)
(* From start-up to exit: run_server_runtime (src/runtime), the plugin     *)
(* loader and registry (src/plugin) and the opening and closing of the     *)
(* transport (src/transport).  The dispatch loop between them is the       *)
(* subject of ServerDispatch; here it only runs until keep_running is      *)
(* cleared.                                                                *)
(***************************************************************************)
EXTENDS PluginConfig, FiniteSets

CONSTANTS
    Libraries,      \* shared objects a configuration can name
    WithStart,      \* those whose plugin has a start callback
    WithStop,       \* those whose plugin has a stop callback
    Files,          \* configuration files
    NULL

Mapping == [port : Ports, library : Libraries]

ASSUME LifecycleAssumption ==
    /\ WithStart \subseteq Libraries
    /\ WithStop \subseteq Libraries
    /\ DefaultSystem \in Libraries
    /\ NULL \notin Libraries

\* Directives that end in a path, and how many words they are.
PathLines == {<<"system_plugin", 2>>, <<"plugin", 3>>}
PathOf(line) == line[Len(line)]

\* A file is lines of words, and the paths in it are among the libraries.
ASSUME FilesAssumption ==
    \A f \in Files :
      /\ f \in Seq(Seq(STRING))
      /\ \A i \in DOMAIN f :
           f[i] # <<>> /\ <<f[i][1], Len(f[i])>> \in PathLines =>
             PathOf(f[i]) \in Libraries \cup LongWords

VARIABLES
    keep_running,   \* cleared by a signal or a failed transport
    disposition,    \* of each termination signal: its handler or the default
    file,           \* the configuration file
    settings,       \* plugin_config, what was parsed of it
    pc,             \* where run_server_runtime is
    index,          \* the line being parsed, then the mapping being loaded
    slots,          \* plugin_registry.slots
    loaded,         \* plugin_loader.loaded_plugins[0 .. loaded_count)
    handles,        \* dlopen()s of each library not yet dlclose()d
    fds,            \* open descriptors of the transport, and its socket file
    sockets,        \* ports with an open squid socket
    status,         \* what run_server_runtime returns
    calls           \* history: start and stop callbacks, in order

vars == <<keep_running, disposition, file, settings, pc, index, slots, loaded, handles,
          fds, sockets, status, calls>>

Stages == {"signals", "parse", "open", "factory", "register", "start",
           "record", "transport", "accept", "sockets", "loop",
           "close_sockets", "close_transport", "unload", "done", "killed"}

Signals == {"SIGINT", "SIGTERM"}

Call == [callback : {"start", "stop"}, port : Ports, library : Libraries]

\* A serial_device selects the serial transport.
mode == IF settings.serial_device = "" THEN "local" ELSE "serial"

\* What load_configured_plugins loads, in its order.
config == <<[port |-> 0, library |-> settings.system_plugin]>>
            \o settings.mappings

TypeOK ==
    /\ keep_running \in BOOLEAN
    /\ disposition \in [Signals -> {"default", "handler"}]
    /\ file \in Files
    /\ mode \in {"serial", "local"}
    /\ settings.valid => config \in Seq(Mapping)
    /\ pc \in Stages
    /\ index \in 1..(Len(file) + 1) \cup 1..(Len(config) + 1)
    /\ slots \in [Ports -> Libraries \cup {NULL}]
    /\ loaded \in Seq(Mapping)
    /\ handles \in [Libraries -> Nat]
    /\ fds \subseteq {"listen", "path", "client", "serial"}
    /\ sockets \subseteq Ports \ {0}
    /\ status \in {0, 1}
    /\ calls \in Seq(Call)

\* init_server_runtime.
Init ==
    /\ keep_running = TRUE
    /\ disposition = [s \in Signals |-> "default"]
    /\ file \in Files
    /\ settings = Defaults
    /\ pc = "signals"
    /\ index = 1
    /\ slots = [p \in Ports |-> NULL]
    /\ loaded = <<>>
    /\ handles = [l \in Libraries |-> 0]
    /\ fds = {}
    /\ sockets = {}
    /\ status = 0
    /\ calls = <<>>

Now == config[index]

\* run_server_runtime gives up: what is loaded is unloaded again.
Fail == pc' = "unload" /\ status' = 1
-----------------------------------------------------------------------------
(***************************************************************************)
(* Loading.  The steps of load_server_plugin for the current mapping.      *)
(***************************************************************************)

\* install_signal_handlers; nothing is loaded yet when it fails.
InstallSignals ==
    /\ pc = "signals"
    /\ \/ /\ pc' = "parse"
          /\ status' = status
          /\ disposition' = [s \in Signals |-> "handler"]
       \/ /\ pc' = "done"
          /\ status' = 1
          /\ disposition' \in {disposition,
                              [disposition EXCEPT !["SIGINT"] = "handler"]}
    /\ UNCHANGED <<keep_running, file, settings, index, slots, loaded,
                   handles, fds, sockets, calls>>

\* parse_server_plugin_config_file, a line at a time; or the file cannot be
\* opened.
ParseConfig ==
    /\ pc = "parse"
    /\ \/ /\ index =< Len(file)
          /\ settings' = ParseLine(settings, file[index])
          /\ IF settings'.valid
               THEN index' = index + 1 /\ UNCHANGED <<pc, status>>
               ELSE Fail /\ index' = 1
       \/ /\ index > Len(file)
          /\ pc' = "open"
          /\ index' = 1
          /\ UNCHANGED <<settings, status>>
       \/ /\ index = 1
          /\ Fail
          /\ UNCHANGED <<settings, index>>
    /\ UNCHANGED <<keep_running, disposition, file, slots, loaded, handles,
                   fds, sockets, calls>>

\* The loop over the mappings is done.
AllLoaded ==
    /\ pc = "open"
    /\ index > Len(config)
    /\ pc' = "transport"
    /\ UNCHANGED <<keep_running, disposition, file, settings, index, slots,
                   loaded, handles, fds, sockets, status, calls>>

\* The loader is full, the path does not resolve or dlopen fails.
OpenLibrary ==
    /\ pc = "open"
    /\ index =< Len(config)
    /\ \/ /\ Len(loaded) < Cardinality(Ports)
          /\ handles' = [handles EXCEPT ![Now.library] = @ + 1]
          /\ pc' = "factory"
          /\ status' = status
       \/ Fail /\ handles' = handles
    /\ UNCHANGED <<keep_running, disposition, file, settings, index, slots,
                   loaded, fds, sockets, calls>>

Closed(library) == [handles EXCEPT ![library] = @ - 1]

\* Mutant of CallFactory: the library of a bad factory stays open.
CallFactoryLeaking ==
    /\ pc = "factory"
    /\ \/ pc' = "register" /\ status' = status
       \/ Fail
    /\ UNCHANGED <<keep_running, disposition, file, settings, index, slots,
                   loaded, handles, fds, sockets, calls>>

\* dlsym and the factory.
CallFactory ==
    /\ pc = "factory"
    /\ \/ pc' = "register" /\ UNCHANGED <<handles, status>>
       \/ Fail /\ handles' = Closed(Now.library)
    /\ UNCHANGED <<keep_running, disposition, file, settings, index, slots,
                   loaded, fds, sockets, calls>>

\* register_server_plugin refuses an occupied port.
Register ==
    /\ pc = "register"
    /\ IF slots[Now.port] = NULL
         THEN /\ slots' = [slots EXCEPT ![Now.port] = Now.library]
              /\ pc' = "start"
              /\ UNCHANGED <<handles, status>>
         ELSE /\ Fail
              /\ handles' = Closed(Now.library)
              /\ slots' = slots
    /\ UNCHANGED <<keep_running, disposition, file, settings, index, loaded,
                   fds, sockets, calls>>

Called(callback, mapping) ==
    Append(calls, [callback |-> callback, port |-> mapping.port,
                   library |-> mapping.library])

\* Mutant of StartPlugin: the slot of a plugin that fails to start is kept.
StartPluginKeepingSlot ==
    /\ pc = "start"
    /\ \/ /\ Now.library \notin WithStart
          /\ pc' = "record"
          /\ UNCHANGED <<slots, handles, status, calls>>
       \/ /\ Now.library \in WithStart
          /\ pc' = "record"
          /\ calls' = Called("start", Now)
          /\ UNCHANGED <<slots, handles, status>>
       \/ /\ Now.library \in WithStart
          /\ Fail
          /\ handles' = Closed(Now.library)
          /\ UNCHANGED <<slots, calls>>
    /\ UNCHANGED <<keep_running, disposition, file, settings, index, loaded,
                   fds, sockets>>

\* A NULL start is skipped; one that fails is undone.
StartPlugin ==
    /\ pc = "start"
    /\ \/ /\ Now.library \notin WithStart
          /\ pc' = "record"
          /\ UNCHANGED <<slots, handles, status, calls>>
       \/ /\ Now.library \in WithStart
          /\ pc' = "record"
          /\ calls' = Called("start", Now)
          /\ UNCHANGED <<slots, handles, status>>
       \/ /\ Now.library \in WithStart
          /\ Fail
          /\ slots' = [slots EXCEPT ![Now.port] = NULL]
          /\ handles' = Closed(Now.library)
          /\ calls' = calls
    /\ UNCHANGED <<keep_running, disposition, file, settings, index, loaded,
                   fds, sockets>>

RecordPlugin ==
    /\ pc = "record"
    /\ loaded' = Append(loaded, Now)
    /\ index' = index + 1
    /\ pc' = "open"
    /\ UNCHANGED <<keep_running, disposition, file, settings, slots, handles,
                   fds, sockets, status, calls>>
-----------------------------------------------------------------------------
(***************************************************************************)
(* The transport, the loop and the way down.                               *)
(***************************************************************************)

\* serial_transport_open, or local_transport_listen.
OpenTransport ==
    /\ pc = "transport"
    /\ \/ /\ mode = "serial"
          /\ fds' = {"serial"}
          /\ pc' = "sockets"
          /\ status' = status
       \/ /\ mode = "local"
          /\ fds' = {"listen", "path"}
          /\ pc' = "accept"
          /\ status' = status
       \/ Fail /\ fds' = fds
    /\ UNCHANGED <<keep_running, disposition, file, settings, index, slots,
                   loaded, handles, sockets, calls>>

\* local_transport_accept blocks until a client connects.
Accept ==
    /\ pc = "accept"
    /\ fds' = fds \cup {"client"}
    /\ pc' = "sockets"
    /\ UNCHANGED <<keep_running, disposition, file, settings, index, slots,
                   loaded, handles, sockets, status, calls>>

\* Mutant of GiveUpAccept: the listening socket stays open.
GiveUpAcceptListening ==
    /\ fds' = fds
    /\ Fail
    /\ UNCHANGED <<file, settings, index, slots, loaded, handles, sockets,
                   calls>>

\* When accept fails the transport is closed and the server gives up.
GiveUpAccept ==
    /\ fds' = {}
    /\ Fail
    /\ UNCHANGED <<file, settings, index, slots, loaded, handles, sockets,
                   calls>>

AcceptFails ==
    /\ pc = "accept"
    /\ GiveUpAccept
    /\ UNCHANGED <<keep_running, disposition>>

\* Mutant of OpenSockets: the loop starts at the system port.
OpenSocketsFromZero ==
    /\ pc = "sockets"
    /\ sockets' \in SUBSET {p \in Ports : slots[p] # NULL}
    /\ pc' = "loop"
    /\ UNCHANGED <<keep_running, disposition, file, settings, index, slots,
                   loaded, handles, fds, status, calls>>

\* open_plugin_sockets: a port whose squid_open or squid_bind fails stays
\* without a socket.
OpenSockets ==
    /\ pc = "sockets"
    /\ sockets' \in SUBSET {p \in Ports \ {0} : slots[p] # NULL}
    /\ pc' = "loop"
    /\ UNCHANGED <<keep_running, disposition, file, settings, index, slots,
                   loaded, handles, fds, status, calls>>

\* wait_for_transport fails.
TransportFails ==
    /\ pc = "loop"
    /\ keep_running
    /\ keep_running' = FALSE
    /\ UNCHANGED <<disposition, file, settings, pc, index, slots, loaded,
                   handles, fds, sockets, status, calls>>

\* Mutant of LoopEnds: the loop goes on while a socket is open.
LoopEndsWithoutSockets ==
    /\ pc = "loop"
    /\ ~keep_running
    /\ sockets = {}
    /\ pc' = "close_sockets"
    /\ UNCHANGED <<keep_running, disposition, file, settings, index, slots,
                   loaded, handles, fds, sockets, status, calls>>

\* run_dispatch_loop returns.
LoopEnds ==
    /\ pc = "loop"
    /\ ~keep_running
    /\ pc' = "close_sockets"
    /\ UNCHANGED <<keep_running, disposition, file, settings, index, slots,
                   loaded, handles, fds, sockets, status, calls>>

CloseSockets ==
    /\ pc = "close_sockets"
    /\ sockets' = {}
    /\ pc' = "close_transport"
    /\ UNCHANGED <<keep_running, disposition, file, settings, index, slots,
                   loaded, handles, fds, status, calls>>

\* serial_transport_close, or local_transport_close.
CloseTransport ==
    /\ pc = "close_transport"
    /\ fds' = IF mode = "serial" THEN fds \ {"serial"}
                                 ELSE fds \ {"client", "listen", "path"}
    /\ pc' = "unload"
    /\ UNCHANGED <<keep_running, disposition, file, settings, index, slots,
                   loaded, handles, sockets, status, calls>>

\* Mutant of UnloadLast: plugins are unloaded in the order of loading.
UnloadFirst ==
    /\ pc = "unload"
    /\ loaded # <<>>
    /\ LET first == loaded[1]
       IN  /\ calls' = IF first.library \in WithStop
                         THEN Called("stop", first)
                         ELSE calls
           /\ slots' = [slots EXCEPT ![first.port] = NULL]
           /\ handles' = Closed(first.library)
           /\ loaded' = Tail(loaded)
    /\ UNCHANGED <<keep_running, disposition, file, settings, pc, index, fds,
                   sockets, status>>

\* One turn of unload_server_plugins: the last plugin loaded.
UnloadLast ==
    /\ pc = "unload"
    /\ loaded # <<>>
    /\ LET last == loaded[Len(loaded)]
       IN  /\ calls' = IF last.library \in WithStop
                         THEN Called("stop", last)
                         ELSE calls
           /\ slots' = [slots EXCEPT ![last.port] = NULL]
           /\ handles' = Closed(last.library)
           /\ loaded' = SubSeq(loaded, 1, Len(loaded) - 1)
    /\ UNCHANGED <<keep_running, disposition, file, settings, pc, index, fds,
                   sockets, status>>

Unloaded ==
    /\ pc = "unload"
    /\ loaded = <<>>
    /\ pc' = "done"
    /\ UNCHANGED <<keep_running, disposition, file, settings, index, slots,
                   loaded, handles, fds, sockets, status, calls>>

\* A termination signal.  The build's signal() has System V semantics: the
\* handler runs once, after which the disposition is the default again, and
\* a blocked accept returns EINTR.
HandleSignal(s) ==
    /\ pc \notin {"done", "killed"}
    /\ disposition[s] = "handler"
    /\ keep_running' = FALSE
    /\ disposition' = [disposition EXCEPT ![s] = "default"]
    /\ IF pc = "accept"
         THEN GiveUpAccept
         ELSE UNCHANGED <<file, settings, pc, index, slots, loaded, handles,
                          fds, sockets, status, calls>>

\* The default action ends the process on the spot.
Kill(s) ==
    /\ pc \notin {"done", "killed"}
    /\ disposition[s] = "default"
    /\ pc' = "killed"
    /\ UNCHANGED <<keep_running, disposition, file, settings, index, slots,
                   loaded, handles, fds, sockets, status, calls>>

Exited ==
    /\ pc \in {"done", "killed"}
    /\ UNCHANGED vars

\* What the server does by itself; accept also needs a client.
Server ==
    \/ InstallSignals
    \/ ParseConfig
    \/ AllLoaded
    \/ OpenLibrary
    \/ CallFactory
    \/ Register
    \/ StartPlugin
    \/ RecordPlugin
    \/ OpenTransport
    \/ OpenSockets
    \/ LoopEnds
    \/ CloseSockets
    \/ CloseTransport
    \/ UnloadLast
    \/ Unloaded

Next ==
    \/ Server
    \/ Accept
    \/ AcceptFails
    \/ TransportFails
    \/ \E s \in Signals : HandleSignal(s) \/ Kill(s)
    \/ Exited

Spec == Init /\ [][Next]_vars
-----------------------------------------------------------------------------
\* Is the current mapping's library open but not yet recorded?
InHand == pc \in {"factory", "register", "start", "record"}

Holders(library) == {i \in 1..Len(loaded) : loaded[i].library = library}

\* Every dlopen is matched: a library is open once per recorded plugin, and
\* once more for the plugin being loaded.  Whatever step of a load fails,
\* nothing stays open and nothing that is in use is closed, also when several
\* ports share a library.
HandlesBalanced ==
    pc # "killed" =>
    \A l \in Libraries :
      handles[l] = Cardinality(Holders(l))
                     + IF InHand /\ Now.library = l THEN 1 ELSE 0

\* The registry and the loader agree: a port has a plugin exactly when the
\* loader will unload one from it, but for the plugin whose start callback is
\* running.
RegistryMatchesLoader ==
    pc # "killed" =>
    \A p \in Ports : \A l \in Libraries :
      slots[p] = l <=>
        \/ \E i \in 1..Len(loaded) : loaded[i] = [port |-> p, library |-> l]
        \/ pc \in {"start", "record"} /\ Now = [port |-> p, library |-> l]

\* Positions in calls at which a callback of the plugin of a port was called.
CallsOf(callback, p) ==
    {i \in 1..Len(calls) : calls[i].callback = callback /\ calls[i].port = p}

\* Does a line of the file name the plugin of a port?
NamesPlugin(line, p) ==
    /\ line # <<>>
    /\ IF p = 0 THEN line[1] = "system_plugin"
       ELSE line[1] = "plugin" /\ Numbers[line[2]] = p

\* The path that the last such line among the first n gives, or the default.
Gives(n, p, path) ==
    \/ \E i \in 1..n : /\ NamesPlugin(file[i], p)
                       /\ \A j \in (i + 1)..n : ~NamesPlugin(file[j], p)
                       /\ path = PathOf(file[i])
    \/ /\ \A i \in 1..n : ~NamesPlugin(file[i], p)
       /\ path = IF p = 0 THEN DefaultSystem ELSE NULL

\* Can the whole file be taken: each line by itself, and no port named twice?
Acceptable ==
    /\ \A i \in DOMAIN file : file[i] = <<>> \/ ParseLine(Defaults, file[i]).valid
    /\ \A p \in Ports \ {0} : \A i, j \in DOMAIN file :
         NamesPlugin(file[i], p) /\ NamesPlugin(file[j], p) => i = j

\* The running server has the plugins its file names on the ports it names
\* them for, and no others (of several system_plugin lines the last counts);
\* and at no time, up to exit, is a library open if any line of the file, the
\* last one included, is malformed or names a port a second time.
RunsTheFile ==
    /\ pc = "loop" => \A p \in Ports : Gives(Len(file), p, slots[p])
    /\ (\E l \in Libraries : handles[l] # 0) => Acceptable

\* Plugins are stopped in the reverse of the order they were started in, also
\* when start-up fails half-way: a plugin may rely on those loaded before it.
StopsMirrorStarts ==
    \A p, q \in Ports :
      \A i \in CallsOf("start", p), j \in CallsOf("start", q),
         k \in CallsOf("stop", p), m \in CallsOf("stop", q) :
        i < j => m < k

\* When the server has exited, for whatever reason, every plugin whose start
\* callback succeeded was stopped exactly once, and no library, socket or
\* descriptor is left open.
CleanExit ==
    pc = "done" =>
      /\ slots = [p \in Ports |-> NULL]
      /\ handles = [l \in Libraries |-> 0]
      /\ fds = {}
      /\ sockets = {}
      /\ \A i \in 1..Len(calls) :
           calls[i].callback = "start" /\ calls[i].library \in WithStop
             => Cardinality(CallsOf("stop", calls[i].port)) = 1

\* A termination signal ends the server.
SignalEndsServer == ~keep_running ~> pc \in {"done", "killed"}

\* Once plugins are loaded, no termination signal ends the process before
\* they are stopped: signal delivery does not reset the handler.
TeardownNotCutShort == pc = "killed" => loaded = <<>>

\* The server's own steps happen; no client need ever connect.
FairSpec == Spec /\ WF_vars(Server)

\* A client connects, or accept fails, while the server waits for it.
ConnectedSpec == FairSpec /\ WF_vars(Accept \/ AcceptFails)
=============================================================================
