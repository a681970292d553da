------------------------ MODULE LifecycleCallsProofs ------------------------
(***************************************************************************)
(* What the server holds and calls during its lifecycle: how often each    *)
(* library is open, and the start and stop callbacks of its plugins.       *)
(***************************************************************************)
EXTENDS ServerLifecycleProofs, FiniteSetTheorems

HandlesInv == handles \in [Libraries -> Nat] /\ HandlesBalanced

Starts == {i \in 1..Len(calls) : calls[i].callback = "start"}
Stops == {i \in 1..Len(calls) : calls[i].callback = "stop"}
HeldIn(s, p) == \E k \in 1..Len(s) : s[k].port = p
Holds(p) == HeldIn(loaded, p)
Mapped(call) == [port |-> call.port, library |-> call.library]
StoppedOnce(c, p) ==
    \E k \in 1..Len(c) : \A m \in 1..Len(c) :
      c[m].callback = "stop" /\ c[m].port = p <=> m = k

\* A plugin that was started is loaded, or about to be recorded, or was
\* unloaded and, if it wants to know, told so once.
StartedInv ==
    pc # "killed" =>
    \A i \in Starts :
      \/ \E k \in 1..Len(loaded) : loaded[k] = Mapped(calls[i])
      \/ pc = "record" /\ Now = Mapped(calls[i])
      \/ /\ pc \in Ending
         /\ ~Holds(calls[i].port)
         /\ calls[i].library \in WithStop => StoppedOnce(calls, calls[i].port)

\* Callbacks so far: stops come only when the server ends and for plugins that
\* are loaded no more; a port is started once; plugins are loaded in the order
\* they were started in; when one is stopped, those started later are gone,
\* and were stopped before.
OrderInv ==
    /\ \A j \in Stops : pc \in Ending \cup {"killed"} /\ ~Holds(calls[j].port)
    /\ \A i, j \in Starts : calls[i].port = calls[j].port => i = j
    /\ pc = "record" =>
         \A i \in Starts : calls[i].port = Now.port => i = Len(calls)
    /\ \A i, j \in Starts : i < j =>
         \A a, b \in 1..Len(loaded) :
           loaded[a].port = calls[i].port /\ loaded[b].port = calls[j].port
             => a < b
    /\ \A i, j \in Starts : i < j =>
         \A k \in Stops : calls[k].port = calls[i].port =>
           /\ ~Holds(calls[j].port)
           /\ \A m \in Stops : calls[m].port = calls[j].port => m < k

CallsInv == StartedInv /\ OrderInv
-----------------------------------------------------------------------------
(***************************************************************************)
(* The handles of the libraries.                                           *)
(***************************************************************************)

HoldersIn(s, l) == {i \in 1..Len(s) : s[i].library = l}

LEMMA HoldersFinite ==
    ASSUME NEW s \in Seq(Mapping), NEW l
    PROVE  IsFiniteSet(HoldersIn(s, l)) /\ Cardinality(HoldersIn(s, l)) \in Nat
<1>1. IsFiniteSet(1..Len(s))
  BY SeqFacts, FS_Interval
<1>2. HoldersIn(s, l) \subseteq 1..Len(s)
  BY DEF HoldersIn
<1> QED BY <1>1, <1>2, FS_Subset, FS_CardinalityType

LEMMA HoldersAppend ==
    ASSUME NEW s \in Seq(Mapping), NEW m \in Mapping, NEW l
    PROVE  Cardinality(HoldersIn(Append(s, m), l)) =
             Cardinality(HoldersIn(s, l)) + IF m.library = l THEN 1 ELSE 0
<1> DEFINE t == Append(s, m)
<1>1. /\ Len(s) \in Nat /\ Len(t) = Len(s) + 1 /\ t[Len(s) + 1] = m
      /\ \A i \in 1..Len(s) : t[i] = s[i]
  BY AppendFacts, SeqFacts
<1> HIDE DEF t
<1>2. HoldersIn(t, l) = IF m.library = l THEN HoldersIn(s, l) \cup {Len(s) + 1}
                                         ELSE HoldersIn(s, l)
  BY <1>1 DEF HoldersIn
<1>3. Len(s) + 1 \notin HoldersIn(s, l)
  BY <1>1 DEF HoldersIn
<1>4. Cardinality(HoldersIn(s, l) \cup {Len(s) + 1}) =
        Cardinality(HoldersIn(s, l)) + 1
  BY <1>3, HoldersFinite, FS_AddElement
<1> QED BY <1>2, <1>4, HoldersFinite DEF t

LEMMA HoldersFront ==
    ASSUME NEW s \in Seq(Mapping), s # <<>>, NEW l
    PROVE  Cardinality(HoldersIn(SubSeq(s, 1, Len(s) - 1), l)) =
             Cardinality(HoldersIn(s, l))
               - IF s[Len(s)].library = l THEN 1 ELSE 0
<1> DEFINE t == SubSeq(s, 1, Len(s) - 1)
<1>1. /\ Len(s) \in Nat /\ Len(s) > 0 /\ Len(t) = Len(s) - 1
      /\ \A i \in 1..(Len(s) - 1) : t[i] = s[i]
  BY FrontOf
<1> HIDE DEF t
<1>2. HoldersIn(t, l) = IF s[Len(s)].library = l
                          THEN HoldersIn(s, l) \ {Len(s)}
                          ELSE HoldersIn(s, l)
  BY <1>1 DEF HoldersIn
<1>3. s[Len(s)].library = l => Len(s) \in HoldersIn(s, l)
  BY <1>1 DEF HoldersIn
<1>4. s[Len(s)].library = l =>
        Cardinality(HoldersIn(s, l) \ {Len(s)}) =
          Cardinality(HoldersIn(s, l)) - 1
  BY <1>3, HoldersFinite, FS_RemoveElement
<1> QED BY <1>2, <1>4, HoldersFinite DEF t

\* Opening, closing and recording keep the count of every library.
LEMMA HandlesStep ==
    ASSUME LifecycleInv, HandlesInv, Next
    PROVE  HandlesInv'
<1>0. /\ handles \in [Libraries -> Nat] /\ loaded \in Seq(Mapping)
      /\ HandlesBalanced
      /\ \A l : Cardinality(HoldersIn(loaded, l)) \in Nat
  BY HoldersFinite DEF LifecycleInv, TypeInv, StateOK, HandlesInv
<1> DEFINE Count(l) == Cardinality(HoldersIn(loaded, l))
           More(l) == IF InHand /\ Now.library = l THEN 1 ELSE 0
<1>b. pc # "killed" => \A l \in Libraries : handles[l] = Count(l) + More(l)
  BY <1>0 DEF HandlesBalanced, Holders, HoldersIn
<1>g. ASSUME handles' \in [Libraries -> Nat],
             pc' # "killed" =>
               \A l \in Libraries : handles'[l] = Count(l)' + More(l)'
      PROVE  HandlesInv'
  BY <1>g DEF HandlesInv, HandlesBalanced, Holders, HoldersIn
<1>s. loaded' = loaded => \A l : Count(l)' = Count(l)
  OBVIOUS
<1>n. /\ InHand => Now \in Mapping /\ Now.library \in Libraries
      /\ settings' = settings /\ index' = index => Now' = Now
  BY NowIs, SameConfig DEF InHand, Loading, Now
<1> HIDE DEF Count
\* Nothing is opened, closed, taken in hand or let go.
<1>1. CASE /\ UNCHANGED <<handles, loaded>>
           /\ pc # "killed"
           /\ \/ ~InHand /\ ~InHand'
              \/ UNCHANGED <<settings, index>> /\ InHand /\ InHand'
              \/ pc' = "killed"
  BY <1>0, <1>1, <1>b, <1>g, <1>n, <1>s
\* A load fails after dlopen.
<1>2. CASE /\ loaded' = loaded /\ pc # "killed" /\ InHand /\ ~InHand'
           /\ handles' = Closed(Now.library)
  BY <1>0, <1>2, <1>b, <1>g, <1>n, <1>s DEF Closed, Count
<1>3. CASE OpenLibrary
  <2>1. CASE Fail /\ handles' = handles
    BY <1>1, <1>3, <2>1 DEF OpenLibrary, Fail, InHand
  <2>2. CASE pc' = "factory" /\ handles' = [handles EXCEPT ![Now.library] = @ + 1]
    <3>1. ~InHand /\ InHand' /\ pc # "killed" /\ UNCHANGED <<settings, index, loaded>>
      BY <1>3, <2>2 DEF OpenLibrary, InHand
    <3>2. Now' = Now /\ Now.library \in Libraries
      <4>1. index \in 1..Len(config) /\ config \in Seq(Mapping)
        BY <1>3, ConfigIs, SeqFacts
           DEF OpenLibrary, LifecycleInv, TypeInv, StageInv, Loading
      <4>2. config[index] \in Mapping
        BY <4>1, SeqFacts
      <4> QED BY <1>n, <3>1, <4>2 DEF Now, Mapping
    <3> QED BY <1>0, <1>b, <1>g, <1>s, <2>2, <3>1, <3>2 DEF Count
  <2> QED BY <1>3, <2>1, <2>2 DEF OpenLibrary
<1>4. CASE CallFactory
  BY <1>1, <1>2, <1>4 DEF CallFactory, Fail, InHand
<1>5. CASE Register
  BY <1>1, <1>2, <1>5 DEF Register, Fail, InHand
<1>6. CASE StartPlugin
  BY <1>1, <1>2, <1>6 DEF StartPlugin, Fail, InHand
<1>7. CASE RecordPlugin
  <2>1. InHand /\ ~InHand' /\ handles' = handles /\ loaded' = Append(loaded, Now)
    BY <1>7 DEF RecordPlugin, InHand
  <2>2. \A l : Count(l)' = Count(l) + IF Now.library = l THEN 1 ELSE 0
    BY <1>0, <1>n, <2>1, HoldersAppend DEF Count
  <2> QED BY <1>0, <1>7, <1>b, <1>g, <2>1, <2>2 DEF RecordPlugin
<1>8. CASE UnloadLast
  <2> DEFINE last == loaded[Len(loaded)]
  <2>1. /\ ~InHand /\ ~InHand' /\ pc # "killed" /\ loaded # <<>>
        /\ handles' = Closed(last.library)
        /\ loaded' = SubSeq(loaded, 1, Len(loaded) - 1)
    BY <1>8 DEF UnloadLast, InHand
  <2>2. last \in Mapping /\ last.library \in Libraries
    <3>1. Len(loaded) \in 1..Len(loaded)
      BY <1>0, <2>1, FrontOf
    <3>2. last \in Mapping
      BY <1>0, <3>1, SeqFacts
    <3> QED BY <3>2 DEF Mapping
  <2>3. \A l : Count(l)' = Count(l) - IF last.library = l THEN 1 ELSE 0
    BY <1>0, <2>1, HoldersFront DEF Count
  <2>4. \A l : Count(l)' \in Nat
    <3>1. loaded' \in Seq(Mapping)
      BY <1>0, <2>1, FrontOf
    <3> QED BY <3>1, HoldersFinite DEF Count
  <2> HIDE DEF last
  <2> QED BY <1>0, <1>b, <1>g, <2>1, <2>2, <2>3, <2>4 DEF Closed, Count
<1>9. CASE Exited
  BY <1>0, <1>9 DEF Exited, vars, HandlesInv, HandlesBalanced, Holders, InHand, Now, config
<1>10. CASE InstallSignals \/ ParseConfig \/ AllLoaded \/ OpenTransport
             \/ OpenSockets \/ LoopEnds \/ CloseSockets \/ CloseTransport
             \/ Unloaded \/ Accept \/ AcceptFails \/ TransportFails
  BY <1>1, <1>10 DEF InstallSignals, ParseConfig, AllLoaded, OpenTransport,
       OpenSockets, LoopEnds, CloseSockets, CloseTransport, Unloaded, Accept,
       AcceptFails, GiveUpAccept, TransportFails, Fail, InHand
<1>11. ASSUME NEW s \in Signals, HandleSignal(s) \/ Kill(s)
       PROVE  HandlesInv'
  BY <1>1, <1>11 DEF HandleSignal, Kill, GiveUpAccept, Fail, InHand
<1> QED BY <1>3, <1>4, <1>5, <1>6, <1>7, <1>8, <1>9, <1>10, <1>11
           DEF Next, Server
-----------------------------------------------------------------------------
(***************************************************************************)
(* The start and stop callbacks.                                           *)
(***************************************************************************)

LEMMA CallsStep ==
    ASSUME LifecycleInv, CallsInv, Next
    PROVE  CallsInv'
<1>0. /\ StartedInv /\ OrderInv
      /\ loaded \in Seq(Mapping) /\ Len(loaded) \in Nat
      /\ calls \in Seq(Call) /\ Len(calls) \in Nat
  BY SeqFacts DEF LifecycleInv, CallsInv, TypeInv, StateOK
<1>n. /\ pc \in Loading /\ pc # "open" => Now \in Mapping
      /\ settings' = settings /\ index' = index => Now' = Now
  BY NowIs, SameConfig DEF Now
<1>s. UNCHANGED <<calls, loaded>> =>
        /\ Starts' = Starts /\ Stops' = Stops
        /\ \A p : Holds(p)' = Holds(p)
  BY DEF Starts, Stops, Holds, HeldIn
<1>e. pc \in {"signals", "parse"} => Starts = {} /\ Stops = {}
  <2>1. pc \in {"signals", "parse"} => calls = <<>>
    BY DEF LifecycleInv, TypeInv, StageInv
  <2> QED BY <2>1 DEF Starts, Stops
\* No callback, no plugin recorded or unloaded.
<1>1. CASE /\ UNCHANGED <<calls, loaded>>
           /\ pc # "killed"
           /\ pc' # "record"
           /\ \/ pc # "record" /\ (pc \in Ending => pc' \in Ending \cup {"killed"})
              \/ pc' = "killed"
  <2>1. StartedInv'
    BY <1>0, <1>1, <1>s DEF StartedInv
  <2>2. OrderInv'
    BY <1>0, <1>1, <1>s DEF OrderInv, Ending
  <2> QED BY <2>1, <2>2 DEF CallsInv
<1>2. CASE UNCHANGED <<calls, loaded, pc, settings, index>>
  <2>1. StartedInv'
    BY <1>0, <1>2, <1>n, <1>s DEF StartedInv
  <2>2. OrderInv'
    BY <1>0, <1>2, <1>n, <1>s DEF OrderInv
  <2> QED BY <2>1, <2>2 DEF CallsInv
<1>p. /\ \A k \in 1..Len(loaded) : loaded[k] \in Mapping
      /\ \A j, k \in 1..Len(loaded) : loaded[j].port = loaded[k].port => j = k
      /\ pc \in {"start", "record"} => ~Holds(Now.port)
  BY <1>0, SeqFacts DEF LifecycleInv, PortsInv, Holds, HeldIn
\* While plugins are loaded nothing was stopped, and what was started is
\* loaded or in hand.
<1>l. pc \in Loading =>
        /\ Stops = {}
        /\ \A i \in Starts : \/ Holds(calls[i].port)
                             \/ pc = "record" /\ Now = Mapped(calls[i])
  <2>1. pc \in Loading => pc # "killed" /\ pc \notin Ending
    BY DEF Loading, Ending
  <2>2. pc \in Loading => Stops = {}
    BY <1>0, <2>1 DEF OrderInv, Loading
  <2>3. \A i \in Starts : \A k \in 1..Len(loaded) :
          loaded[k] = Mapped(calls[i]) => Holds(calls[i].port)
    BY DEF Holds, HeldIn, Mapped
  <2> QED BY <1>0, <2>1, <2>2, <2>3 DEF StartedInv
<1>3. CASE StartPlugin
  <2>1. /\ pc = "start" /\ pc \in Loading /\ loaded' = loaded /\ Now' = Now
        /\ Now \in Mapping
    BY <1>3, <1>n DEF StartPlugin, Loading
  <2>2. \A i \in Starts : calls[i].port # Now.port
    BY <1>l, <1>p, <2>1
  <2>3. \A i \in Starts :
          \E k \in 1..Len(loaded) : loaded[k] = Mapped(calls[i])
    BY <1>0, <2>1 DEF StartedInv, Ending
  <2>4. CASE calls' = calls
    <3>1. pc' \in {"record", "unload"}
      BY <1>3 DEF StartPlugin, Fail
    <3>2. StartedInv'
      BY <1>s, <2>1, <2>3, <2>4 DEF StartedInv
    <3>3. OrderInv'
      BY <1>0, <1>l, <1>s, <2>1, <2>2, <2>4, <3>1 DEF OrderInv
    <3> QED BY <3>2, <3>3 DEF CallsInv
  <2>5. CASE calls' # calls
    <3> DEFINE new == [callback |-> "start", port |-> Now.port,
                       library |-> Now.library]
    <3>1. pc' = "record" /\ calls' = Append(calls, new)
      BY <1>3, <2>5 DEF StartPlugin, Called
    <3>2. /\ Len(calls') = Len(calls) + 1 /\ calls'[Len(calls) + 1] = new
          /\ \A i \in 1..Len(calls) : calls'[i] = calls[i]
      <4>1. new \in Call
        BY <2>1, MappingIs DEF Call
      <4> QED BY <1>0, <3>1, <4>1, AppendFacts
    <3>3. new.callback = "start" /\ new.port = Now.port /\ Mapped(new) = Now
      BY <2>1, MappingIs DEF Mapped
    <3> HIDE DEF new
    <3>4. Starts' = Starts \cup {Len(calls) + 1} /\ Stops' = Stops
      BY <1>0, <3>2, <3>3 DEF Starts, Stops
    <3>5. \A i \in Starts : i \in 1..Len(calls) /\ calls'[i] = calls[i]
      BY <3>2 DEF Starts
    <3>6. StartedInv'
      BY <2>1, <2>3, <3>1, <3>2, <3>3, <3>4, <3>5 DEF StartedInv
    <3>7. OrderInv'
      <4>1. Stops' = {}
        BY <1>l, <2>1, <3>4
      <4>2. \A i \in Starts' :
              calls'[i].port = Now.port => i = Len(calls) + 1
        BY <2>2, <3>4, <3>5
      <4>3. \A i, j \in Starts' : calls'[i].port = calls'[j].port => i = j
        BY <1>0, <2>2, <3>2, <3>3, <3>4, <3>5 DEF OrderInv
      <4>4. \A i, j \in Starts' : i < j =>
              \A a, b \in 1..Len(loaded) :
                /\ loaded[a].port = calls'[i].port
                /\ loaded[b].port = calls'[j].port
                => a < b
        <5>1. \A b \in 1..Len(loaded) : loaded[b].port # Now.port
          BY <1>p, <2>1 DEF Holds, HeldIn
        <5>2. SUFFICES ASSUME NEW i \in Starts', NEW j \in Starts', i < j,
                              NEW a \in 1..Len(loaded), NEW b \in 1..Len(loaded),
                              loaded[a].port = calls'[i].port,
                              loaded[b].port = calls'[j].port
                       PROVE  a < b
          OBVIOUS
        <5>3. i # Len(calls) + 1 /\ j # Len(calls) + 1
          BY <3>2, <3>3, <5>1, <5>2
        <5>4. i \in Starts /\ j \in Starts
          BY <3>4, <5>3
        <5> QED BY <1>0, <3>5, <5>2, <5>4 DEF OrderInv
      <4>5. \A i \in Starts' : calls'[i].port = Now'.port => i = Len(calls')
        BY <2>1, <3>2, <4>2
      <4> HIDE DEF Now
      <4> QED BY <2>1, <4>1, <4>3, <4>4, <4>5 DEF OrderInv
    <3> QED BY <3>6, <3>7 DEF CallsInv
  <2> QED BY <2>4, <2>5
<1>4. CASE RecordPlugin
  <2>1. /\ pc = "record" /\ pc \in Loading /\ pc' = "open" /\ calls' = calls
        /\ Now \in Mapping /\ loaded' = Append(loaded, Now)
    BY <1>4, <1>n DEF RecordPlugin, Loading
  <2>2. /\ Len(loaded') = Len(loaded) + 1 /\ loaded'[Len(loaded) + 1] = Now
        /\ \A i \in 1..Len(loaded) : loaded'[i] = loaded[i]
    BY <1>0, <2>1, AppendFacts
  <2>3. Starts' = Starts /\ Stops' = {}
    BY <1>l, <2>1 DEF Starts, Stops
  <2>4. StartedInv'
    <3>1. ASSUME NEW i \in Starts
          PROVE  \E k \in 1..Len(loaded') : loaded'[k] = Mapped(calls[i])
      <4>1. CASE \E k \in 1..Len(loaded) : loaded[k] = Mapped(calls[i])
        BY <1>0, <2>2, <4>1
      <4>2. CASE Now = Mapped(calls[i])
        <5>1. Len(loaded) + 1 \in 1..Len(loaded')
          BY <1>0, <2>2
        <5> QED BY <2>2, <4>2, <5>1
      <4> QED BY <1>0, <2>1, <4>1, <4>2 DEF StartedInv, Ending
    <3> QED BY <2>1, <2>3, <3>1 DEF StartedInv
  <2>5. OrderInv'
    <3>1. ASSUME NEW i \in Starts, NEW j \in Starts, i < j,
                 NEW a \in 1..Len(loaded'), NEW b \in 1..Len(loaded'),
                 loaded'[a].port = calls[i].port,
                 loaded'[b].port = calls[j].port
          PROVE  a < b
      <4>1. a # Len(loaded) + 1
        <5>1. j \in 1..Len(calls) /\ i \in 1..Len(calls)
          BY DEF Starts
        <5> QED BY <1>0, <2>1, <2>2, <3>1, <5>1 DEF OrderInv
      <4>2. a \in 1..Len(loaded)
        BY <1>0, <2>2, <4>1
      <4>3. CASE b = Len(loaded) + 1
        BY <1>0, <4>2, <4>3
      <4>4. CASE b # Len(loaded) + 1
        <5>1. b \in 1..Len(loaded)
          BY <1>0, <2>2, <4>4
        <5>2. /\ loaded[a].port = calls[i].port
              /\ loaded[b].port = calls[j].port
          BY <2>2, <3>1, <4>2, <5>1
        <5>3. CallsInv
          OBVIOUS
        <5> QED BY <3>1, <4>2, <5>1, <5>2, <5>3, Zenon DEF CallsInv, OrderInv
      <4> QED BY <4>3, <4>4
    <3>2. \A i, j \in Starts : calls[i].port = calls[j].port => i = j
      BY <1>0 DEF OrderInv
    <3>3. /\ Starts' = Starts /\ calls' = calls
          /\ pc' # "record" /\ \A k \in Stops' : FALSE
      BY <2>1, <2>3
    <3> QED BY <3>1, <3>2, <3>3 DEF OrderInv
  <2> QED BY <2>4, <2>5 DEF CallsInv
<1>5. CASE UnloadLast
  <2> DEFINE last == loaded[Len(loaded)]
             new == [callback |-> "stop", port |-> last.port,
                     library |-> last.library]
  <2>1. /\ pc = "unload" /\ pc' = "unload" /\ loaded # <<>>
        /\ loaded' = SubSeq(loaded, 1, Len(loaded) - 1)
        /\ \/ last.library \in WithStop /\ calls' = Append(calls, new)
           \/ last.library \notin WithStop /\ calls' = calls
    BY <1>5 DEF UnloadLast, Called
  <2>2. /\ Len(loaded) > 0 /\ Len(loaded') = Len(loaded) - 1
        /\ \A i \in 1..(Len(loaded) - 1) : loaded'[i] = loaded[i]
    BY <1>0, <2>1, FrontOf
  <2>3. Len(loaded) \in 1..Len(loaded) /\ last \in Mapping
    BY <1>0, <1>p, <2>2
  <2>4. new \in Call /\ new.callback = "stop" /\ new.port = last.port
    BY <2>3, MappingIs DEF Call
  <2> HIDE DEF new
  <2>5. \A i \in 1..Len(calls) : i \in 1..Len(calls') /\ calls'[i] = calls[i]
    BY <1>0, <2>1, <2>4, AppendFacts
  <2>6. Starts' = Starts
    BY <1>0, <2>1, <2>4, AppendFacts DEF Starts
  <2>7. \/ Stops' = Stops /\ last.library \notin WithStop
        \/ /\ Stops' = Stops \cup {Len(calls) + 1} /\ last.library \in WithStop
           /\ calls'[Len(calls) + 1] = new
    BY <1>0, <2>1, <2>4, AppendFacts DEF Stops
  \* Only the last mapping goes, and with it its port.
  <2>8. \A p : HeldIn(loaded', p) <=> HeldIn(loaded, p) /\ p # last.port
    <3>1. ASSUME NEW p, HeldIn(loaded', p) PROVE HeldIn(loaded, p) /\ p # last.port
      <4>1. PICK k \in 1..Len(loaded') : loaded'[k].port = p
        BY <3>1 DEF HeldIn
      <4>2. k \in 1..Len(loaded) /\ k # Len(loaded) /\ loaded[k].port = p
        BY <1>0, <2>2, <4>1
      <4> QED BY <1>p, <2>3, <4>2 DEF HeldIn
    <3>2. ASSUME NEW p, HeldIn(loaded, p), p # last.port PROVE HeldIn(loaded', p)
      <4>1. PICK k \in 1..Len(loaded) : loaded[k].port = p
        BY <3>2 DEF HeldIn
      <4>2. k # Len(loaded)
        BY <3>2, <4>1
      <4>3. k \in 1..Len(loaded') /\ loaded'[k].port = p
        BY <1>0, <2>2, <4>1, <4>2
      <4> QED BY <4>3 DEF HeldIn
    <3> QED BY <3>1, <3>2
  <2>9. HeldIn(loaded, last.port) /\ \A k \in Stops : calls[k].port # last.port
    BY <1>0, <2>3 DEF OrderInv, HeldIn, Holds
  <2>i. \A i \in Starts \cup Stops : i \in 1..Len(calls) /\ calls'[i] = calls[i]
    BY <2>5 DEF Starts, Stops
  <2>10. StartedInv'
    <3>1. ASSUME NEW i \in Starts, calls[i].port = last.port
          PROVE  calls[i].library \in WithStop =>
                   StoppedOnce(calls', calls[i].port)
      <4>1. PICK k \in 1..Len(loaded) : loaded[k] = Mapped(calls[i])
        BY <1>0, <2>1, <2>9, <3>1 DEF StartedInv, Holds
      <4>2. last = Mapped(calls[i])
        BY <1>p, <2>3, <3>1, <4>1 DEF Mapped
      <4>3. calls[i].library = last.library
        BY <4>2 DEF Mapped
      <4>4. calls[i].library \in WithStop =>
              \A m \in 1..Len(calls') :
                calls'[m].callback = "stop" /\ calls'[m].port = last.port
                  <=> m = Len(calls) + 1
        <5>1. \A m \in 1..Len(calls') : m \in Stops' <=> calls'[m].callback = "stop"
          BY DEF Stops
        <5> HIDE DEF last
        <5> QED BY <2>4, <2>7, <2>9, <2>i, <4>3, <5>1
      <4>5. calls[i].library \in WithStop => Len(calls) + 1 \in 1..Len(calls')
        <5>1. Stops' \subseteq 1..Len(calls')
          BY DEF Stops
        <5> HIDE DEF last
        <5> QED BY <2>7, <4>3, <5>1
      <4> QED BY <3>1, <4>4, <4>5 DEF StoppedOnce
    <3>2. ASSUME NEW i \in Starts, calls[i].port # last.port
          PROVE  \/ \E k \in 1..Len(loaded') : loaded'[k] = Mapped(calls[i])
                 \/ /\ ~HeldIn(loaded', calls[i].port)
                    /\ calls[i].library \in WithStop =>
                         StoppedOnce(calls', calls[i].port)
      <4>1. CASE \E k \in 1..Len(loaded) : loaded[k] = Mapped(calls[i])
        <5>1. PICK k \in 1..Len(loaded) : loaded[k] = Mapped(calls[i])
          BY <4>1
        <5>2. k # Len(loaded)
          BY <3>2, <5>1 DEF Mapped
        <5>3. k \in 1..Len(loaded') /\ loaded'[k] = loaded[k]
          BY <1>0, <2>2, <5>2
        <5> QED BY <5>1, <5>3
      <4>2. CASE /\ ~HeldIn(loaded, calls[i].port)
                 /\ calls[i].library \in WithStop =>
                      StoppedOnce(calls, calls[i].port)
        <5>1. ASSUME StoppedOnce(calls, calls[i].port)
              PROVE  StoppedOnce(calls', calls[i].port)
          <6>1. PICK k \in 1..Len(calls) : \A m \in 1..Len(calls) :
                  calls[m].callback = "stop" /\ calls[m].port = calls[i].port
                    <=> m = k
            BY <5>1 DEF StoppedOnce
          <6>0. \/ Len(calls') = Len(calls)
                \/ Len(calls') = Len(calls) + 1 /\ calls'[Len(calls) + 1] = new
            BY <1>0, <2>1, <2>4, AppendFacts
          <6> HIDE DEF last
          <6>2. /\ k \in 1..Len(calls') /\ \A m \in 1..Len(calls) : calls'[m] = calls[m]
                /\ \A m \in 1..Len(calls') :
                     \/ m \in 1..Len(calls)
                     \/ m = Len(calls) + 1 /\ calls'[m].port = last.port
            BY <1>0, <2>4, <2>5, <6>0
          <6>3. \A m \in 1..Len(calls') :
                  calls'[m].callback = "stop" /\ calls'[m].port = calls[i].port
                    <=> m = k
            BY <1>0, <3>2, <6>1, <6>2
          <6> QED BY <6>2, <6>3 DEF StoppedOnce
        <5> QED BY <2>8, <4>2, <5>1
      <4> QED BY <1>0, <2>1, <4>1, <4>2 DEF StartedInv, Holds
    <3>3. \A i \in Starts : Mapped(calls'[i]) = Mapped(calls[i])
      BY <2>i
    <3>4. pc' \in Ending
      BY <2>1 DEF Ending
    <3>5. ASSUME NEW i \in Starts
          PROVE  \/ \E k \in 1..Len(loaded') : loaded'[k] = Mapped(calls'[i])
                 \/ /\ ~HeldIn(loaded', calls'[i].port)
                    /\ calls'[i].library \in WithStop =>
                         StoppedOnce(calls', calls'[i].port)
      <4> HIDE DEF last
      <4> QED BY <2>8, <2>i, <3>1, <3>2, <3>3
    <3> QED BY <2>6, <3>4, <3>5 DEF StartedInv, Holds
  <2>11. OrderInv'
    <3>1. pc' \in Ending /\ pc' # "record"
      BY <2>1 DEF Ending
    <3>2. \A j \in Stops' : ~HeldIn(loaded', calls'[j].port)
      <4>1. \A j \in Stops : ~HeldIn(loaded, calls[j].port)
        BY <1>0 DEF OrderInv, Holds
      <4> HIDE DEF last
      <4> QED BY <2>4, <2>7, <2>8, <2>i, <4>1
    <3>3. \A i, j \in Starts : i < j =>
            \A a, b \in 1..Len(loaded') :
              /\ loaded'[a].port = calls[i].port
              /\ loaded'[b].port = calls[j].port
              => a < b
      <4>1. \A a \in 1..Len(loaded') : a \in 1..Len(loaded) /\ loaded'[a] = loaded[a]
        BY <1>0, <2>2
      <4>2. \A i, j \in Starts : i < j =>
              \A a, b \in 1..Len(loaded) :
                /\ loaded[a].port = calls[i].port
                /\ loaded[b].port = calls[j].port
                => a < b
        BY <1>0 DEF OrderInv
      <4> QED BY <4>1, <4>2
    <3>4. ASSUME NEW i \in Starts, NEW j \in Starts, i < j, NEW k \in Stops',
                 calls'[k].port = calls[i].port
          PROVE  /\ ~HeldIn(loaded', calls[j].port)
                 /\ \A m \in Stops' : calls'[m].port = calls[j].port => m < k
      <4>1. CASE k \in Stops
        <5>1. /\ ~HeldIn(loaded, calls[j].port)
              /\ \A m \in Stops : calls[m].port = calls[j].port => m < k
          BY <1>0, <2>i, <3>4, <4>1 DEF OrderInv, Holds
        <5> HIDE DEF last
        <5> QED BY <2>4, <2>7, <2>8, <2>9, <2>i, <5>1
      <4>2. CASE k \notin Stops
        <5>1. k = Len(calls) + 1 /\ calls[i].port = last.port
          BY <2>4, <2>7, <3>4, <4>2
        <5>2. i # j /\ calls[j].port # calls[i].port
          BY <1>0, <3>4 DEF OrderInv, Starts
        <5>3. ~HeldIn(loaded, calls[j].port)
          <6>1. SUFFICES ASSUME NEW b \in 1..Len(loaded),
                                loaded[b].port = calls[j].port
                         PROVE  FALSE
            BY DEF HeldIn
          <6>2. Len(loaded) < b
            BY <1>0, <2>3, <3>4, <5>1, <6>1 DEF OrderInv, Holds
          <6> QED BY <1>0, <6>2
        <5>4. \A m \in Stops : m < k
          BY <1>0, <2>i, <5>1
        <5> HIDE DEF last
        <5> QED BY <2>4, <2>7, <2>8, <2>i, <5>1, <5>2, <5>3, <5>4
      <4> QED BY <4>1, <4>2
    <3>5. \A i, j \in Starts : calls[i].port = calls[j].port => i = j
      BY <1>0 DEF OrderInv, Holds
    <3> HIDE DEF last
    <3> QED BY <2>6, <2>i, <3>1, <3>2, <3>3, <3>4, <3>5 DEF OrderInv, Holds
  <2> QED BY <2>10, <2>11 DEF CallsInv
<1>6. CASE InstallSignals \/ ParseConfig \/ AllLoaded \/ OpenLibrary
             \/ CallFactory \/ Register \/ OpenTransport \/ OpenSockets
             \/ LoopEnds \/ CloseSockets \/ CloseTransport \/ Unloaded
             \/ Accept \/ AcceptFails
  BY <1>1, <1>6 DEF InstallSignals, ParseConfig, AllLoaded, OpenLibrary,
       CallFactory, Register, OpenTransport, OpenSockets, LoopEnds,
       CloseSockets, CloseTransport, Unloaded, Accept, AcceptFails,
       GiveUpAccept, Fail, Ending
<1>7. CASE TransportFails \/ Exited
  BY <1>2, <1>7 DEF TransportFails, Exited, vars
<1>8. ASSUME NEW s \in Signals, HandleSignal(s) \/ Kill(s)
      PROVE  CallsInv'
  BY <1>1, <1>2, <1>8 DEF HandleSignal, Kill, GiveUpAccept, Fail, Ending
<1> QED BY <1>3, <1>4, <1>5, <1>6, <1>7, <1>8 DEF Next, Server
-----------------------------------------------------------------------------
(***************************************************************************)
(* The results.                                                            *)
(***************************************************************************)

LEMMA HoldingInit ==
    Init => HandlesInv /\ CallsInv
<1> SUFFICES ASSUME Init PROVE HandlesInv /\ CallsInv
  OBVIOUS
<1>0. loaded = <<>> /\ calls = <<>> /\ pc = "signals" /\ handles = [l \in Libraries |-> 0]
  BY DEF Init
<1>1. HandlesBalanced
  <2>1. \A l : Holders(l) = {}
    BY <1>0 DEF Holders
  <2>2. \A l : Cardinality(Holders(l)) = 0
    BY <2>1, FS_EmptySet
  <2>3. ~InHand
    BY <1>0 DEF InHand
  <2> QED BY <1>0, <2>2, <2>3 DEF HandlesBalanced
<1>2. CallsInv
  <2>1. Starts = {} /\ Stops = {}
    BY <1>0 DEF Starts, Stops
  <2> QED BY <1>0, <2>1 DEF CallsInv, StartedInv, OrderInv
<1> QED BY <1>0, <1>1, <1>2 DEF HandlesInv

LEMMA HoldingNext ==
    LifecycleInv /\ HandlesInv /\ CallsInv /\ [Next]_vars => (HandlesInv /\ CallsInv)'
<1>1. ASSUME LifecycleInv, HandlesInv, CallsInv, Next PROVE (HandlesInv /\ CallsInv)'
  BY <1>1, HandlesStep, CallsStep
<1>2. ASSUME HandlesInv, CallsInv, UNCHANGED vars PROVE (HandlesInv /\ CallsInv)'
  <2>1. /\ pc' = pc /\ loaded' = loaded /\ calls' = calls /\ handles' = handles
        /\ Now' = Now
    BY <1>2, SameConfig DEF vars, Now
  <2> HIDE DEF Now
  <2>2. /\ Starts' = Starts /\ Stops' = Stops /\ InHand' = InHand
        /\ \A p : Holds(p)' = Holds(p)
        /\ \A l : Holders(l)' = Holders(l)
    BY <2>1 DEF Starts, Stops, InHand, Holds, Holders
  <2>3. HandlesInv'
    BY <1>2, <2>1, <2>2 DEF HandlesInv, HandlesBalanced
  <2>4. StartedInv'
    BY <1>2, <2>1, <2>2 DEF CallsInv, StartedInv
  <2>5. OrderInv'
    BY <1>2, <2>1, <2>2 DEF CallsInv, OrderInv
  <2> QED BY <2>3, <2>4, <2>5 DEF CallsInv
<1> QED BY <1>1, <1>2

\* Every open library is one a plugin was made from, or the one in hand; a
\* started plugin is loaded, being recorded, or gone and told so.
THEOREM HoldingInvariant == Spec => [](LifecycleInv /\ HandlesInv /\ CallsInv)
  BY LifecycleInvariant, HoldingInit, HoldingNext, PTL DEF Spec

\* Type correctness of the server's state.
THEOREM LifecycleTypeCorrect == Spec => []TypeOK
<1>1. LifecycleInv /\ HandlesInv => TypeOK
  <2> SUFFICES ASSUME LifecycleInv, HandlesInv PROVE TypeOK
    OBVIOUS
  <2>1. StateOK /\ settings \in Settings /\ handles \in [Libraries -> Nat]
    BY DEF LifecycleInv, TypeInv, StageInv, HandlesInv
  <2>2. mode \in {"serial", "local"} /\ config \in Seq(Mapping)
    BY <2>1, ConfigIs DEF mode
  <2> HIDE DEF mode, config
  <2> QED BY <2>1, <2>2 DEF StateOK, TypeOK
<1> QED BY <1>1, HoldingInvariant, PTL

\* dlopen and dlclose balance: a library is open once for each loaded plugin
\* made from it, and once more while one is being loaded from it.
THEOREM LibrariesBalanced == Spec => []HandlesBalanced
<1>1. HandlesInv => HandlesBalanced
  BY DEF HandlesInv
<1> QED BY <1>1, HoldingInvariant, PTL

\* unload_server_plugins stops the plugins in the reverse of the order
\* load_configured_plugins started them in.
THEOREM StopsInReverse == Spec => []StopsMirrorStarts
<1>1. CallsInv => StopsMirrorStarts
  BY DEF CallsInv, OrderInv, Starts, Stops, StopsMirrorStarts,
     CallsOf
<1> QED BY <1>1, HoldingInvariant, PTL
\* run_server_runtime leaves nothing open, and no started plugin unstopped.
THEOREM LeavesNothingBehind == Spec => []CleanExit
<1>1. LifecycleInv /\ HandlesInv /\ CallsInv => CleanExit
  <2> SUFFICES ASSUME LifecycleInv, HandlesInv, CallsInv, pc = "done" PROVE CleanExit
    BY DEF CleanExit
  <2>0. /\ StateOK /\ RegistryMatchesLoader /\ HandlesInv /\ StartedInv
        /\ loaded = <<>> /\ fds = {} /\ sockets = {}
    BY DEF LifecycleInv, TypeInv, CallsInv, StageInv, OpenInv, Running
  <2>1. slots = [p \in Ports |-> NULL]
    <3>1. \A p \in Ports : \A l \in Libraries : slots[p] # l
      BY <2>0 DEF RegistryMatchesLoader
    <3>2. slots \in [Ports -> Libraries \cup {NULL}]
      BY <2>0 DEF StateOK
    <3> QED BY <3>1, <3>2
  <2>2. handles = [l \in Libraries |-> 0]
    <3>1. \A l : Cardinality(Holders(l)) = 0
      BY <2>0, FS_EmptySet DEF Holders
    <3>2. \A l \in Libraries : handles[l] = 0
      BY <2>0, <3>1 DEF HandlesInv, HandlesBalanced, InHand
    <3>3. handles \in [Libraries -> Nat]
      BY <2>0 DEF HandlesInv
    <3> QED BY <3>2, <3>3
  <2>3. \A i \in 1..Len(calls) :
          calls[i].callback = "start" /\ calls[i].library \in WithStop
            => Cardinality(CallsOf("stop", calls[i].port)) = 1
    <3> SUFFICES ASSUME NEW i \in 1..Len(calls), calls[i].callback = "start",
                        calls[i].library \in WithStop
                 PROVE  Cardinality(CallsOf("stop", calls[i].port)) = 1
      OBVIOUS
    <3>1. StoppedOnce(calls, calls[i].port)
      BY <2>0 DEF StartedInv, Starts
    <3>2. PICK k \in 1..Len(calls) : CallsOf("stop", calls[i].port) = {k}
      BY <3>1 DEF StoppedOnce, CallsOf
    <3> QED BY <3>2, FS_Singleton
  <2> QED BY <2>0, <2>1, <2>2, <2>3 DEF CleanExit
<1> QED BY <1>1, HoldingInvariant, PTL
=============================================================================
