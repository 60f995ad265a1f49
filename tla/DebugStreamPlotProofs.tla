----------------------- MODULE DebugStreamPlotProofs -----------------------
(***************************************************************************)
(* What the analyzer of DebugStream plots, for any number of debuggers,    *)
(* samples, calls and connections: the records that were sent, wherever    *)
(* the stream is cut, and a cleared sample not twice.  An invariant ties   *)
(* each connection to the line of its records' bytes (Flow); a second one, *)
(* which needs the first, says what became of cleared samples.             *)
(***************************************************************************)
EXTENDS DebugStreamProofs

-----------------------------------------------------------------------------
(* The inductive invariant.                                                *)

(* What a call that is under way has still to send, behind a header also   *)
(* the payload that follows it.                                            *)
Owed(c) ==
    IF call[c] = NoCall THEN 0
    ELSE Len(call[c].rest)
         + (IF call[c].phase = "header" THEN Size(d_samples[c]) ELSE 0)

(* What a call sends is the last record of its connection.                 *)
CallInv(c) ==
    call[c] # NoCall =>
        /\ call[c].phase \in {"header", "payload"}
        /\ Pending(call[c].rest, d_samples[c], Owed(c))
        /\ d_socket[c] # 0 =>
              LET records == conns[d_socket[c]].records
              IN  /\ records # <<>>
                  /\ records[Len(records)] =
                        [samples |-> d_samples[c], clear |-> call[c].clear]

(* A debugger uses the last connection it made.                            *)
SocketInv(c) ==
    d_socket[c] # 0 =>
        /\ conns[d_socket[c]].client = c
        /\ \A m \in 1..Len(conns) : m > d_socket[c] => conns[m].client # c

Live(n) == conns[n].end \in {"waiting", "served"}

(* The connection as the analyzer sees it, or will once it accepts it.     *)
OnTheWay(n) ==
    IF client_socket = n THEN data \o conns[n].stream ELSE conns[n].stream
StateOf(n)  == IF client_socket = n THEN state ELSE "READ_HEADER"
LengthOf(n) == IF client_socket = n THEN data_len ELSE 0

(* As long as both ends are there no byte is missing: a record that is not *)
(* complete is the last, and its debugger still owes it, or was ended.     *)
FlowOf(n, from, owed) ==
    /\ Flow(conns[n].records, OnTheWay(n), Len(plots[n]), StateOf(n),
            LengthOf(n), from, owed)
    /\ conns[n].complete =
           Len(conns[n].records) - (IF owed = 0 THEN 0 ELSE 1)
    /\ \A c \in Clients : d_socket[c] = n => owed = Owed(c)

FlowInv(n) == Live(n) => \E from : \E owed \in Nat : FlowOf(n, from, owed)

PlotInv(n) ==
    /\ Len(plots[n]) <= conns[n].complete
    /\ conns[n].complete <= Len(conns[n].records)
    /\ \A k \in 1..Len(plots[n]) :
          plots[n][k] = Bytes(conns[n].records[k].samples)
    /\ conns[n].end = "waiting" => plots[n] = <<>>

ServiceInv ==
    /\ ~ analyzer => client_socket = 0
    /\ \A n \in 1..MaxConnections : n > Len(conns) => plots[n] = <<>>

StreamInv ==
    /\ StreamTypeOK
    /\ \A c \in Clients : CallInv(c) /\ SocketInv(c)
    /\ \A n \in 1..Len(conns) : FlowInv(n) /\ PlotInv(n)
    /\ ServiceInv

(* What a step leaves alone keeps its part of the invariant.               *)
LEMMA CallKept ==
    ASSUME NEW c \in Clients, CallInv(c),
           call'[c] = call[c],
           call[c] # NoCall =>
              /\ d_samples'[c] = d_samples[c] /\ d_socket'[c] = d_socket[c]
              /\ d_socket[c] # 0 =>
                    conns'[d_socket[c]].records = conns[d_socket[c]].records
    PROVE  CallInv(c)' /\ Owed(c)' = Owed(c)
BY DEF CallInv, Owed

LEMMA SocketKept ==
    ASSUME NEW c \in Clients, SocketInv(c),
           d_socket'[c] = d_socket[c], d_socket[c] # 0 => d_socket[c] \in 1..Len(conns),
           Len(conns') = Len(conns),
           \A n \in 1..Len(conns) : conns'[n].client = conns[n].client
    PROVE  SocketInv(c)'
BY DEF SocketInv

LEMMA FlowKept ==
    ASSUME NEW n \in 1..Len(conns), FlowInv(n),
           Live(n)' =>
              /\ Live(n)
              /\ conns'[n].stream = conns[n].stream
              /\ conns'[n].records = conns[n].records
              /\ conns'[n].complete = conns[n].complete
              /\ plots'[n] = plots[n]
              /\ client_socket = n <=> client_socket' = n
              /\ client_socket = n => UNCHANGED <<state, data, data_len>>
              /\ \A c \in Clients : d_socket'[c] = n =>
                    d_socket[c] = n /\ Owed(c)' = Owed(c)
    PROVE  FlowInv(n)'
<1> SUFFICES ASSUME Live(n)'
             PROVE  \E from : \E owed \in Nat : FlowOf(n, from, owed)'
  BY DEF FlowInv
<1>1. /\ Live(n)
      /\ conns'[n].stream = conns[n].stream
      /\ conns'[n].records = conns[n].records
      /\ conns'[n].complete = conns[n].complete
      /\ plots'[n] = plots[n]
      /\ \A c \in Clients : d_socket'[c] = n =>
            d_socket[c] = n /\ Owed(c)' = Owed(c)
  OBVIOUS
<1>2. /\ OnTheWay(n)' = OnTheWay(n) /\ StateOf(n)' = StateOf(n)
      /\ LengthOf(n)' = LengthOf(n)
  BY <1>1 DEF OnTheWay, StateOf, LengthOf
<1>3. PICK from : \E owed \in Nat : FlowOf(n, from, owed)
  BY <1>1 DEF FlowInv
<1>4. PICK owed \in Nat : FlowOf(n, from, owed)
  BY <1>3
<1>5. FlowOf(n, from, owed)'
  BY <1>1, <1>2, <1>4 DEF FlowOf
<1> QED BY <1>5

LEMMA PlotKept ==
    ASSUME NEW n \in 1..Len(conns), PlotInv(n),
           conns'[n].records = conns[n].records,
           conns'[n].complete = conns[n].complete,
           plots'[n] = plots[n],
           conns'[n].end = "waiting" => conns[n].end = "waiting"
    PROVE  PlotInv(n)'
BY DEF PlotInv

LEMMA StreamInvInit == StreamInit => StreamInv
<1> SUFFICES ASSUME StreamInit PROVE StreamInv
  OBVIOUS
<1>1. conns = <<>> /\ Len(conns) = 0 /\ \A n \in 1..Len(conns) : FALSE
  BY EmptySeq DEF StreamInit
<1>2. \A c \in Clients : CallInv(c) /\ SocketInv(c)
  BY DEF StreamInit, CallInv, SocketInv
<1>3. ServiceInv
  BY DEF StreamInit, ServiceInv
<1> QED BY <1>1, <1>2, <1>3, StreamTypesInit DEF StreamInv

(* The conjuncts of the invariant, from its parts for each.                *)
LEMMA StreamInvTogether ==
    ASSUME StreamTypeOK', Len(conns') = Len(conns),
           \A c \in Clients : CallInv(c)' /\ SocketInv(c)',
           \A n \in 1..Len(conns) : FlowInv(n)' /\ PlotInv(n)',
           ServiceInv'
    PROVE  StreamInv'
BY DEF StreamInv

(* What the steps of a debugger leave alone.                               *)
LEMMA OthersKept ==
    ASSUME StreamInv, NEW c \in Clients, Len(conns') = Len(conns),
           UNCHANGED <<analyzer, plotterVars>>,
           \A b \in Clients : b # c =>
              /\ call'[b] = call[b] /\ d_samples'[b] = d_samples[b]
              /\ d_socket'[b] = d_socket[b],
           \A n \in 1..Len(conns) :
              /\ conns'[n].client = conns[n].client
              /\ conns'[n].end = conns[n].end
              /\ n # d_socket[c] =>
                    /\ conns'[n].stream = conns[n].stream
                    /\ conns'[n].records = conns[n].records
                    /\ conns'[n].complete = conns[n].complete,
           d_socket'[c] \in {0, d_socket[c]}
    PROVE  /\ \A b \in Clients : SocketInv(b)'
           /\ \A b \in Clients : b # c => CallInv(b)' /\ Owed(b)' = Owed(b)
           /\ \A n \in 1..Len(conns) : n # d_socket[c] => FlowInv(n)' /\ PlotInv(n)'
           /\ \A b \in Clients : b # c =>
                 d_socket[b] = 0 \/ d_socket[b] # d_socket[c]
           /\ ServiceInv'
<1>1. \A b \in Clients : d_socket[b] # 0 => d_socket[b] \in 1..Len(conns)
  BY DebuggerIsTyped DEF StreamInv
<1>2. \A b \in Clients : b # c => d_socket[b] = 0 \/ d_socket[b] # d_socket[c]
  BY DEF StreamInv, SocketInv
<1>3. ASSUME NEW b \in Clients PROVE SocketInv(b)'
  <2>1. CASE d_socket'[b] = d_socket[b]
    BY <1>1, <2>1, SocketKept DEF StreamInv
  <2>2. CASE d_socket'[b] = 0
    BY <2>2 DEF SocketInv
  <2> QED BY <2>1, <2>2
<1>4. ASSUME NEW b \in Clients, b # c PROVE CallInv(b)' /\ Owed(b)' = Owed(b)
  <2>1. d_socket[b] # 0 => conns'[d_socket[b]].records = conns[d_socket[b]].records
    BY <1>1, <1>2, <1>4
  <2> QED BY <1>4, <2>1, CallKept DEF StreamInv
<1>5. ASSUME NEW n \in 1..Len(conns), n # d_socket[c]
      PROVE  FlowInv(n)' /\ PlotInv(n)'
  <2>1. FlowInv(n) /\ PlotInv(n)
    BY DEF StreamInv
  <2>2. \A b \in Clients : d_socket'[b] = n => d_socket[b] = n /\ Owed(b)' = Owed(b)
    <3> SUFFICES ASSUME NEW b \in Clients, d_socket'[b] = n
                 PROVE  d_socket[b] = n /\ Owed(b)' = Owed(b)
      OBVIOUS
    <3>1. n # 0
      OBVIOUS
    <3>2. b # c
      BY <1>5, <3>1
    <3> QED BY <1>4, <3>2
  <2>3. /\ conns'[n].end = conns[n].end
        /\ conns'[n].stream = conns[n].stream
        /\ conns'[n].records = conns[n].records
        /\ conns'[n].complete = conns[n].complete
    BY <1>5
  <2>4. /\ UNCHANGED <<client_socket, state, data, data_len>> /\ plots'[n] = plots[n]
        /\ Live(n)' <=> Live(n)
    BY <2>3 DEF plotterVars, Live
  <2>5. FlowInv(n)'
    BY <2>1, <2>2, <2>3, <2>4, FlowKept
  <2> QED BY <2>1, <2>3, <2>4, <2>5, PlotKept
<1>6. ServiceInv'
  BY DEF StreamInv, ServiceInv, plotterVars
<1> QED BY <1>2, <1>3, <1>4, <1>5, <1>6

LEMMA AttachKeeps ==
    ASSUME StreamInv, NEW c \in Clients, Attach(c)
    PROVE  StreamInv'
<1>0. PICK n \in Nat : n = Len(conns)
  BY ConnectionsAreTyped DEF StreamInv
<1>1. /\ StreamTypeOK' /\ Len(conns') = n + 1 /\ d_socket'[c] = n + 1
      /\ \A m \in 1..n : conns'[m] = conns[m]
      /\ conns'[n + 1] = [client |-> c, stream |-> <<>>, open |-> TRUE,
                          end |-> "waiting", records |-> <<>>, complete |-> 0]
  BY <1>0, AttachTypes DEF StreamInv
<1>2. /\ call[c] = NoCall
      /\ UNCHANGED <<d_samples, stored, call, analyzer, plotterVars>>
      /\ \A b \in Clients : b # c => d_socket'[b] = d_socket[b]
      /\ n < MaxConnections
  BY <1>0 DEF Attach, StreamInv, StreamTypeOK
<1>3. n \in Nat /\ client_socket \in 0..n /\ MaxConnections \in Nat
      /\ \A b \in Clients : d_socket[b] \in 0..n /\ (d_socket[b] # 0 => d_socket[b] \in 1..n)
  BY <1>0, ConnectionsAreTyped, DebuggerIsTyped, SizesAreNumbers DEF StreamInv
<1>4. ASSUME NEW b \in Clients
      PROVE  CallInv(b)' /\ Owed(b)' = Owed(b)
  <2>1. CASE b = c
    BY <1>2, <2>1, CallKept DEF StreamInv
  <2>2. CASE b # c
    <3>1. d_socket[b] # 0 => conns'[d_socket[b]].records = conns[d_socket[b]].records
      BY <1>1, <1>3
    <3>2. call'[b] = call[b] /\ d_samples'[b] = d_samples[b] /\ d_socket'[b] = d_socket[b]
      BY <1>2, <2>2
    <3> QED BY <3>1, <3>2, CallKept DEF StreamInv
  <2> QED BY <2>1, <2>2
<1>5. ASSUME NEW b \in Clients
      PROVE  SocketInv(b)'
  <2>1. CASE b = c
    <3>1. conns'[n + 1].client = c
      BY <1>1
    <3>2. \A m \in 1..(n + 1) : ~ (m > n + 1)
      BY <1>3
    <3> QED BY <1>1, <2>1, <3>1, <3>2 DEF SocketInv
  <2>2. CASE b # c
    <3> SUFFICES ASSUME d_socket[b] # 0
                 PROVE  /\ conns'[d_socket[b]].client = b
                        /\ \A m \in 1..(n + 1) :
                              m > d_socket[b] => conns'[m].client # b
      BY <1>1, <1>2, <2>2 DEF SocketInv
    <3>1. /\ conns[d_socket[b]].client = b
          /\ \A m \in 1..n : m > d_socket[b] => conns[m].client # b
      BY <1>0 DEF StreamInv, SocketInv
    <3>2. conns'[n + 1].client # b
      BY <1>1, <2>2
    <3>3. \A m \in 1..(n + 1) : m \in 1..n \/ m = n + 1
      BY <1>3
    <3> QED BY <1>1, <1>3, <3>1, <3>2, <3>3
  <2> QED BY <2>1, <2>2
<1>6. ASSUME NEW m \in 1..n
      PROVE  FlowInv(m)' /\ PlotInv(m)'
  <2>1. m \in 1..Len(conns) /\ FlowInv(m) /\ PlotInv(m) /\ conns'[m] = conns[m]
    BY <1>0, <1>1 DEF StreamInv
  <2>2. \A b \in Clients : d_socket'[b] = m => d_socket[b] = m /\ Owed(b)' = Owed(b)
    <3>1. m # n + 1
      BY <1>3
    <3> QED BY <1>1, <1>2, <1>4, <3>1
  <2>3. FlowInv(m)'
    BY <1>2, <2>1, <2>2, FlowKept DEF plotterVars, Live
  <2> QED BY <1>2, <2>1, <2>3, PlotKept DEF plotterVars
<1>7. plots'[n + 1] = <<>> /\ Len(<<>>) = 0
  <2>1. n + 1 \in 1..MaxConnections /\ n + 1 > n
    BY <1>2, <1>3
  <2> QED BY <1>0, <1>2, <2>1, EmptySeq DEF StreamInv, ServiceInv, plotterVars
<1>8. FlowInv(n + 1)'
  <2>1. client_socket' # n + 1
    BY <1>2, <1>3 DEF plotterVars
  <2>2. /\ OnTheWay(n + 1)' = <<>> /\ StateOf(n + 1)' = "READ_HEADER"
        /\ conns'[n + 1].records = <<>> /\ conns'[n + 1].complete = 0
    BY <1>1, <2>1 DEF OnTheWay, StateOf
  <2>3. PICK from : Flow(<<>>, <<>>, 0, "READ_HEADER", LengthOf(n + 1)', from, 0)
    BY FlowStarts
  <2>4. ASSUME NEW b \in Clients, d_socket'[b] = n + 1 PROVE 0 = Owed(b)'
    <3>1. b = c
      BY <1>2, <1>3, <2>4
    <3> QED BY <1>2, <1>4, <3>1 DEF Owed
  <2>5. FlowOf(n + 1, from, 0)'
    BY <1>7, <2>2, <2>3, <2>4 DEF FlowOf
  <2> QED BY <2>5 DEF FlowInv
<1>9. PlotInv(n + 1)'
  <2>1. Len(conns'[n + 1].records) = 0 /\ conns'[n + 1].complete = 0
    BY <1>1, EmptySeq
  <2> QED BY <1>7, <2>1 DEF PlotInv
<1>10. ServiceInv'
  BY <1>0, <1>1, <1>2, <1>3 DEF StreamInv, ServiceInv, plotterVars
<1>11. \A m \in 1..(n + 1) : m \in 1..n \/ m = n + 1
  BY <1>3
<1> QED BY <1>1, <1>4, <1>5, <1>6, <1>8, <1>9, <1>10, <1>11 DEF StreamInv

LEMMA AttachRefusedKeeps ==
    ASSUME StreamInv, NEW c \in Clients, AttachRefused(c)
    PROVE  StreamInv'
<1>1. /\ call[c] = NoCall /\ d_socket' = [d_socket EXCEPT ![c] = 0]
      /\ UNCHANGED <<d_attached, d_samples, stored, call, conns, analyzer, plotterVars>>
  BY DEF AttachRefused
<1>2. /\ d_socket'[c] = 0 /\ \A b \in Clients : b # c => d_socket'[b] = d_socket[b]
  BY <1>1 DEF StreamInv, StreamTypeOK
<1>3. StreamTypeOK'
  BY AttachRefusedTypes DEF StreamInv
<1>4. /\ \A b \in Clients : SocketInv(b)'
      /\ \A b \in Clients : b # c => CallInv(b)' /\ Owed(b)' = Owed(b)
      /\ \A n \in 1..Len(conns) : n # d_socket[c] => FlowInv(n)' /\ PlotInv(n)'
      /\ \A b \in Clients : b # c => d_socket[b] = 0 \/ d_socket[b] # d_socket[c]
      /\ ServiceInv'
  BY <1>1, <1>2, OthersKept
<1>5. CallInv(c)'
  BY <1>1 DEF CallInv
<1>6. ASSUME NEW n \in 1..Len(conns), n = d_socket[c]
      PROVE  FlowInv(n)' /\ PlotInv(n)'
  <2>1. FlowInv(n) /\ PlotInv(n) /\ n # 0
    BY DEF StreamInv
  <2>2. \A b \in Clients : d_socket'[b] # n
    BY <1>2, <1>4, <1>6, <2>1
  <2>3. FlowInv(n)'
    BY <1>1, <2>1, <2>2, FlowKept DEF plotterVars, Live
  <2> QED BY <1>1, <2>1, <2>3, PlotKept DEF plotterVars
<1> QED BY <1>1, <1>3, <1>4, <1>5, <1>6, StreamInvTogether

LEMMA DetachKeeps ==
    ASSUME StreamInv, NEW c \in Clients, Detach(c)
    PROVE  StreamInv'
<1>1. /\ StreamTypeOK' /\ OnlyOpenChanged
      /\ UNCHANGED <<d_socket, d_samples, stored, call, analyzer, plotterVars>>
  BY DetachTypes DEF StreamInv, Detach
<1>2. \A b \in Clients : d_socket[b] # 0 => d_socket[b] \in 1..Len(conns)
  BY DebuggerIsTyped DEF StreamInv
<1>3. ASSUME NEW b \in Clients
      PROVE  CallInv(b)' /\ Owed(b)' = Owed(b) /\ SocketInv(b)'
  <2>1. d_socket[b] # 0 => conns'[d_socket[b]].records = conns[d_socket[b]].records
    BY <1>1, <1>2 DEF OnlyOpenChanged
  <2>2. CallInv(b)' /\ Owed(b)' = Owed(b)
    BY <1>1, <2>1, CallKept DEF StreamInv
  <2> QED BY <1>1, <1>2, <2>2, SocketKept DEF StreamInv, OnlyOpenChanged
<1>4. ASSUME NEW n \in 1..Len(conns)
      PROVE  FlowInv(n)' /\ PlotInv(n)'
  <2>1. FlowInv(n) /\ PlotInv(n)
    BY DEF StreamInv
  <2>2. FlowInv(n)'
    BY <1>1, <1>3, <2>1, FlowKept DEF OnlyOpenChanged, plotterVars, Live
  <2> QED BY <1>1, <2>1, <2>2, PlotKept DEF OnlyOpenChanged, plotterVars
<1>5. ServiceInv'
  BY <1>1 DEF StreamInv, ServiceInv, OnlyOpenChanged, plotterVars
<1> QED BY <1>1, <1>3, <1>4, <1>5, StreamInvTogether DEF OnlyOpenChanged

LEMMA StoreKeeps ==
    ASSUME StreamInv, NEW c \in Clients, store_samples(c)
    PROVE  StreamInv'
<1>1. /\ call[c] = NoCall
      /\ UNCHANGED <<d_attached, d_socket, call, conns, analyzer, plotterVars>>
      /\ \A b \in Clients : b # c => d_samples'[b] = d_samples[b]
  BY DEF store_samples, StreamInv, StreamTypeOK
<1>2. StreamTypeOK'
  BY StoreTypes DEF StreamInv
<1>3. /\ \A b \in Clients : SocketInv(b)'
      /\ \A b \in Clients : b # c => CallInv(b)' /\ Owed(b)' = Owed(b)
      /\ \A n \in 1..Len(conns) : n # d_socket[c] => FlowInv(n)' /\ PlotInv(n)'
      /\ ServiceInv'
  BY <1>1, OthersKept
<1>4. CallInv(c)' /\ Owed(c)' = Owed(c)
  BY <1>1, CallKept DEF StreamInv
<1>5. ASSUME NEW n \in 1..Len(conns)
      PROVE  FlowInv(n)' /\ PlotInv(n)'
  <2>1. FlowInv(n) /\ PlotInv(n)
    BY DEF StreamInv
  <2>2. FlowInv(n)'
    BY <1>1, <1>3, <1>4, <2>1, FlowKept DEF plotterVars, Live
  <2> QED BY <1>1, <2>1, <2>2, PlotKept DEF plotterVars
<1> QED BY <1>1, <1>2, <1>3, <1>4, <1>5, StreamInvTogether

LEMMA DebuggerEndsKeeps ==
    ASSUME StreamInv, NEW c \in Clients, DebuggerEnds(c)
    PROVE  StreamInv'
<1>1. /\ StreamTypeOK' /\ OnlyOpenChanged
  BY DebuggerEndsTypes DEF StreamInv
<1>2. /\ d_socket'[c] = 0 /\ call'[c] = NoCall
      /\ \A b \in Clients : b # c =>
            /\ call'[b] = call[b] /\ d_samples'[b] = d_samples[b]
            /\ d_socket'[b] = d_socket[b]
      /\ UNCHANGED <<stored, analyzer, plotterVars>>
  BY DEF DebuggerEnds, StreamInv, StreamTypeOK
<1>3. /\ \A b \in Clients : SocketInv(b)'
      /\ \A b \in Clients : b # c => CallInv(b)' /\ Owed(b)' = Owed(b)
      /\ \A n \in 1..Len(conns) : n # d_socket[c] => FlowInv(n)' /\ PlotInv(n)'
      /\ \A b \in Clients : b # c => d_socket[b] = 0 \/ d_socket[b] # d_socket[c]
      /\ ServiceInv'
  BY <1>1, <1>2, OthersKept DEF OnlyOpenChanged
<1>4. CallInv(c)'
  BY <1>2 DEF CallInv
<1>5. ASSUME NEW n \in 1..Len(conns), n = d_socket[c]
      PROVE  FlowInv(n)' /\ PlotInv(n)'
  <2>1. FlowInv(n) /\ PlotInv(n) /\ n # 0
    BY DEF StreamInv
  <2>2. \A b \in Clients : d_socket'[b] # n
    BY <1>2, <1>3, <1>5, <2>1
  <2>3. FlowInv(n)'
    BY <1>1, <1>2, <2>1, <2>2, FlowKept DEF plotterVars, Live, OnlyOpenChanged
  <2> QED BY <1>1, <1>2, <2>1, <2>3, PlotKept DEF plotterVars, OnlyOpenChanged
<1> QED BY <1>1, <1>3, <1>4, <1>5, StreamInvTogether DEF OnlyOpenChanged

(* The header, the payload, and what is left behind the first k bytes.     *)
LEMMA PendingStarts ==
    ASSUME NEW samples \in Seq(1..MaxSamples)
    PROVE  /\ Pending(Header(Size(samples)), samples, HeaderBytes + Size(samples))
           /\ Len(Header(Size(samples))) = HeaderBytes
           /\ samples # <<>> => Pending(Bytes(samples), samples, Size(samples))
<1> DEFINE h == Header(Size(samples))
           b == Bytes(samples)
           e == EncodedLen(samples)
<1>1. /\ Size(samples) \in Nat /\ h \in Seq(Piece) /\ Len(h) = HeaderBytes
      /\ b \in Seq(Piece) /\ Len(b) = Size(samples)
      /\ samples # <<>> => Size(samples) > 0
  BY SizeIsNumber, HeaderFacts, BytesFacts
<1>2. /\ e = HeaderBytes + Size(samples) /\ e \in Nat
      /\ \A j \in 1..HeaderBytes : Encoded(samples)[j] = h[j]
      /\ \A j \in 1..Size(samples) : Encoded(samples)[HeaderBytes + j] = b[j]
  BY EncodedFacts DEF EncodedLen
<1> HIDE DEF h, b, e
<1>3. Pending(h, samples, e)
  <2>1. \A i \in 1..HeaderBytes : e - e + i = i
    BY <1>2, SizesAreNumbers
  <2>2. e \in 1..e /\ HeaderBytes \in 1..e
    BY <1>1, <1>2, SizesAreNumbers
  <2> QED BY <1>1, <1>2, <2>1, <2>2 DEF Pending, e
<1>4. ASSUME samples # <<>> PROVE Pending(b, samples, Size(samples))
  <2>1. e - Size(samples) = HeaderBytes
    BY <1>1, <1>2, SizesAreNumbers
  <2>2. Size(samples) \in 1..e
    BY <1>1, <1>2, <1>4, SizesAreNumbers
  <2>3. Size(samples) \in 1..Size(samples)
    BY <1>1, <1>4
  <2> QED BY <1>1, <1>2, <2>1, <2>2, <2>3 DEF Pending, e
<1> QED BY <1>1, <1>2, <1>3, <1>4 DEF h, b

LEMMA PendingRest ==
    ASSUME NEW samples \in Seq(1..MaxSamples), NEW owed \in Nat, NEW rest,
           Pending(rest, samples, owed), NEW k \in 1..Len(rest), k # Len(rest)
    PROVE  /\ Pending(SubSeq(rest, k + 1, Len(rest)), samples, owed - k)
           /\ Len(SubSeq(rest, k + 1, Len(rest))) = Len(rest) - k
<1> DEFINE t == SubSeq(rest, k + 1, Len(rest))
           e == EncodedLen(samples)
           l == Len(rest)
<1>1. /\ rest \in Seq(Piece) /\ l \in Nat /\ l \in 1..owed /\ owed \in 1..e
      /\ \A i \in 1..l : rest[i] = Encoded(samples)[e - owed + i]
  BY LenProperties DEF Pending
<1>2. k \in 0..l /\ k \in Nat /\ k >= 1 /\ k < l /\ e \in Nat
  BY <1>1, EncodedFacts
<1>3. /\ t \in Seq(Piece) /\ Len(t) = l - k
      /\ \A i \in 1..(l - k) : t[i] = rest[k + i]
  BY <1>1, <1>2, CutSequence
<1> HIDE DEF t, e, l
<1>4. ASSUME NEW i \in 1..Len(t)
      PROVE  t[i] = Encoded(samples)[e - (owed - k) + i]
  <2>1. i \in 1..(l - k) /\ k + i \in 1..l
    BY <1>1, <1>2, <1>3
  <2>2. e - owed + (k + i) = e - (owed - k) + i
    BY <1>1, <1>2, <2>1
  <2>3. rest[k + i] = Encoded(samples)[e - owed + (k + i)]
    BY <1>1, <2>1
  <2> QED BY <1>3, <2>1, <2>2, <2>3
<1>5. owed - k \in 1..e /\ Len(t) \in 1..(owed - k)
  BY <1>1, <1>2, <1>3
<1>6. Pending(t, samples, owed - k)
  BY <1>3, <1>4, <1>5 DEF Pending, e
<1> QED BY <1>3, <1>6 DEF t, l

LEMMA AnalyzeKeeps ==
    ASSUME StreamInv, NEW c \in Clients, NEW clear \in BOOLEAN,
           analyze_samples(c, clear)
    PROVE  StreamInv'
<1> DEFINE r == [samples |-> d_samples[c], clear |-> clear]
           size == Size(d_samples[c])
<1>1. /\ StreamTypeOK' /\ Len(conns') = Len(conns) /\ r \in Record
      /\ \A n \in 1..Len(conns) :
            /\ n # d_socket[c] => conns'[n] = conns[n]
            /\ n = d_socket[c] => conns'[n] =
                  [conns[n] EXCEPT !.records = Append(@, r)]
  BY AnalyzeTypes DEF StreamInv
<1>2. /\ call[c] = NoCall
      /\ call'[c] = [phase |-> "header", taken |-> 0, clear |-> clear,
                     rest |-> Header(size)]
      /\ \A b \in Clients : b # c => call'[b] = call[b]
      /\ UNCHANGED <<d_attached, d_socket, d_samples, stored, analyzer, plotterVars>>
  BY DEF analyze_samples, StreamInv, StreamTypeOK, Size
<1>3. /\ d_samples[c] \in Seq(1..MaxSamples) /\ size \in Nat
      /\ d_socket[c] # 0 => d_socket[c] \in 1..Len(conns)
  BY DebuggerIsTyped, SizeIsNumber DEF StreamInv
<1> HIDE DEF size
<1>4. ASSUME NEW n \in 1..Len(conns)
      PROVE  /\ conns'[n].client = conns[n].client
             /\ conns'[n].end = conns[n].end
             /\ conns'[n].stream = conns[n].stream
             /\ conns'[n].complete = conns[n].complete
             /\ n # d_socket[c] => conns'[n].records = conns[n].records
             /\ n = d_socket[c] => conns'[n].records = Append(conns[n].records, r)
  <2> HIDE DEF r
  <2>1. conns[n] \in Connection
    BY ConnectionsAreTyped DEF StreamInv
  <2>2. CASE n # d_socket[c]
    BY <1>1, <2>2
  <2>3. CASE n = d_socket[c]
    <3>1. conns'[n] = [conns[n] EXCEPT !.records = Append(@, r)]
      BY <1>1, <2>3
    <3> QED BY <2>1, <2>3, <3>1 DEF Connection
  <2> QED BY <2>2, <2>3
<1>5. /\ \A b \in Clients : SocketInv(b)'
      /\ \A b \in Clients : b # c => CallInv(b)' /\ Owed(b)' = Owed(b)
      /\ \A n \in 1..Len(conns) : n # d_socket[c] => FlowInv(n)' /\ PlotInv(n)'
      /\ \A b \in Clients : b # c => d_socket[b] = 0 \/ d_socket[b] # d_socket[c]
      /\ ServiceInv'
  BY <1>1, <1>2, <1>4, OthersKept
<1>6. /\ Owed(c)' = EncodedLen(d_samples[c]) /\ Owed(c) = 0
      /\ Owed(c)' = HeaderBytes + size
  <2>1. Len(Header(size)) = HeaderBytes
    BY <1>3, HeaderFacts
  <2>2. call'[c] # NoCall
    BY <1>2 DEF NoCall
  <2> QED BY <1>2, <2>1, <2>2 DEF Owed, EncodedLen, size
<1>7. CallInv(c)'
  <2>1. Pending(Header(size), d_samples[c], HeaderBytes + size)
    BY <1>3, PendingStarts DEF size
  <2>2. Pending(call[c].rest, d_samples[c], Owed(c))'
    BY <1>2, <1>6, <2>1 DEF Pending
  <2>3. ASSUME d_socket[c] # 0
        PROVE  /\ conns'[d_socket[c]].records # <<>>
               /\ conns'[d_socket[c]].records[Len(conns'[d_socket[c]].records)] = r
    <3> DEFINE n == d_socket[c]
               records == conns[n].records
    <3>1. n \in 1..Len(conns) /\ conns'[n].records = Append(records, r)
      BY <1>3, <1>4, <2>3
    <3>2. records \in Seq(Record)
      BY <3>1, ConnectionsAreTyped, ConnectionIsTyped DEF StreamInv
    <3> HIDE DEF r, n, records
    <3>3. /\ Len(Append(records, r)) = Len(records) + 1 /\ Len(records) \in Nat
          /\ Append(records, r)[Len(records) + 1] = r
      BY <1>1, <3>2, AppendProperties, LenProperties
    <3> QED BY <3>1, <3>3, EmptySeq DEF n
  <2> QED BY <1>2, <2>2, <2>3 DEF CallInv
<1>8. ASSUME NEW n \in 1..Len(conns), n = d_socket[c]
      PROVE  FlowInv(n)' /\ PlotInv(n)'
  <2> DEFINE records == conns[n].records
  <2>1. /\ FlowInv(n) /\ PlotInv(n)
        /\ conns[n].stream \in Seq(Piece) /\ records \in Seq(Record)
        /\ conns[n].complete \in Nat /\ Len(records) \in Nat
    BY ConnectionsAreTyped, ConnectionIsTyped DEF StreamInv
  <2>2. /\ data \in Seq(Piece) /\ data_len \in Nat /\ plots[n] \in Seq(Seq(Piece))
        /\ Len(plots[n]) \in Nat
    BY ConnectionsAreTyped, LenProperties DEF StreamInv
  <2>3. /\ Append(records, r) \in Seq(Record)
        /\ Len(Append(records, r)) = Len(records) + 1
        /\ \A k \in 1..Len(records) : Append(records, r)[k] = records[k]
    BY <1>1, <2>1, AppendProperties
  <2>4. conns'[n].records = Append(records, r)
    BY <1>4, <1>8
  <2> HIDE DEF records, r
  <2>5. FlowInv(n)'
    <3> SUFFICES ASSUME Live(n)'
                 PROVE  \E from : \E owed \in Nat : FlowOf(n, from, owed)'
      BY DEF FlowInv
    <3>1. Live(n)
      BY <1>4 DEF Live
    <3>2. PICK from : \E owed \in Nat : FlowOf(n, from, owed)
      BY <2>1, <3>1 DEF FlowInv
    <3>3. FlowOf(n, from, 0)
      BY <1>6, <1>8, <3>2 DEF FlowOf
    <3>4. /\ OnTheWay(n)' = OnTheWay(n) /\ StateOf(n)' = StateOf(n)
          /\ LengthOf(n)' = LengthOf(n) /\ plots'[n] = plots[n]
      BY <1>2, <1>4 DEF OnTheWay, StateOf, LengthOf, plotterVars
    <3>5. /\ OnTheWay(n) \in Seq(Piece) /\ LengthOf(n) \in Nat
      BY <2>1, <2>2, ConcatProperties DEF OnTheWay, LengthOf
    <3>6. Flow(records, OnTheWay(n), Len(plots[n]), StateOf(n), LengthOf(n), from, 0)
      BY <3>3 DEF FlowOf, records
    <3>7. PICK g : Flow(Append(records, r), OnTheWay(n), Len(plots[n]),
                        StateOf(n), LengthOf(n), g, EncodedLen(r.samples))
      BY <1>1, <2>1, <2>2, <3>5, <3>6, FlowCalls
    <3>8. PICK owed \in Nat : EncodedLen(r.samples) = owed /\ owed = Owed(c)' /\ owed # 0
      <4>1. HeaderBytes + size \in Nat /\ HeaderBytes + size # 0
        BY <1>3, SizesAreNumbers
      <4>2. r.samples = d_samples[c]
        BY DEF r
      <4> QED BY <1>6, <4>1, <4>2
    <3>9. conns'[n].complete = Len(Append(records, r)) - 1
      <4>1. conns[n].complete = Len(records)
        BY <2>1, <3>3 DEF FlowOf, records
      <4> QED BY <1>4, <2>1, <2>3, <4>1
    <3>10. \A b \in Clients : d_socket'[b] = n => b = c
      BY <1>2, <1>5, <1>8
    <3>11. FlowOf(n, g, owed)'
      BY <2>4, <3>4, <3>7, <3>8, <3>9, <3>10 DEF FlowOf
    <3> QED BY <3>8, <3>11
  <2>6. PlotInv(n)'
    <3>1. /\ Len(plots[n]) <= conns[n].complete /\ conns[n].complete <= Len(records)
          /\ \A k \in 1..Len(plots[n]) : plots[n][k] = Bytes(records[k].samples)
          /\ conns[n].end = "waiting" => plots[n] = <<>>
      BY <2>1 DEF PlotInv, records
    <3>2. \A k \in 1..Len(plots[n]) : k \in 1..Len(records)
      BY <2>1, <2>2, <3>1
    <3>3. plots'[n] = plots[n]
      BY <1>2 DEF plotterVars
    <3> QED BY <1>4, <2>1, <2>2, <2>3, <2>4, <3>1, <3>2, <3>3 DEF PlotInv
  <2> QED BY <2>5, <2>6
<1> QED BY <1>1, <1>5, <1>7, <1>8, StreamInvTogether

(* send() took the last byte of what it was given: on to the payload, or   *)
(* the record is complete.                                                 *)
LEMMA SentPending ==
    ASSUME StreamTypeOK, NEW c \in Clients, CallInv(c), call[c] # NoCall, Sent(c)
    PROVE  /\ call[c].phase \in {"header", "payload"}
           /\ call'[c] # NoCall =>
                 /\ call[c].phase = "header" /\ Size(d_samples[c]) > 0
                 /\ call'[c].phase = "payload" /\ call'[c].clear = call[c].clear
                 /\ d_samples'[c] = d_samples[c]
                 /\ Pending(call'[c].rest, d_samples[c], Size(d_samples[c]))
                 /\ Owed(c)' = Size(d_samples[c])
           /\ call'[c] = NoCall =>
                 /\ Owed(c)' = 0
                 /\ call[c].phase = "header" => Size(d_samples[c]) = 0
<1>1. d_samples[c] \in Seq(1..MaxSamples) /\ call[c].phase \in {"header", "payload"}
  BY DebuggerIsTyped DEF CallInv
<1>2. CASE call[c].phase = "header" /\ d_samples[c] # <<>>
  <2>1. /\ call'[c] = [phase |-> "payload", rest |-> Bytes(d_samples[c]),
                       taken |-> 0, clear |-> call[c].clear]
        /\ d_samples'[c] = d_samples[c]
    BY <1>2, SentTypes
  <2>2. call'[c] # NoCall
    BY <2>1 DEF NoCall
  <2>3. /\ Pending(Bytes(d_samples[c]), d_samples[c], Size(d_samples[c]))
        /\ Size(d_samples[c]) > 0 /\ Size(d_samples[c]) \in Nat
        /\ Len(Bytes(d_samples[c])) = Size(d_samples[c])
    BY <1>1, <1>2, PendingStarts, SizeIsNumber, BytesFacts
  <2>4. Owed(c)' = Size(d_samples[c])
    BY <2>1, <2>2, <2>3 DEF Owed
  <2> QED BY <1>1, <1>2, <2>1, <2>2, <2>3, <2>4
<1>3. CASE ~ (call[c].phase = "header" /\ d_samples[c] # <<>>)
  <2>1. call'[c] = NoCall
    BY <1>3, SentTypes
  <2>2. Owed(c)' = 0
    BY <2>1 DEF Owed
  <2>3. call[c].phase = "header" => Size(d_samples[c]) = 0
    BY <1>1, <1>3, SizeIsNumber
  <2> QED BY <1>1, <2>1, <2>2, <2>3
<1> QED BY <1>2, <1>3

LEMMA SendOwes ==
    ASSUME StreamTypeOK, NEW c \in Clients, CallInv(c), NEW k, SendTakes(c, k)
    PROVE  /\ Owed(c) \in Nat /\ k \in Nat /\ k > 0 /\ k <= Owed(c)
           /\ Owed(c)' = Owed(c) - k
           /\ call'[c] = NoCall <=> Owed(c) = k
           /\ call'[c] # NoCall =>
                 /\ call'[c].phase \in {"header", "payload"}
                 /\ call'[c].clear = call[c].clear
                 /\ d_samples'[c] = d_samples[c]
                 /\ Pending(call'[c].rest, d_samples[c], Owed(c) - k)
<1> DEFINE rest == call[c].rest
           samples == d_samples[c]
           size == IF call[c].phase = "header" THEN Size(samples) ELSE 0
<1>1. /\ k \in 1..Len(rest) /\ call[c] # NoCall
      /\ k = Len(rest) => Sent(c)
  BY DEF SendTakes
<1>2. /\ samples \in Seq(1..MaxSamples) /\ Len(rest) \in Nat /\ call[c] \in Call
  BY DebuggerIsTyped
<1>3. /\ Pending(rest, samples, Owed(c)) /\ call[c].phase \in {"header", "payload"}
      /\ Owed(c) = Len(rest) + size /\ size \in Nat
  BY <1>1, <1>2, SizeIsNumber DEF CallInv, Owed
<1>4. /\ Owed(c) \in Nat /\ k \in Nat /\ k > 0 /\ k <= Len(rest) /\ k <= Owed(c)
  <2> HIDE DEF rest, size
  <2> QED BY <1>1, <1>2, <1>3
<1>5. CASE k = Len(rest)
  <2>1. Sent(c)
    BY <1>1, <1>5
  <2>2. /\ call'[c] # NoCall =>
              /\ call[c].phase = "header" /\ Size(samples) > 0
              /\ call'[c].phase = "payload" /\ call'[c].clear = call[c].clear
              /\ d_samples'[c] = samples
              /\ Pending(call'[c].rest, samples, Size(samples))
              /\ Owed(c)' = Size(samples)
        /\ call'[c] = NoCall =>
              /\ Owed(c)' = 0
              /\ call[c].phase = "header" => Size(samples) = 0
    BY <1>1, <2>1, SentPending
  <2>3. call'[c] # NoCall => size = Size(samples) /\ size > 0
    BY <2>2
  <2>4. call'[c] = NoCall => size = 0
    BY <2>2
  <2>5. Owed(c) - k = size
    <3> HIDE DEF rest, size
    <3> QED BY <1>2, <1>3, <1>5
  <2>6. call'[c] = NoCall <=> Owed(c) = k
    <3> HIDE DEF rest, size
    <3> QED BY <1>2, <1>3, <1>4, <1>5, <2>3, <2>4
  <2>7. Owed(c)' = Owed(c) - k
    BY <2>2, <2>3, <2>4, <2>5
  <2>8. call'[c] # NoCall =>
           /\ call'[c].phase \in {"header", "payload"}
           /\ call'[c].clear = call[c].clear
           /\ d_samples'[c] = d_samples[c]
           /\ Pending(call'[c].rest, d_samples[c], Owed(c) - k)
    BY <2>2, <2>3, <2>5
  <2> QED BY <1>4, <2>6, <2>7, <2>8
<1>6. CASE k # Len(rest)
  <2> DEFINE t == SubSeq(rest, k + 1, Len(rest))
  <2>1. /\ call'[c] = [call[c] EXCEPT !.rest = t, !.taken = @ + k]
        /\ d_samples'[c] = samples
    BY <1>6, SendTypes
  <2>2. Pending(t, samples, Owed(c) - k) /\ Len(t) = Len(rest) - k
    BY <1>1, <1>2, <1>3, <1>4, <1>6, PendingRest
  <2> HIDE DEF t
  <2>3. /\ call'[c].phase = call[c].phase /\ call'[c].clear = call[c].clear
        /\ call'[c].rest = t
    BY <1>2, <2>1 DEF Call
  <2>4. call'[c] # NoCall
    BY <1>3, <2>3 DEF NoCall
  <2>5. Owed(c)' = Len(t) + size
    BY <2>1, <2>3, <2>4 DEF Owed
  <2>6. Owed(c)' = Owed(c) - k /\ Owed(c) # k
    <3> HIDE DEF rest, size
    <3> QED BY <1>1, <1>2, <1>3, <1>4, <1>6, <2>2, <2>5
  <2> QED BY <1>3, <1>4, <2>1, <2>2, <2>3, <2>4, <2>6
<1> QED BY <1>5, <1>6

LEMMA SendKeeps ==
    ASSUME StreamInv, NEW c \in Clients, NEW k, SendTakes(c, k)
    PROVE  StreamInv'
<1> DEFINE n == d_socket[c]
           rest == call[c].rest
           records == conns[n].records
           stream == conns[n].stream
<1>1. /\ n \in 1..Len(conns) /\ k \in 1..Len(rest) /\ call[c] # NoCall
      /\ UNCHANGED <<d_attached, d_socket, stored, analyzer, plotterVars>>
  BY DEF SendTakes
<1>2. /\ StreamTypeOK' /\ Len(conns') = Len(conns)
      /\ \A m \in 1..Len(conns) : m # n => conns'[m] = conns[m]
      /\ conns'[n] = [conns[n] EXCEPT
            !.stream = @ \o SubSeq(rest, 1, k),
            !.complete = IF call'[c] = NoCall THEN @ + 1 ELSE @]
      /\ \A b \in Clients : b # c => call'[b] = call[b]
                                     /\ d_samples'[b] = d_samples[b]
  BY SendTypes DEF StreamInv
<1>3. /\ Owed(c) \in Nat /\ k \in Nat /\ k > 0 /\ k <= Owed(c)
      /\ Owed(c)' = Owed(c) - k
      /\ call'[c] = NoCall <=> Owed(c) = k
      /\ call'[c] # NoCall =>
            /\ call'[c].phase \in {"header", "payload"}
            /\ call'[c].clear = call[c].clear
            /\ d_samples'[c] = d_samples[c]
            /\ Pending(call'[c].rest, d_samples[c], Owed(c) - k)
  BY SendOwes DEF StreamInv
<1>4. /\ conns[n] \in Connection /\ records \in Seq(Record) /\ stream \in Seq(Piece)
      /\ conns[n].complete \in Nat /\ Len(records) \in Nat
  BY <1>1, ConnectionsAreTyped, ConnectionIsTyped DEF StreamInv
<1>5. /\ conns'[n].client = conns[n].client
      /\ conns'[n].end = conns[n].end
      /\ conns'[n].records = records
      /\ conns'[n].stream = stream \o SubSeq(rest, 1, k)
      /\ conns'[n].complete =
            IF call'[c] = NoCall THEN conns[n].complete + 1 ELSE conns[n].complete
  <2> HIDE DEF n, rest
  <2> QED BY <1>2, <1>4 DEF Connection
<1>6. /\ \A b \in Clients : SocketInv(b)'
      /\ \A b \in Clients : b # c => CallInv(b)' /\ Owed(b)' = Owed(b)
      /\ \A m \in 1..Len(conns) : m # n => FlowInv(m)' /\ PlotInv(m)'
      /\ \A b \in Clients : b # c => d_socket[b] = 0 \/ d_socket[b] # n
      /\ ServiceInv'
  <2>1. \A m \in 1..Len(conns) :
           /\ conns'[m].client = conns[m].client
           /\ conns'[m].end = conns[m].end
           /\ m # n => /\ conns'[m].stream = conns[m].stream
                       /\ conns'[m].records = conns[m].records
                       /\ conns'[m].complete = conns[m].complete
    BY <1>2, <1>5
  <2> QED BY <1>1, <1>2, <2>1, OthersKept
<1>7. /\ Pending(rest, d_samples[c], Owed(c))
      /\ records # <<>>
      /\ records[Len(records)] = [samples |-> d_samples[c], clear |-> call[c].clear]
  BY <1>1 DEF StreamInv, CallInv
<1>8. CallInv(c)'
  BY <1>1, <1>3, <1>5, <1>7 DEF CallInv
<1> HIDE DEF rest
<1>9. PICK from : \E owed \in Nat : FlowOf(n, from, owed)
  BY <1>1 DEF StreamInv, FlowInv, SendTakes, Live
<1>10. FlowOf(n, from, Owed(c))
  BY <1>9 DEF FlowOf
<1>11. conns[n].complete = Len(records) - 1
  <2>1. conns[n].complete = Len(records) - (IF Owed(c) = 0 THEN 0 ELSE 1)
    BY <1>10 DEF FlowOf
  <2>2. Owed(c) # 0
    BY <1>3
  <2> QED BY <2>1, <2>2
<1>12. FlowInv(n)'
  <2>1. /\ Flow(records, OnTheWay(n), Len(plots[n]), StateOf(n), LengthOf(n),
                from, Owed(c))
    BY <1>10 DEF FlowOf
  <2>2. /\ OnTheWay(n) \in Seq(Piece) /\ LengthOf(n) \in Nat
        /\ Len(plots[n]) \in Nat
    BY <1>1, <1>4, ConnectionsAreTyped, ConcatProperties, LenProperties
       DEF StreamInv, OnTheWay, LengthOf
  <2>3. Pending(rest, records[Len(records)].samples, Owed(c))
    BY <1>7
  <2>4. Flow(records, OnTheWay(n) \o SubSeq(rest, 1, k), Len(plots[n]), StateOf(n),
             LengthOf(n), from, Owed(c) - k)
    BY <1>1, <1>3, <1>4, <1>7, <2>1, <2>2, <2>3, FlowSends DEF rest
  <2>5. OnTheWay(n)' = OnTheWay(n) \o SubSeq(rest, 1, k)
    <3>1. data \in Seq(Piece) /\ rest \in Seq(Piece) /\ Len(rest) \in Nat
      BY ConnectionsAreTyped, DebuggerIsTyped DEF StreamInv, rest
    <3>2. SubSeq(rest, 1, k) \in Seq(Piece)
      <4>1. k \in 0..Len(rest)
        BY <1>1, <1>3, <3>1 DEF rest
      <4> QED BY <3>1, <4>1, CutSequence
    <3>3. (data \o stream) \o SubSeq(rest, 1, k) = data \o (stream \o SubSeq(rest, 1, k))
      <4> DEFINE t == SubSeq(rest, 1, k)
      <4>1. data \in Seq(Piece) /\ stream \in Seq(Piece) /\ t \in Seq(Piece)
        BY <1>4, <3>1, <3>2
      <4> HIDE DEF t, stream
      <4>2. (data \o stream) \o t = data \o (stream \o t)
        BY <4>1, ConcatAssociative
      <4> QED BY <4>2 DEF t, stream
    <3> QED BY <1>1, <1>5, <3>3 DEF OnTheWay, plotterVars
  <2>6. /\ StateOf(n)' = StateOf(n) /\ LengthOf(n)' = LengthOf(n)
        /\ plots'[n] = plots[n]
    BY <1>1 DEF StateOf, LengthOf, plotterVars
  <2>7. conns'[n].complete = Len(records) - (IF Owed(c) - k = 0 THEN 0 ELSE 1)
    <3>1. CASE Owed(c) = k
      <4>1. Owed(c) - k = 0 /\ call'[c] = NoCall
        BY <1>3, <3>1
      <4>2. conns'[n].complete = (Len(records) - 1) + 1
        BY <1>5, <1>11, <4>1
      <4>3. (Len(records) - 1) + 1 = Len(records) - 0
        BY <1>4
      <4> QED BY <4>1, <4>2, <4>3
    <3>2. CASE Owed(c) # k
      <4>1. Owed(c) - k # 0 /\ call'[c] # NoCall
        BY <1>3, <3>2
      <4> QED BY <1>5, <1>11, <4>1
    <3> QED BY <3>1, <3>2
  <2>8. PICK owed \in Nat : owed = Owed(c) - k /\ owed = Owed(c)'
    BY <1>3
  <2>9. \A b \in Clients : d_socket'[b] = n => owed = Owed(b)'
    BY <1>1, <1>6, <2>8
  <2>10. FlowOf(n, from, owed)'
    BY <1>1, <1>5, <2>4, <2>5, <2>6, <2>7, <2>8, <2>9 DEF FlowOf
  <2> QED BY <1>1, <2>10 DEF FlowInv
<1>13. PlotInv(n)'
  <2>1. PlotInv(n)
    BY <1>1 DEF StreamInv
  <2>2. plots'[n] = plots[n] /\ Len(plots[n]) \in Nat
    BY <1>1, ConnectionsAreTyped, LenProperties DEF StreamInv, plotterVars
  <2>3. Len(plots[n]) <= conns[n].complete
    BY <2>1 DEF PlotInv
  <2> DEFINE before == conns[n].complete
             after == conns'[n].complete
             plotted == Len(plots[n])
  <2>4. plotted <= after /\ after <= Len(records)
    <3>1. after = before \/ after = before + 1
      BY <1>5
    <3> HIDE DEF before, after, plotted
    <3>2. before \in Nat /\ before = Len(records) - 1 /\ plotted <= before
          /\ plotted \in Nat
      BY <1>4, <1>11, <2>2, <2>3 DEF before, plotted
    <3> QED BY <1>4, <3>1, <3>2
  <2> QED BY <1>1, <1>5, <2>1, <2>2, <2>4 DEF PlotInv
<1> QED BY <1>1, <1>2, <1>6, <1>8, <1>12, <1>13, StreamInvTogether

LEMMA SendFailsKeeps ==
    ASSUME StreamInv, NEW c \in Clients, SendFails(c)
    PROVE  StreamInv'
<1>1. /\ call[c] # NoCall
      /\ UNCHANGED <<d_attached, d_socket, stored, conns, analyzer, plotterVars>>
      /\ d_socket[c] # 0 => ~ Live(d_socket[c])
  BY DEF SendFails, Connected, Live
<1>2. /\ StreamTypeOK'
      /\ \A b \in Clients : b # c => call'[b] = call[b]
                                     /\ d_samples'[b] = d_samples[b]
  BY SendFailsTypes DEF StreamInv
<1>3. /\ \A b \in Clients : SocketInv(b)'
      /\ \A b \in Clients : b # c => CallInv(b)' /\ Owed(b)' = Owed(b)
      /\ \A n \in 1..Len(conns) : n # d_socket[c] => FlowInv(n)' /\ PlotInv(n)'
      /\ ServiceInv'
  BY <1>1, <1>2, OthersKept
<1>4. CallInv(c)'
  <2>1. CASE Sent(c)
    <3> SUFFICES ASSUME call'[c] # NoCall PROVE CallInv(c)'
      BY DEF CallInv
    <3>1. /\ call[c].phase = "header"
          /\ call'[c].phase = "payload" /\ call'[c].clear = call[c].clear
          /\ d_samples'[c] = d_samples[c]
          /\ Pending(call'[c].rest, d_samples[c], Size(d_samples[c]))
          /\ Owed(c)' = Size(d_samples[c])
      BY <1>1, <2>1, SentPending DEF StreamInv
    <3>2. Pending(call[c].rest, d_samples[c], Owed(c))'
      BY <3>1 DEF Pending
    <3> QED BY <1>1, <3>1, <3>2 DEF StreamInv, CallInv
  <2>2. CASE call' = [call EXCEPT ![c] = NoCall]
    <3>1. call'[c] = NoCall
      BY <2>2 DEF StreamInv, StreamTypeOK
    <3> QED BY <3>1 DEF CallInv
  <2> QED BY <2>1, <2>2 DEF SendFails
<1>5. ASSUME NEW n \in 1..Len(conns), n = d_socket[c]
      PROVE  FlowInv(n)' /\ PlotInv(n)'
  <2>1. ~ Live(n)'
    BY <1>1, <1>5 DEF Live
  <2>2. PlotInv(n)
    BY DEF StreamInv
  <2> QED BY <1>1, <2>1, <2>2, PlotKept DEF FlowInv, plotterVars
<1> QED BY <1>1, <1>2, <1>3, <1>4, <1>5, StreamInvTogether

(* What the steps of the analyzer leave alone.                             *)
LEMMA DebuggersKept ==
    ASSUME StreamInv, UNCHANGED debuggerVars, Len(conns') = Len(conns),
           \A n \in 1..Len(conns) :
              /\ conns'[n].client = conns[n].client
              /\ conns'[n].records = conns[n].records
    PROVE  \A c \in Clients : CallInv(c)' /\ SocketInv(c)' /\ Owed(c)' = Owed(c)
<1> SUFFICES ASSUME NEW c \in Clients
             PROVE  CallInv(c)' /\ SocketInv(c)' /\ Owed(c)' = Owed(c)
  OBVIOUS
<1>1. CallInv(c) /\ SocketInv(c)
  BY DEF StreamInv
<1>2. d_socket[c] # 0 => d_socket[c] \in 1..Len(conns)
  BY DebuggerIsTyped DEF StreamInv
<1>3. /\ call'[c] = call[c] /\ d_samples'[c] = d_samples[c]
      /\ d_socket'[c] = d_socket[c]
  BY DEF debuggerVars
<1>4. CallInv(c)' /\ Owed(c)' = Owed(c)
  BY <1>1, <1>2, <1>3, CallKept
<1>5. SocketInv(c)'
  BY <1>1, <1>2, <1>3, SocketKept
<1> QED BY <1>4, <1>5

(* A step of the analyzer that keeps the debuggers' part, for one          *)
(* connection it does not touch, and for one whose bytes it only moves.    *)
LEMMA FlowMoved ==
    ASSUME StreamInv, UNCHANGED debuggerVars,
           \A c \in Clients : Owed(c)' = Owed(c),
           NEW n \in 1..Len(conns),
           Live(n)' =>
              /\ Live(n)
              /\ conns'[n].records = conns[n].records
              /\ conns'[n].complete = conns[n].complete
              /\ plots'[n] = plots[n]
              /\ OnTheWay(n)' = OnTheWay(n)
              /\ StateOf(n)' = StateOf(n)
              /\ LengthOf(n)' = LengthOf(n)
    PROVE  FlowInv(n)'
<1> SUFFICES ASSUME Live(n)'
             PROVE  \E from : \E owed \in Nat : FlowOf(n, from, owed)'
  BY DEF FlowInv
<1>1. PICK from : \E owed \in Nat : FlowOf(n, from, owed)
  BY DEF StreamInv, FlowInv
<1>2. PICK owed \in Nat : FlowOf(n, from, owed)
  BY <1>1
<1>3. FlowOf(n, from, owed)'
  BY <1>2 DEF FlowOf, debuggerVars
<1> QED BY <1>3

LEMMA AcceptKeeps ==
    ASSUME StreamInv, Accept
    PROVE  StreamInv'
<1>1. PICK n \in 1..Len(conns) : client_socket' = n
  BY AcceptTypes DEF StreamInv
<1>2. /\ StreamTypeOK' /\ Len(conns') = Len(conns)
      /\ client_socket = 0 /\ conns[n].end = "waiting"
      /\ conns'[n] = [conns[n] EXCEPT !.end = "served"]
      /\ \A m \in 1..Len(conns) : m # n => conns'[m] = conns[m]
  BY <1>1, AcceptTypes DEF StreamInv
<1>3. /\ analyzer /\ state' = "READ_HEADER" /\ data' = <<>> /\ data_len' = 0
      /\ UNCHANGED <<debuggerVars, analyzer, plots>>
  BY DEF Accept, NoBytes
<1>4. ASSUME NEW m \in 1..Len(conns)
      PROVE  /\ conns'[m].client = conns[m].client
             /\ conns'[m].records = conns[m].records
             /\ conns'[m].complete = conns[m].complete
             /\ conns'[m].stream = conns[m].stream
             /\ m = n => conns'[m].end = "served"
             /\ m # n => conns'[m].end = conns[m].end
  <2>1. conns[m] \in Connection
    BY ConnectionsAreTyped DEF StreamInv
  <2> QED BY <1>2, <2>1 DEF Connection
<1>5. \A c \in Clients : CallInv(c)' /\ SocketInv(c)' /\ Owed(c)' = Owed(c)
  BY <1>2, <1>3, <1>4, DebuggersKept
<1>6. ASSUME NEW m \in 1..Len(conns)
      PROVE  FlowInv(m)' /\ PlotInv(m)'
  <2>1. Live(m)' => Live(m)
    BY <1>2, <1>4 DEF Live
  <2>2. client_socket # m
    BY <1>2
  <2>3. conns[m].stream \in Seq(Piece)
    BY ConnectionsAreTyped, ConnectionIsTyped DEF StreamInv
  <2>4. /\ OnTheWay(m)' = OnTheWay(m) /\ StateOf(m)' = StateOf(m)
        /\ LengthOf(m)' = LengthOf(m)
    <3>1. <<>> \o conns[m].stream = conns[m].stream
      BY <2>3, ConcatEmptySeq
    <3>2. /\ OnTheWay(m) = conns[m].stream /\ StateOf(m) = "READ_HEADER"
          /\ LengthOf(m) = 0
      BY <2>2 DEF OnTheWay, StateOf, LengthOf
    <3>3. /\ OnTheWay(m)' = conns[m].stream /\ StateOf(m)' = "READ_HEADER"
          /\ LengthOf(m)' = 0
      BY <1>3, <1>4, <3>1 DEF OnTheWay, StateOf, LengthOf
    <3> QED BY <3>2, <3>3
  <2>5. FlowInv(m)'
    BY <1>3, <1>4, <1>5, <2>1, <2>4, FlowMoved
  <2>6. PlotInv(m)'
    <3>1. PlotInv(m) /\ (conns'[m].end = "waiting" => conns[m].end = "waiting")
      BY <1>2, <1>4 DEF StreamInv
    <3> QED BY <1>3, <1>4, <3>1, PlotKept
  <2> QED BY <2>5, <2>6
<1>7. ServiceInv'
  BY <1>2, <1>3 DEF StreamInv, ServiceInv
<1> QED BY <1>2, <1>5, <1>6, <1>7, StreamInvTogether

LEMMA GetKeeps ==
    ASSUME StreamInv, NEW k, RecvReturns(k)
    PROVE  StreamInv'
<1> DEFINE n == client_socket
           stream == conns[n].stream
<1>1. /\ StreamTypeOK' /\ Len(conns') = Len(conns)
      /\ \A m \in 1..Len(conns) : m # n => conns'[m] = conns[m]
      /\ conns'[n] = [conns[n] EXCEPT !.stream = SubSeq(stream, k + 1, Len(stream))]
      /\ data' \o conns'[n].stream = data \o stream
  BY GetTypes DEF StreamInv
<1>2. /\ n \in 1..Len(conns)
      /\ UNCHANGED <<debuggerVars, analyzer, client_socket, state, data_len, plots>>
  BY DEF RecvReturns
<1>3. ASSUME NEW m \in 1..Len(conns)
      PROVE  /\ conns'[m].client = conns[m].client
             /\ conns'[m].records = conns[m].records
             /\ conns'[m].complete = conns[m].complete
             /\ conns'[m].end = conns[m].end
             /\ m # n => conns'[m].stream = conns[m].stream
  <2>1. conns[m] \in Connection
    BY ConnectionsAreTyped DEF StreamInv
  <2> HIDE DEF n
  <2> QED BY <1>1, <2>1 DEF Connection
<1>4. \A c \in Clients : CallInv(c)' /\ SocketInv(c)' /\ Owed(c)' = Owed(c)
  BY <1>1, <1>2, <1>3, DebuggersKept
<1>5. ASSUME NEW m \in 1..Len(conns)
      PROVE  FlowInv(m)' /\ PlotInv(m)'
  <2>1. Live(m)' => Live(m)
    BY <1>3 DEF Live
  <2>2. /\ OnTheWay(m)' = OnTheWay(m) /\ StateOf(m)' = StateOf(m)
        /\ LengthOf(m)' = LengthOf(m)
    BY <1>1, <1>2, <1>3 DEF OnTheWay, StateOf, LengthOf
  <2>3. FlowInv(m)'
    BY <1>2, <1>3, <1>4, <2>1, <2>2, FlowMoved
  <2>4. PlotInv(m)'
    BY <1>2, <1>3, PlotKept DEF StreamInv
  <2> QED BY <2>3, <2>4
<1>6. ServiceInv'
  BY <1>1, <1>2 DEF StreamInv, ServiceInv
<1> QED BY <1>1, <1>4, <1>5, <1>6, StreamInvTogether

LEMMA ResetKeeps ==
    ASSUME StreamInv, ConnectionReset
    PROVE  StreamInv'
<1>1. PICK n \in 1..Len(conns) : n = client_socket
  BY ResetTypes DEF StreamInv
<1>2. /\ StreamTypeOK' /\ Len(conns') = Len(conns)
      /\ \A m \in 1..Len(conns) : m # n => conns'[m] = conns[m]
      /\ conns'[n] = [conns[n] EXCEPT !.end = "closed"]
  BY <1>1, ResetTypes DEF StreamInv
<1>3. /\ client_socket' = 0
      /\ UNCHANGED <<debuggerVars, analyzer, state, data, data_len, plots>>
  BY DEF ConnectionReset
<1>4. ASSUME NEW m \in 1..Len(conns)
      PROVE  /\ conns'[m].client = conns[m].client
             /\ conns'[m].records = conns[m].records
             /\ conns'[m].complete = conns[m].complete
             /\ conns'[m].stream = conns[m].stream
             /\ m = n => conns'[m].end = "closed"
             /\ m # n => conns'[m].end = conns[m].end
  <2>1. conns[m] \in Connection
    BY ConnectionsAreTyped DEF StreamInv
  <2> QED BY <1>2, <2>1 DEF Connection
<1>5. \A c \in Clients : CallInv(c)' /\ SocketInv(c)' /\ Owed(c)' = Owed(c)
  BY <1>2, <1>3, <1>4, DebuggersKept
<1>6. ASSUME NEW m \in 1..Len(conns)
      PROVE  FlowInv(m)' /\ PlotInv(m)'
  <2>1. Live(m)' => m # n /\ Live(m)
    BY <1>4 DEF Live
  <2>2. client_socket' # m
    BY <1>3
  <2>3. m # n => /\ OnTheWay(m)' = OnTheWay(m) /\ StateOf(m)' = StateOf(m)
                 /\ LengthOf(m)' = LengthOf(m)
    BY <1>1, <1>4, <2>2 DEF OnTheWay, StateOf, LengthOf
  <2>4. FlowInv(m)'
    BY <1>3, <1>4, <1>5, <2>1, <2>3, FlowMoved
  <2>5. PlotInv(m)'
    BY <1>3, <1>4, PlotKept DEF StreamInv
  <2> QED BY <2>4, <2>5
<1>7. ServiceInv'
  BY <1>2, <1>3 DEF StreamInv, ServiceInv
<1> QED BY <1>2, <1>5, <1>6, <1>7, StreamInvTogether

(* The connection that is served, as the next two steps find it.           *)
LEMMA ServedFlow ==
    ASSUME StreamInv, client_socket # 0
    PROVE  LET n == client_socket
               b == data \o conns[n].stream
           IN  /\ n \in 1..Len(conns) /\ Live(n)
               /\ conns[n].records \in Seq(Record) /\ b \in Seq(Piece)
               /\ data \in Seq(Piece) /\ conns[n].stream \in Seq(Piece)
               /\ Len(data) \in Nat /\ Len(b) = Len(data) + Len(conns[n].stream)
               /\ Len(conns[n].stream) \in Nat
               /\ Len(plots[n]) \in Nat /\ data_len \in Nat
               /\ \E from : \E owed \in Nat :
                     /\ FlowOf(n, from, owed)
                     /\ Flow(conns[n].records, b, Len(plots[n]), state, data_len,
                             from, owed)
<1> DEFINE n == client_socket
           b == data \o conns[n].stream
<1>1. n \in 1..Len(conns)
  BY ConnectionsAreTyped DEF StreamInv
<1>2. /\ conns[n].records \in Seq(Record) /\ conns[n].stream \in Seq(Piece)
      /\ data \in Seq(Piece) /\ data_len \in Nat /\ Len(data) \in Nat
      /\ Len(conns[n].stream) \in Nat /\ Len(plots[n]) \in Nat
  BY <1>1, ConnectionsAreTyped, ConnectionIsTyped, LenProperties DEF StreamInv
<1>3. b \in Seq(Piece) /\ Len(b) = Len(data) + Len(conns[n].stream)
  BY <1>2, ConcatProperties
<1>4. Live(n)
  BY <1>1 DEF StreamInv, StreamTypeOK, Live
<1>5. PICK from : \E owed \in Nat : FlowOf(n, from, owed)
  BY <1>1, <1>4 DEF StreamInv, FlowInv
<1>6. PICK owed \in Nat : FlowOf(n, from, owed)
  BY <1>5
<1>7. Flow(conns[n].records, b, Len(plots[n]), state, data_len, from, owed)
  BY <1>6 DEF FlowOf, OnTheWay, StateOf, LengthOf
<1> QED BY <1>1, <1>2, <1>3, <1>4, <1>6, <1>7

LEMMA ReadHeaderKeeps ==
    ASSUME StreamInv, ReadHeader
    PROVE  StreamInv'
<1>1. /\ client_socket # 0 /\ state = "READ_HEADER" /\ ~ (Len(data) < HeaderBytes)
      /\ data_len' \in Unpacked(SubSeq(data, 1, HeaderBytes))
      /\ data' = SubSeq(data, HeaderBytes + 1, Len(data))
      /\ state' = "READ_DATA"
      /\ UNCHANGED <<debuggerVars, conns, analyzer, client_socket, plots>>
  BY DEF ReadHeader, HeaderWantsMore
<1>2. PICK n \in 1..Len(conns) : n = client_socket
  BY <1>1, ServedFlow
<1> DEFINE stream == conns[n].stream
           b == data \o stream
           records == conns[n].records
           p == Len(plots[n])
<1>3. /\ Live(n)
      /\ records \in Seq(Record) /\ b \in Seq(Piece)
      /\ data \in Seq(Piece) /\ stream \in Seq(Piece)
      /\ Len(data) \in Nat /\ Len(b) = Len(data) + Len(stream)
      /\ Len(stream) \in Nat /\ p \in Nat /\ data_len \in Nat
  BY <1>1, <1>2, ServedFlow
<1>4. PICK from : \E owed \in Nat :
         FlowOf(n, from, owed) /\ Flow(records, b, p, "READ_HEADER", data_len, from, owed)
  BY <1>1, <1>2, ServedFlow
<1>5. PICK owed \in Nat :
         FlowOf(n, from, owed) /\ Flow(records, b, p, "READ_HEADER", data_len, from, owed)
  BY <1>4
<1> HIDE DEF stream, b, records, p
<1>6. ~ (Len(b) < HeaderBytes) /\ HeaderBytes \in 0..Len(data)
  BY <1>1, <1>3, SizesAreNumbers
<1> DEFINE next == records[p + 1].samples
<1>7. /\ p < Len(records)
      /\ SubSeq(b, 1, HeaderBytes) = Header(Size(next))
      /\ Flow(records, SubSeq(b, HeaderBytes + 1, Len(b)), p, "READ_DATA",
              Size(next), from, owed)
  BY <1>3, <1>5, <1>6, FlowReadsHeader
<1>8. /\ SubSeq(data, 1, HeaderBytes) = Header(Size(next))
      /\ data' \o stream = SubSeq(b, HeaderBytes + 1, Len(b))
  BY <1>1, <1>3, <1>6, <1>7, DropFront DEF b
<1>9. data_len' = Size(next)
  <2>1. p + 1 \in 1..Len(records)
    BY <1>3, <1>7, LenProperties
  <2>2. Size(next) \in Lengths /\ Size(next) \in Nat
    BY <1>3, <2>1, RecordFacts, LengthOfRecord
  <2>3. \A l \in Lengths : l \in Nat
    BY SizesAreNumbers DEF Lengths
  <2> HIDE DEF next
  <2>4. \A l \in Lengths : Header(Size(next)) = Header(l) => l = Size(next)
    BY <2>2, <2>3, HeaderFacts
  <2>5. data_len' \in Unpacked(Header(Size(next)))
    BY <1>1, <1>8
  <2> QED BY <2>2, <2>4, <2>5 DEF Unpacked
<1>10. StreamTypeOK'
  BY ReadHeaderTypes DEF StreamInv
<1>11. \A c \in Clients : CallInv(c)' /\ SocketInv(c)' /\ Owed(c)' = Owed(c)
  BY <1>1, DebuggersKept
<1>12. FlowOf(n, from, owed)'
  <2>1. /\ OnTheWay(n)' = SubSeq(b, HeaderBytes + 1, Len(b))
        /\ StateOf(n)' = "READ_DATA" /\ LengthOf(n)' = Size(next)
    BY <1>1, <1>2, <1>8, <1>9 DEF OnTheWay, StateOf, LengthOf, stream
  <2> QED BY <1>1, <1>5, <1>7, <1>11, <2>1 DEF FlowOf, records, p, debuggerVars
<1>13. ASSUME NEW m \in 1..Len(conns)
       PROVE  FlowInv(m)' /\ PlotInv(m)'
  <2>1. PlotInv(m)'
    BY <1>1, PlotKept DEF StreamInv
  <2>2. CASE m = n
    BY <1>12, <2>1, <2>2 DEF FlowInv
  <2>3. CASE m # n
    <3>1. /\ OnTheWay(m)' = OnTheWay(m) /\ StateOf(m)' = StateOf(m)
          /\ LengthOf(m)' = LengthOf(m)
      BY <1>1, <1>2, <2>3 DEF OnTheWay, StateOf, LengthOf
    <3>2. Live(m)' => Live(m)
      BY <1>1 DEF Live
    <3> QED BY <1>1, <1>11, <2>1, <3>1, <3>2, FlowMoved
  <2> QED BY <2>2, <2>3
<1>14. ServiceInv'
  BY <1>1 DEF StreamInv, ServiceInv
<1> QED BY <1>1, <1>10, <1>11, <1>13, <1>14, StreamInvTogether

LEMMA PlotDataKeeps ==
    ASSUME StreamInv, PlotData
    PROVE  StreamInv'
<1>1. /\ client_socket # 0 /\ state = "READ_DATA" /\ ~ (Len(data) < data_len)
      /\ data' = SubSeq(data, data_len + 1, Len(data))
      /\ state' = "READ_HEADER"
      /\ UNCHANGED <<debuggerVars, conns, analyzer, client_socket, data_len>>
  BY DEF PlotData, DataWantsMore
<1>2. PICK n \in 1..Len(conns) : n = client_socket
  BY <1>1, ServedFlow
<1> DEFINE stream == conns[n].stream
           b == data \o stream
           records == conns[n].records
           p == Len(plots[n])
           piece == SubSeq(data, 1, data_len)
<1>3. /\ Live(n)
      /\ records \in Seq(Record) /\ b \in Seq(Piece)
      /\ data \in Seq(Piece) /\ stream \in Seq(Piece)
      /\ Len(data) \in Nat /\ Len(b) = Len(data) + Len(stream)
      /\ Len(stream) \in Nat /\ p \in Nat /\ data_len \in Nat
  BY <1>1, <1>2, ServedFlow
<1>4. PICK from : \E owed \in Nat :
         FlowOf(n, from, owed) /\ Flow(records, b, p, "READ_DATA", data_len, from, owed)
  BY <1>1, <1>2, ServedFlow
<1>5. PICK owed \in Nat :
         FlowOf(n, from, owed) /\ Flow(records, b, p, "READ_DATA", data_len, from, owed)
  BY <1>4
<1>6. /\ StreamTypeOK' /\ plots'[n] = Append(plots[n], piece)
      /\ \A m \in 1..MaxConnections : m # n => plots'[m] = plots[m]
  BY <1>2, PlotDataTypes DEF StreamInv
<1>7. /\ plots[n] \in Seq(Seq(Piece)) /\ plots'[n] \in Seq(Seq(Piece))
      /\ n \in 1..MaxConnections
  <2>1. n \in 1..MaxConnections
    BY ConnectionsAreTyped DEF StreamInv
  <2> QED BY <1>6, <2>1 DEF StreamInv, StreamTypeOK
<1> HIDE DEF stream, b, records, p
<1>8. ~ (Len(b) < data_len) /\ data_len \in 0..Len(data)
  BY <1>1, <1>3
<1> DEFINE next == records[p + 1].samples
<1>9. /\ p + 1 \in 1..Len(records)
      /\ owed > 0 => p + 1 < Len(records)
      /\ SubSeq(b, 1, data_len) = Bytes(next)
      /\ Flow(records, SubSeq(b, data_len + 1, Len(b)), p + 1, "READ_HEADER",
              data_len, from, owed)
  BY <1>3, <1>5, <1>8, FlowPlots
<1>10. /\ piece = Bytes(next)
       /\ data' \o stream = SubSeq(b, data_len + 1, Len(b))
  BY <1>1, <1>3, <1>8, <1>9, DropFront DEF b
<1>11. piece \in Seq(Piece)
  BY <1>3, <1>8, CutSequence
<1>12. /\ Len(plots'[n]) = p + 1 /\ plots'[n][p + 1] = piece
       /\ \A k \in 1..p : plots'[n][k] = plots[n][k]
  BY <1>6, <1>7, <1>11, AppendProperties DEF p
<1> HIDE DEF next, piece
<1>13. \A c \in Clients : CallInv(c)' /\ SocketInv(c)' /\ Owed(c)' = Owed(c)
  BY <1>1, DebuggersKept
<1>14. FlowOf(n, from, owed)'
  <2>1. /\ OnTheWay(n)' = SubSeq(b, data_len + 1, Len(b))
        /\ StateOf(n)' = "READ_HEADER" /\ LengthOf(n)' = data_len
    BY <1>1, <1>2, <1>10 DEF OnTheWay, StateOf, LengthOf, stream
  <2> QED BY <1>1, <1>5, <1>9, <1>12, <1>13, <2>1 DEF FlowOf, records, debuggerVars
<1>15. PlotInv(n)'
  <2>1. PlotInv(n)
    BY DEF StreamInv
  <2> DEFINE complete == conns[n].complete
  <2>2. /\ complete = Len(records) - (IF owed = 0 THEN 0 ELSE 1)
        /\ complete <= Len(records)
        /\ Len(records) \in Nat
    BY <1>3, <1>5, <2>1, LenProperties DEF FlowOf, PlotInv, records
  <2>3. p + 1 <= complete
    <3> HIDE DEF complete
    <3> QED BY <1>3, <1>9, <2>2
  <2>4. \A k \in 1..(p + 1) : plots'[n][k] = Bytes(records[k].samples)
    <3> SUFFICES ASSUME NEW k \in 1..(p + 1)
                 PROVE  plots'[n][k] = Bytes(records[k].samples)
      OBVIOUS
    <3>1. CASE k = p + 1
      BY <1>10, <1>12, <3>1 DEF next
    <3>2. CASE k # p + 1
      <4>1. k \in 1..p
        BY <1>3, <3>2
      <4>2. plots[n][k] = Bytes(records[k].samples)
        BY <2>1, <4>1 DEF PlotInv, p, records
      <4> QED BY <1>12, <4>1, <4>2
    <3> QED BY <3>1, <3>2
  <2>5. conns[n].end # "waiting"
    BY <1>2 DEF StreamInv, StreamTypeOK
  <2> QED BY <1>1, <1>12, <2>2, <2>3, <2>4, <2>5 DEF PlotInv, records
<1>16. ASSUME NEW m \in 1..Len(conns)
       PROVE  FlowInv(m)' /\ PlotInv(m)'
  <2>1. CASE m = n
    BY <1>14, <1>15, <2>1 DEF FlowInv
  <2>2. CASE m # n
    <3>1. /\ OnTheWay(m)' = OnTheWay(m) /\ StateOf(m)' = StateOf(m)
          /\ LengthOf(m)' = LengthOf(m)
      BY <1>1, <1>2, <2>2 DEF OnTheWay, StateOf, LengthOf
    <3>2. Live(m)' => Live(m)
      BY <1>1 DEF Live
    <3>3. plots'[m] = plots[m]
      BY <1>6, <2>2, ConnectionsAreTyped DEF StreamInv
    <3>4. FlowInv(m)'
      BY <1>1, <1>13, <3>1, <3>2, <3>3, FlowMoved
    <3> QED BY <1>1, <3>3, <3>4, PlotKept DEF StreamInv
  <2> QED BY <2>1, <2>2
<1>17. ServiceInv'
  <2> SUFFICES ASSUME NEW m \in 1..MaxConnections, m > Len(conns)
               PROVE  plots'[m] = <<>>
    BY <1>1 DEF StreamInv, ServiceInv
  <2>1. m # n
    BY ConnectionsAreTyped DEF StreamInv
  <2> QED BY <1>6, <2>1 DEF StreamInv, ServiceInv
<1> QED BY <1>1, <1>6, <1>13, <1>16, <1>17, StreamInvTogether

LEMMA AnalyzerEndsKeeps ==
    ASSUME StreamInv, AnalyzerEnds
    PROVE  StreamInv'
<1>1. /\ StreamTypeOK' /\ Len(conns') = Len(conns)
      /\ \A n \in 1..Len(conns) :
            /\ conns'[n].client = conns[n].client
            /\ conns'[n].records = conns[n].records
            /\ conns'[n].complete = conns[n].complete
            /\ conns'[n].end \notin {"waiting", "served"}
  BY AnalyzerEndsTypes DEF StreamInv
<1>2. client_socket' = 0 /\ UNCHANGED <<debuggerVars, plots>>
  BY DEF AnalyzerEnds
<1>3. \A c \in Clients : CallInv(c)' /\ SocketInv(c)'
  BY <1>1, <1>2, DebuggersKept
<1>4. ASSUME NEW n \in 1..Len(conns)
      PROVE  FlowInv(n)' /\ PlotInv(n)'
  <2>1. FlowInv(n)'
    BY <1>1 DEF FlowInv, Live
  <2>2. PlotInv(n)'
    BY <1>1, <1>2, PlotKept DEF StreamInv
  <2> QED BY <2>1, <2>2
<1>5. ServiceInv'
  BY <1>1, <1>2 DEF StreamInv, ServiceInv
<1> QED BY <1>1, <1>3, <1>4, <1>5, StreamInvTogether

LEMMA InitSocketKeeps ==
    ASSUME StreamInv, init_socket
    PROVE  StreamInv'
<1>1. /\ ~ analyzer /\ analyzer'
      /\ UNCHANGED <<debuggerVars, conns, client_socket, state, data_len, plots>>
  BY DEF init_socket
<1>2. StreamTypeOK'
  BY InitSocketTypes DEF StreamInv
<1>3. \A c \in Clients : CallInv(c)' /\ SocketInv(c)' /\ Owed(c)' = Owed(c)
  BY <1>1, DebuggersKept
<1>4. ASSUME NEW n \in 1..Len(conns)
      PROVE  FlowInv(n)' /\ PlotInv(n)'
  <2>1. client_socket # n
    <3>1. client_socket = 0
      BY <1>1 DEF StreamInv, ServiceInv
    <3> QED BY <3>1
  <2>2. /\ OnTheWay(n)' = OnTheWay(n) /\ StateOf(n)' = StateOf(n)
        /\ LengthOf(n)' = LengthOf(n) /\ (Live(n)' => Live(n))
    BY <1>1, <2>1 DEF OnTheWay, StateOf, LengthOf, Live
  <2>3. FlowInv(n)'
    BY <1>1, <1>3, <2>2, FlowMoved
  <2> QED BY <1>1, <2>3, PlotKept DEF StreamInv
<1>5. ServiceInv'
  BY <1>1 DEF StreamInv, ServiceInv
<1> QED BY <1>1, <1>2, <1>3, <1>4, <1>5, StreamInvTogether

LEMMA StreamInvNext ==
    ASSUME StreamInv, [StreamNext]_streamVars
    PROVE  StreamInv'
<1>1. ASSUME NEW c \in Clients, DebuggerStep(c)
      PROVE  StreamInv'
  <2>1. CASE Send(c)
    <3>1. PICK k \in 1..Len(call[c].rest) : SendTakes(c, k)
      BY <2>1, SendIsTaking DEF StreamInv
    <3> QED BY <3>1, SendKeeps
  <2>2. ASSUME NEW clear \in BOOLEAN, analyze_samples(c, clear)
        PROVE  StreamInv'
    BY <2>2, AnalyzeKeeps
  <2> QED BY <1>1, <2>1, <2>2, AttachKeeps, AttachRefusedKeeps, DetachKeeps, StoreKeeps,
             SendFailsKeeps, DebuggerEndsKeeps DEF DebuggerStep
<1>2. CASE PlotterStep
  <2>1. CASE get_data
    <3>1. PICK k \in 1..Len(conns[client_socket].stream) : RecvReturns(k)
      BY <2>1, GetIsReturning DEF StreamInv
    <3> QED BY <3>1, GetKeeps
  <2> QED BY <1>2, <2>1, AcceptKeeps, ResetKeeps, ReadHeaderKeeps, PlotDataKeeps
          DEF PlotterStep
<1>3. CASE UNCHANGED streamVars
  <2>1. UNCHANGED <<d_socket, d_samples, call, conns, analyzer, client_socket, state,
                    data, data_len, plots>>
    BY <1>3 DEF streamVars, debuggerVars, plotterVars
  <2>2. StreamTypeOK'
    BY <1>3, StreamTypesNext DEF StreamInv
  <2>3. \A c \in Clients : CallInv(c)' /\ SocketInv(c)' /\ Owed(c)' = Owed(c)
    BY <1>3, <2>1, DebuggersKept DEF streamVars
  <2>4. ASSUME NEW n \in 1..Len(conns)
        PROVE  FlowInv(n)' /\ PlotInv(n)'
    <3>1. FlowInv(n)'
      BY <2>1, <2>3, FlowKept DEF StreamInv, Live
    <3> QED BY <2>1, <3>1, PlotKept DEF StreamInv
  <2>5. ServiceInv'
    BY <2>1 DEF StreamInv, ServiceInv
  <2> QED BY <2>1, <2>2, <2>3, <2>4, <2>5, StreamInvTogether
<1> QED BY <1>1, <1>2, <1>3, AnalyzerEndsKeeps, InitSocketKeeps DEF StreamNext

LEMMA StreamInvHolds == StreamSpec => []StreamInv
<1>1. StreamInv /\ [StreamNext]_streamVars => StreamInv'
  BY StreamInvNext
<1> QED BY <1>1, StreamInvInit, PTL DEF StreamSpec

(* What the analyzer plots of a connection are the records its debugger    *)
(* sent, in their order and with all their samples, wherever the kernel    *)
(* cut the stream and whoever was ended in the middle of a record.         *)
THEOREM PlotsAreWhatWasSent == StreamSpec => []PlotsAreRecords
<1>1. StreamInv => PlotsAreRecords
  <2> SUFFICES ASSUME StreamInv, NEW n \in 1..Len(conns)
               PROVE  /\ Len(plots[n]) <= Len(conns[n].records)
                      /\ \A k \in 1..Len(plots[n]) :
                            plots[n][k] = Bytes(conns[n].records[k].samples)
    BY DEF PlotsAreRecords
  <2>1. PlotInv(n)
    BY DEF StreamInv
  <2>2. /\ Len(plots[n]) \in Nat /\ conns[n].complete \in Nat
        /\ Len(conns[n].records) \in Nat
    BY ConnectionsAreTyped, ConnectionIsTyped, LenProperties DEF StreamInv
  <2> QED BY <2>1, <2>2 DEF PlotInv
<1> QED BY <1>1, StreamInvHolds, PTL

-----------------------------------------------------------------------------
(* Cleared samples.                                                        *)

Holds(samples, s) == \E i \in 1..Len(samples) : samples[i] = s

(* A debugger numbers its samples: what it holds and what it sent it was   *)
(* given before.                                                           *)
NumberInv ==
    /\ \A c \in Clients : \A s \in 1..MaxSamples :
          Holds(d_samples[c], s) => s <= stored[c]
    /\ \A n \in 1..Len(conns) : \A j \in 1..Len(conns[n].records) :
          \A s \in 1..MaxSamples :
             HasSample(conns[n].records[j], s) => s <= stored[conns[n].client]

(* The records behind the k-th of connection n, of the same debugger.      *)
Later(n, k, m, j) ==
    conns[m].client = conns[n].client /\ (m > n \/ (m = n /\ j > k))

(* Once a record that is to be cleared is complete, its debugger holds     *)
(* none of its samples any more, and none is in a later record.            *)
GoneOf(n, k, s) ==
    /\ ~ Holds(d_samples[conns[n].client], s)
    /\ \A m \in 1..Len(conns) : \A j \in 1..Len(conns[m].records) :
          Later(n, k, m, j) => ~ HasSample(conns[m].records[j], s)

GoneInv ==
    \A n \in 1..Len(conns) : \A k \in 1..conns[n].complete :
       \A s \in 1..MaxSamples :
          conns[n].records[k].clear /\ HasSample(conns[n].records[k], s) =>
             GoneOf(n, k, s)

ClearInv == StreamInv /\ NumberInv /\ GoneInv

(* A step that sends nothing new and gives no debugger a sample.           *)
LEMMA ClearedKept ==
    ASSUME ClearInv, StreamInv',
           stored' = stored,
           \A c \in Clients : \A s \in 1..MaxSamples :
              Holds(d_samples'[c], s) => Holds(d_samples[c], s),
           Len(conns') >= Len(conns),
           \A n \in 1..Len(conns) :
              /\ conns'[n].client = conns[n].client
              /\ conns'[n].records = conns[n].records
              /\ conns'[n].complete = conns[n].complete,
           \A n \in 1..Len(conns') : n > Len(conns) =>
              conns'[n].records = <<>> /\ conns'[n].complete = 0
    PROVE  ClearInv'
<1>1. /\ Len(conns) \in Nat /\ Len(conns') \in Nat
      /\ \A n \in 1..Len(conns) : conns[n].client \in Clients
      /\ \A n \in 1..Len(conns') : n \in 1..Len(conns) \/ n > Len(conns)
  <2>1. StreamTypeOK /\ StreamTypeOK'
    BY DEF ClearInv, StreamInv
  <2>2. Len(conns) \in Nat /\ Len(conns') \in Nat
    BY <2>1, LenProperties DEF StreamTypeOK
  <2>3. \A n \in 1..Len(conns) : conns[n].client \in Clients
    BY <2>1, ConnectionsAreTyped, ConnectionIsTyped
  <2> QED BY <2>2, <2>3
<1>2. ASSUME NEW n \in 1..Len(conns'), NEW j \in 1..Len(conns'[n].records)
      PROVE  /\ n \in 1..Len(conns) /\ j \in 1..Len(conns[n].records)
             /\ conns'[n].client = conns[n].client
             /\ conns'[n].records = conns[n].records
             /\ conns'[n].complete = conns[n].complete
  <2>1. CASE n \in 1..Len(conns)
    BY <1>2, <2>1
  <2>2. CASE n > Len(conns)
    <3>1. Len(conns'[n].records) = 0
      BY <2>2, EmptySeq
    <3> QED BY <1>2, <3>1
  <2> QED BY <1>1, <2>1, <2>2
<1>3. NumberInv'
  <2>1. \A c \in Clients : \A s \in 1..MaxSamples :
           Holds(d_samples'[c], s) => s <= stored'[c]
    BY DEF ClearInv, NumberInv
  <2>2. ASSUME NEW n \in 1..Len(conns'), NEW j \in 1..Len(conns'[n].records),
               NEW s \in 1..MaxSamples, HasSample(conns'[n].records[j], s)
        PROVE  s <= stored'[conns'[n].client]
    <3>1. /\ n \in 1..Len(conns) /\ j \in 1..Len(conns[n].records)
          /\ conns'[n].client = conns[n].client
          /\ conns'[n].records = conns[n].records
      BY <1>2
    <3> QED BY <2>2, <3>1 DEF ClearInv, NumberInv
  <2>3. ASSUME NEW c \in Clients, NEW s \in 1..MaxSamples, Holds(d_samples[c], s)'
        PROVE  (s <= stored[c])'
    BY <2>1, <2>3 DEF Holds
  <2> QED BY <2>2, <2>3 DEF NumberInv, HasSample
<1>4. GoneInv'
  <2> SUFFICES ASSUME NEW n \in 1..Len(conns'), NEW k \in 1..conns'[n].complete,
                      NEW s \in 1..MaxSamples, conns'[n].records[k].clear,
                      HasSample(conns[n].records[k], s)'
               PROVE  GoneOf(n, k, s)'
    BY DEF GoneInv
  <2>1. /\ n \in 1..Len(conns) /\ k \in 1..conns[n].complete
        /\ conns'[n].client = conns[n].client
        /\ conns'[n].records = conns[n].records
    <3>1. n \in 1..Len(conns)
      <4>1. conns'[n].complete # 0
        OBVIOUS
      <4> QED BY <1>1, <4>1
    <3> QED BY <3>1
  <2>2. GoneOf(n, k, s)
    <3>1. HasSample(conns[n].records[k], s)
      BY <2>1 DEF HasSample
    <3> QED BY <2>1, <3>1 DEF ClearInv, GoneInv
  <2>3. (~ Holds(d_samples[conns[n].client], s))'
    <3>1. ~ Holds(d_samples'[conns[n].client], s)
      BY <1>1, <2>1, <2>2 DEF GoneOf
    <3> QED BY <2>1, <3>1 DEF Holds
  <2>4. ASSUME NEW m \in 1..Len(conns'), NEW j \in 1..Len(conns'[m].records),
               Later(n, k, m, j)'
        PROVE  (~ HasSample(conns[m].records[j], s))'
    <3>1. /\ m \in 1..Len(conns) /\ j \in 1..Len(conns[m].records)
          /\ conns'[m].client = conns[m].client
          /\ conns'[m].records = conns[m].records
      BY <1>2
    <3>2. Later(n, k, m, j)
      BY <2>1, <2>4, <3>1 DEF Later
    <3>3. ~ HasSample(conns[m].records[j], s)
      BY <2>2, <3>1, <3>2 DEF GoneOf
    <3> QED BY <3>1, <3>3 DEF HasSample
  <2> QED BY <2>3, <2>4 DEF GoneOf
<1> QED BY <1>3, <1>4 DEF ClearInv

LEMMA StoreKeepsCleared ==
    ASSUME ClearInv, StreamInv', NEW c \in Clients, store_samples(c)
    PROVE  ClearInv'
<1>1. /\ stored' = [stored EXCEPT ![c] = @ + 1]
      /\ d_samples' = [d_samples EXCEPT ![c] = Append(@, stored'[c])]
      /\ conns' = conns
  BY DEF store_samples
<1>2. /\ stored \in [Clients -> 0..MaxSamples]
      /\ d_samples \in [Clients -> Seq(1..MaxSamples)]
      /\ \A n \in 1..Len(conns) : conns[n].client \in Clients
      /\ StreamTypeOK
  BY ConnectionsAreTyped, ConnectionIsTyped DEF ClearInv, StreamInv, StreamTypeOK
<1>3. /\ stored'[c] = stored[c] + 1
      /\ \A b \in Clients : b # c => stored'[b] = stored[b]
                                     /\ d_samples'[b] = d_samples[b]
      /\ \A b \in Clients : stored[b] \in Nat /\ stored'[b] \in Nat
                            /\ stored[b] <= stored'[b]
      /\ stored[c] + 1 \in 1..MaxSamples
  <2>1. stored'[c] = stored[c] + 1
    BY <1>1, <1>2
  <2>2. \A b \in Clients : b # c => stored'[b] = stored[b]
                                    /\ d_samples'[b] = d_samples[b]
    BY <1>1, <1>2
  <2>3. \A b \in Clients : stored[b] \in Nat
    BY <1>2, SizesAreNumbers
  <2>4. stored[c] < MaxSamples
    BY DEF store_samples
  <2> QED BY <2>1, <2>2, <2>3, <2>4, SizesAreNumbers
<1>4. ASSUME NEW b \in Clients, NEW s \in 1..MaxSamples, Holds(d_samples'[b], s)
      PROVE  Holds(d_samples[b], s) \/ (b = c /\ s = stored[c] + 1)
  <2>1. CASE b # c
    BY <1>3, <1>4, <2>1
  <2>2. CASE b = c
    <3> DEFINE samples == d_samples[c]
               x == stored[c] + 1
    <3>1. d_samples'[c] = Append(samples, x) /\ samples \in Seq(1..MaxSamples)
      BY <1>1, <1>2, <1>3
    <3>2. x \in 1..MaxSamples
      BY <1>3
    <3> HIDE DEF samples, x
    <3>3. /\ Len(Append(samples, x)) = Len(samples) + 1 /\ Len(samples) \in Nat
          /\ \A i \in 1..Len(samples) : Append(samples, x)[i] = samples[i]
          /\ Append(samples, x)[Len(samples) + 1] = x
      BY <3>1, <3>2, AppendProperties, LenProperties
    <3>4. PICK i \in 1..(Len(samples) + 1) : Append(samples, x)[i] = s
      BY <1>4, <2>2, <3>1, <3>3 DEF Holds
    <3>5. i \in 1..Len(samples) \/ i = Len(samples) + 1
      BY <3>3
    <3>6. Holds(samples, s) \/ s = x
      BY <3>3, <3>4, <3>5 DEF Holds
    <3> QED BY <2>2, <3>6 DEF samples, x
  <2> QED BY <2>1, <2>2
<1>5. NumberInv'
  <2>1. ASSUME NEW b \in Clients, NEW s \in 1..MaxSamples, Holds(d_samples[b], s)'
        PROVE  (s <= stored[b])'
    <3>1. Holds(d_samples[b], s) \/ (b = c /\ s = stored[c] + 1)
      BY <1>4, <2>1 DEF Holds
    <3>2. Holds(d_samples[b], s) => s <= stored[b]
      BY DEF ClearInv, NumberInv
    <3>3. s \in Nat /\ stored[b] \in Nat /\ stored'[b] \in Nat /\ stored[b] <= stored'[b]
      BY <1>3, SizesAreNumbers
    <3>4. s <= stored[b] => s <= stored'[b]
      BY <3>3
    <3> QED BY <1>3, <3>1, <3>2, <3>3, <3>4
  <2>2. ASSUME NEW n \in 1..Len(conns), NEW j \in 1..Len(conns[n].records),
               NEW s \in 1..MaxSamples, HasSample(conns[n].records[j], s)
        PROVE  s <= stored'[conns[n].client]
    <3>1. s <= stored[conns[n].client]
      BY <2>2 DEF ClearInv, NumberInv
    <3>2. /\ s \in Nat /\ stored[conns[n].client] \in Nat
          /\ stored'[conns[n].client] \in Nat
          /\ stored[conns[n].client] <= stored'[conns[n].client]
      BY <1>2, <1>3, SizesAreNumbers
    <3> QED BY <3>1, <3>2
  <2> QED BY <1>1, <2>1, <2>2 DEF NumberInv, HasSample
<1>6. GoneInv'
  <2> SUFFICES ASSUME NEW n \in 1..Len(conns), NEW k \in 1..conns[n].complete,
                      NEW s \in 1..MaxSamples, conns[n].records[k].clear,
                      HasSample(conns[n].records[k], s)
               PROVE  GoneOf(n, k, s)'
    BY <1>1 DEF GoneInv, HasSample
  <2>1. GoneOf(n, k, s)
    BY DEF ClearInv, GoneInv
  <2>2. s <= stored[conns[n].client]
    <3>1. k \in 1..Len(conns[n].records)
      <4>1. /\ conns[n].complete <= Len(conns[n].records)
            /\ conns[n].complete \in Nat /\ Len(conns[n].records) \in Nat
        BY <1>2, ConnectionsAreTyped, ConnectionIsTyped
           DEF ClearInv, StreamInv, PlotInv
      <4> QED BY <4>1
    <3> QED BY <3>1 DEF ClearInv, NumberInv
  <2>3. ~ Holds(d_samples'[conns[n].client], s)
    <3>1. /\ ~ Holds(d_samples[conns[n].client], s)
          /\ conns[n].client \in Clients
      BY <1>2, <2>1 DEF GoneOf
    <3>2. conns[n].client = c => s # stored[c] + 1
      BY <1>3, <2>2
    <3> QED BY <1>4, <3>1, <3>2
  <2>4. (~ Holds(d_samples[conns[n].client], s))'
    BY <1>1, <2>3 DEF Holds
  <2> QED BY <1>1, <2>1, <2>4 DEF GoneOf, Later, HasSample
<1> QED BY <1>5, <1>6 DEF ClearInv

LEMMA AnalyzeKeepsCleared ==
    ASSUME ClearInv, StreamInv', NEW c \in Clients, NEW clear \in BOOLEAN,
           analyze_samples(c, clear)
    PROVE  ClearInv'
<1> DEFINE r == [samples |-> d_samples[c], clear |-> clear]
<1>1. /\ Len(conns') = Len(conns) /\ r \in Record
      /\ \A n \in 1..Len(conns) :
            /\ n # d_socket[c] => conns'[n] = conns[n]
            /\ n = d_socket[c] => conns'[n] =
                  [conns[n] EXCEPT !.records = Append(@, r)]
  BY AnalyzeTypes DEF ClearInv, StreamInv
<1>2. UNCHANGED <<d_samples, stored>>
  BY DEF analyze_samples
<1>3. ASSUME NEW n \in 1..Len(conns)
      PROVE  /\ conns'[n].client = conns[n].client /\ conns[n].client \in Clients
             /\ conns'[n].complete = conns[n].complete
             /\ conns[n].records \in Seq(Record) /\ Len(conns[n].records) \in Nat
             /\ conns[n].complete \in Nat
             /\ conns[n].complete <= Len(conns[n].records)
             /\ n # d_socket[c] => conns'[n].records = conns[n].records
             /\ n = d_socket[c] =>
                   /\ conns'[n].records = Append(conns[n].records, r)
                   /\ conns[n].client = c
  <2> HIDE DEF r
  <2>1. conns[n] \in Connection /\ n # 0
    BY ConnectionsAreTyped DEF ClearInv, StreamInv
  <2>2. n = d_socket[c] => conns[n].client = c
    BY <2>1 DEF ClearInv, StreamInv, SocketInv
  <2>3. /\ conns[n].records \in Seq(Record) /\ Len(conns[n].records) \in Nat
        /\ conns[n].client \in Clients /\ conns[n].complete \in Nat
        /\ conns[n].complete <= Len(conns[n].records)
    BY <2>1, ConnectionIsTyped DEF ClearInv, StreamInv, PlotInv
  <2>4. CASE n # d_socket[c]
    BY <1>1, <2>3, <2>4
  <2>5. CASE n = d_socket[c]
    BY <1>1, <2>1, <2>2, <2>3, <2>5 DEF Connection
  <2> QED BY <2>4, <2>5
<1>4. ASSUME NEW n \in 1..Len(conns), NEW j \in 1..Len(conns'[n].records)
      PROVE  \/ j \in 1..Len(conns[n].records)
                /\ conns'[n].records[j] = conns[n].records[j]
             \/ conns[n].client = c /\ conns'[n].records[j] = r
  <2> HIDE DEF r
  <2>1. CASE n # d_socket[c]
    BY <1>3, <1>4, <2>1
  <2>2. CASE n = d_socket[c]
    <3> DEFINE records == conns[n].records
    <3>1. /\ conns'[n].records = Append(records, r) /\ conns[n].client = c
          /\ records \in Seq(Record) /\ Len(records) \in Nat
      BY <1>3, <2>2
    <3> HIDE DEF records
    <3>2. /\ Len(Append(records, r)) = Len(records) + 1
          /\ \A i \in 1..Len(records) : Append(records, r)[i] = records[i]
          /\ Append(records, r)[Len(records) + 1] = r
      BY <1>1, <3>1, AppendProperties
    <3>3. j \in 1..Len(records) \/ j = Len(records) + 1
      BY <1>4, <3>1, <3>2
    <3> QED BY <3>1, <3>2, <3>3 DEF records
  <2> QED BY <2>1, <2>2
<1>5. \A s : HasSample(r, s) <=> Holds(d_samples[c], s)
  BY DEF HasSample, Holds
<1>6. ASSUME NEW n \in 1..Len(conns), NEW k \in 1..conns[n].complete
      PROVE  /\ k \in 1..Len(conns[n].records)
             /\ conns'[n].records[k] = conns[n].records[k]
  <2> HIDE DEF r
  <2>1. k \in 1..Len(conns[n].records)
    BY <1>3
  <2> QED BY <1>1, <1>3, <2>1, AppendProperties
<1> HIDE DEF r
<1>7. NumberInv'
  <2>1. \A b \in Clients : \A s \in 1..MaxSamples :
           Holds(d_samples[b], s) => s <= stored[b]
    BY DEF ClearInv, NumberInv
  <2>2. ASSUME NEW n \in 1..Len(conns), NEW j \in 1..Len(conns'[n].records),
               NEW s \in 1..MaxSamples, HasSample(conns'[n].records[j], s)
        PROVE  s <= stored[conns[n].client]
    <3>1. CASE j \in 1..Len(conns[n].records)
               /\ conns'[n].records[j] = conns[n].records[j]
      <4>1. HasSample(conns[n].records[j], s)
        BY <2>2, <3>1
      <4> QED BY <3>1, <4>1 DEF ClearInv, NumberInv
    <3>2. CASE conns[n].client = c /\ conns'[n].records[j] = r
      BY <1>5, <2>1, <2>2, <3>2
    <3> QED BY <1>4, <3>1, <3>2
  <2>3. \A n \in 1..Len(conns) : conns'[n].client = conns[n].client
    BY <1>3
  <2> QED BY <1>1, <1>2, <2>1, <2>2, <2>3 DEF NumberInv, HasSample, Holds
<1>8. GoneInv'
  <2> SUFFICES ASSUME NEW n \in 1..Len(conns), NEW k \in 1..conns[n].complete,
                      NEW s \in 1..MaxSamples, conns'[n].records[k].clear,
                      HasSample(conns[n].records[k], s)'
               PROVE  GoneOf(n, k, s)'
    BY <1>1, <1>3 DEF GoneInv
  <2>1. GoneOf(n, k, s)
    <3>1. conns[n].records[k].clear /\ HasSample(conns[n].records[k], s)
      BY <1>6 DEF HasSample
    <3> QED BY <3>1 DEF ClearInv, GoneInv
  <2>2. (~ Holds(d_samples[conns[n].client], s))'
    BY <1>2, <1>3, <2>1 DEF GoneOf, Holds
  <2>3. ASSUME NEW m \in 1..Len(conns), NEW j \in 1..Len(conns'[m].records),
               Later(n, k, m, j)'
        PROVE  ~ HasSample(conns'[m].records[j], s)
    <3>1. CASE j \in 1..Len(conns[m].records)
               /\ conns'[m].records[j] = conns[m].records[j]
      <4>1. Later(n, k, m, j)
        BY <1>3, <2>3 DEF Later
      <4>2. ~ HasSample(conns[m].records[j], s)
        BY <2>1, <3>1, <4>1 DEF GoneOf
      <4> QED BY <3>1, <4>2
    <3>2. CASE conns[m].client = c /\ conns'[m].records[j] = r
      <4>1. conns[n].client = c
        BY <1>3, <2>3, <3>2 DEF Later
      <4>2. ~ Holds(d_samples[c], s)
        BY <2>1, <4>1 DEF GoneOf
      <4> QED BY <1>5, <3>2, <4>2
    <3> QED BY <1>4, <3>1, <3>2
  <2> QED BY <1>1, <2>2, <2>3 DEF GoneOf, HasSample
<1> QED BY <1>7, <1>8 DEF ClearInv

(* The record that send() is about: the last, and the only one that is     *)
(* not complete.                                                           *)
LEMMA SendsLastRecord ==
    ASSUME StreamInv, NEW c \in Clients, NEW k, SendTakes(c, k)
    PROVE  LET n == d_socket[c]
               records == conns[n].records
           IN  /\ n \in 1..Len(conns) /\ conns[n].client = c
               /\ Len(records) \in Nat \ {0}
               /\ conns[n].complete = Len(records) - 1
               /\ records[Len(records)] =
                     [samples |-> d_samples[c], clear |-> call[c].clear]
               /\ \A m \in 1..Len(conns) : m > n => conns[m].client # c
<1> DEFINE n == d_socket[c]
           records == conns[n].records
<1>1. n \in 1..Len(conns) /\ n # 0 /\ call[c] # NoCall /\ Live(n)
  BY DEF SendTakes, Live
<1>2. /\ records # <<>>
      /\ records[Len(records)] = [samples |-> d_samples[c], clear |-> call[c].clear]
  BY <1>1 DEF StreamInv, CallInv
<1>3. /\ conns[n].client = c
      /\ \A m \in 1..Len(conns) : m > n => conns[m].client # c
  BY <1>1 DEF StreamInv, SocketInv
<1>4. records \in Seq(Record) /\ Len(records) \in Nat
  BY <1>1, ConnectionsAreTyped, ConnectionIsTyped DEF StreamInv
<1>5. Len(records) # 0
  BY <1>2, <1>4, EmptySeq
<1>6. Owed(c) \in Nat /\ Owed(c) # 0
  BY SendOwes DEF StreamInv
<1>7. PICK from : \E owed \in Nat : FlowOf(n, from, owed)
  BY <1>1 DEF StreamInv, FlowInv
<1>8. conns[n].complete = Len(records) - (IF Owed(c) = 0 THEN 0 ELSE 1)
  BY <1>7 DEF FlowOf
<1>9. conns[n].complete = Len(records) - 1
  BY <1>6, <1>8
<1> QED BY <1>1, <1>2, <1>3, <1>4, <1>5, <1>9

LEMMA SendKeepsCleared ==
    ASSUME ClearInv, StreamInv', NEW c \in Clients, NEW k, SendTakes(c, k)
    PROVE  ClearInv'
<1> DEFINE n == d_socket[c]
           records == conns[n].records
           rest == call[c].rest
           last == Len(records)
<1>1. /\ Len(conns') = Len(conns) /\ n \in 1..Len(conns)
      /\ \A m \in 1..Len(conns) : m # n => conns'[m] = conns[m]
      /\ conns'[n] = [conns[n] EXCEPT
            !.stream = @ \o SubSeq(rest, 1, k),
            !.complete = IF call'[c] = NoCall THEN @ + 1 ELSE @]
      /\ \A b \in Clients : b # c => d_samples'[b] = d_samples[b]
      /\ stored' = stored
  BY SendTypes DEF ClearInv, StreamInv, SendTakes
<1>2. /\ n \in 1..Len(conns) /\ conns[n].client = c
      /\ last \in Nat \ {0} /\ conns[n].complete = last - 1
      /\ records[last] = [samples |-> d_samples[c], clear |-> call[c].clear]
      /\ \A m \in 1..Len(conns) : m > n => conns[m].client # c
  BY SendsLastRecord DEF ClearInv
<1>3. ASSUME NEW m \in 1..Len(conns)
      PROVE  /\ conns'[m].client = conns[m].client /\ conns[m].client \in Clients
             /\ conns'[m].records = conns[m].records
             /\ m # n => conns'[m].complete = conns[m].complete
             /\ m = n => conns'[m].complete =
                            IF call'[c] = NoCall THEN last ELSE conns[m].complete
  <2>1. conns[m] \in Connection
    BY ConnectionsAreTyped DEF ClearInv, StreamInv
  <2>2. CASE m # n
    BY <1>1, <2>1, <2>2 DEF Connection
  <2>3. CASE m = n
    <3> HIDE DEF n, rest
    <3>1. /\ conns'[n].client = conns[n].client
          /\ conns'[n].records = conns[n].records
          /\ conns'[n].complete =
                IF call'[c] = NoCall THEN conns[n].complete + 1
                ELSE conns[n].complete
      BY <1>1, <2>1, <2>3 DEF Connection
    <3>2. conns[n].complete + 1 = last
      BY <1>2
    <3> QED BY <2>1, <2>3, <3>1, <3>2, ConnectionIsTyped
  <2> QED BY <2>2, <2>3
<1>4. /\ d_samples'[c] \in {d_samples[c], <<>>}
      /\ call'[c] = NoCall /\ call[c].clear => d_samples'[c] = <<>>
  <2>1. CASE k = Len(rest)
    <3>1. Sent(c) /\ StreamTypeOK
      BY <2>1 DEF SendTakes, ClearInv, StreamInv
    <3>2. /\ call[c].phase = "header" /\ d_samples[c] # <<>> =>
                /\ call'[c].phase = "payload"
                /\ d_samples'[c] = d_samples[c]
          /\ ~ (call[c].phase = "header" /\ d_samples[c] # <<>>) =>
                d_samples'[c] = IF call[c].clear THEN <<>> ELSE d_samples[c]
      <4>1. call[c].phase = "header" /\ d_samples[c] # <<>> =>
               /\ call'[c] = [phase |-> "payload", rest |-> Bytes(d_samples[c]),
                              taken |-> 0, clear |-> call[c].clear]
               /\ d_samples'[c] = d_samples[c]
        BY <3>1, SentTypes
      <4>2. ~ (call[c].phase = "header" /\ d_samples[c] # <<>>) =>
               d_samples'[c] = IF call[c].clear THEN <<>> ELSE d_samples[c]
        BY <3>1, SentTypes
      <4> QED BY <4>1, <4>2
    <3>3. call'[c] = NoCall => call'[c].phase # "payload"
      BY DEF NoCall
    <3> QED BY <3>2, <3>3
  <2>2. CASE k # Len(rest)
    <3>1. /\ call'[c] = [call[c] EXCEPT
                !.rest = SubSeq(rest, k + 1, Len(rest)), !.taken = @ + k]
          /\ d_samples'[c] = d_samples[c]
      BY <2>2, SendTypes DEF ClearInv, StreamInv
    <3>2. call[c] \in Call /\ call[c].phase \in {"header", "payload"}
      BY DebuggerIsTyped DEF ClearInv, StreamInv, CallInv, SendTakes
    <3>3. call'[c].phase = call[c].phase
      BY <3>1, <3>2 DEF Call
    <3>4. call'[c] = NoCall => call'[c].phase = "none"
      BY DEF NoCall
    <3> QED BY <3>1, <3>2, <3>3, <3>4
  <2> QED BY <2>1, <2>2
<1>5. \A s : ~ Holds(<<>>, s)
  BY EmptySeq DEF Holds
<1>6. \A b \in Clients : \A s \in 1..MaxSamples :
         Holds(d_samples'[b], s) => Holds(d_samples[b], s)
  BY <1>1, <1>4, <1>5
<1>7. CASE call'[c] # NoCall
  <2>1. \A m \in 1..Len(conns) :
           /\ conns'[m].client = conns[m].client
           /\ conns'[m].records = conns[m].records
           /\ conns'[m].complete = conns[m].complete
    BY <1>3, <1>7
  <2>2. Len(conns') >= Len(conns) /\ \A m \in 1..Len(conns') : ~ (m > Len(conns))
    BY <1>1, ConnectionsAreTyped DEF ClearInv, StreamInv
  <2> QED BY <1>1, <1>6, <2>1, <2>2, ClearedKept
<1>8. CASE call'[c] = NoCall
  <2>1. NumberInv'
    <3>1. ASSUME NEW b \in Clients, NEW s \in 1..MaxSamples, Holds(d_samples[b], s)'
          PROVE  s <= stored[b]
      BY <1>6, <3>1 DEF ClearInv, NumberInv, Holds
    <3>2. ASSUME NEW m \in 1..Len(conns), NEW j \in 1..Len(conns[m].records),
                 NEW s \in 1..MaxSamples, HasSample(conns[m].records[j], s)
          PROVE  s <= stored[conns[m].client]
      BY <3>2 DEF ClearInv, NumberInv
    <3> QED BY <1>1, <1>3, <3>1, <3>2 DEF NumberInv, HasSample
  <2>2. GoneInv'
    <3> HIDE DEF n, records, last
    <3> SUFFICES ASSUME NEW m \in 1..Len(conns), NEW i \in 1..conns'[m].complete,
                        NEW s \in 1..MaxSamples, conns[m].records[i].clear,
                        HasSample(conns[m].records[i], s)
                 PROVE  GoneOf(m, i, s)'
      BY <1>1, <1>3 DEF GoneInv, HasSample
    <3>1. /\ ~ Holds(d_samples'[conns[m].client], s)
          /\ \A l \in 1..Len(conns) : \A j \in 1..Len(conns[l].records) :
                Later(m, i, l, j) => ~ HasSample(conns[l].records[j], s)
      <4>1. CASE i \in 1..conns[m].complete
        <5>1. GoneOf(m, i, s)
          BY <4>1 DEF ClearInv, GoneInv
        <5> QED BY <1>3, <1>6, <5>1 DEF GoneOf
      <4>2. CASE m = n /\ i = last
        <5>1. call[c].clear
          BY <1>2, <4>2 DEF records
        <5>2. d_samples'[conns[m].client] = <<>>
          BY <1>2, <1>4, <1>8, <4>2, <5>1
        <5>3. \A l \in 1..Len(conns) : \A j \in 1..Len(conns[l].records) :
                 ~ Later(m, i, l, j)
          <6> SUFFICES ASSUME NEW l \in 1..Len(conns),
                              NEW j \in 1..Len(conns[l].records), Later(m, i, l, j)
                       PROVE  FALSE
            OBVIOUS
          <6>1. conns[l].client = c
            BY <1>2, <4>2 DEF Later
          <6>2. l = n /\ j > last
            BY <1>2, <4>2, <6>1 DEF Later
          <6> QED BY <1>2, <6>2 DEF last, records
        <5> QED BY <1>5, <5>2, <5>3
      <4>3. i \in 1..conns[m].complete \/ (m = n /\ i = last)
        <5>1. CASE m # n
          BY <1>3, <5>1
        <5>2. CASE m = n
          <6>1. conns'[m].complete = last /\ conns[m].complete = last - 1
            BY <1>2, <1>3, <1>8, <5>2
          <6> QED BY <1>2, <5>2, <6>1
        <5> QED BY <5>1, <5>2
      <4> QED BY <4>1, <4>2, <4>3
    <3>2. (~ Holds(d_samples[conns[m].client], s))'
      BY <1>3, <3>1 DEF Holds
    <3>3. ASSUME NEW l \in 1..Len(conns), NEW j \in 1..Len(conns'[l].records),
                 Later(m, i, l, j)'
          PROVE  (~ HasSample(conns[l].records[j], s))'
      <4>1. Later(m, i, l, j)
        BY <1>3, <3>3 DEF Later
      <4>2. conns'[l].records = conns[l].records
        BY <1>3
      <4>3. ~ HasSample(conns[l].records[j], s)
        BY <3>1, <4>1, <4>2
      <4> QED BY <4>2, <4>3 DEF HasSample
    <3> QED BY <1>1, <3>2, <3>3 DEF GoneOf
  <2> QED BY <2>1, <2>2 DEF ClearInv
<1> QED BY <1>7, <1>8

(* The steps that only move bytes, or that drop samples.                   *)
LEMMA OthersKeepCleared ==
    ASSUME ClearInv, StreamInv', NEW c \in Clients,
           \/ Attach(c) \/ AttachRefused(c) \/ Detach(c) \/ SendFails(c)
           \/ DebuggerEnds(c)
    PROVE  ClearInv'
<1>1. StreamTypeOK /\ Len(conns) \in Nat /\ \A s : ~ Holds(<<>>, s)
  BY ConnectionsAreTyped, EmptySeq DEF ClearInv, StreamInv, Holds
<1>2. CASE Attach(c)
  <2>1. /\ Len(conns') = Len(conns) + 1
        /\ \A n \in 1..Len(conns) : conns'[n] = conns[n]
        /\ conns'[Len(conns) + 1].records = <<>>
        /\ conns'[Len(conns) + 1].complete = 0
    <3>1. /\ Len(conns') = Len(conns) + 1
          /\ \A n \in 1..Len(conns) : conns'[n] = conns[n]
          /\ conns'[Len(conns) + 1] =
                [client |-> c, stream |-> <<>>, open |-> TRUE,
                 end |-> "waiting", records |-> <<>>, complete |-> 0]
      BY <1>1, <1>2, AttachTypes
    <3> QED BY <3>1
  <2>2. stored' = stored /\ d_samples' = d_samples
    BY <1>2 DEF Attach
  <2>3. \A n \in 1..Len(conns') : n > Len(conns) => n = Len(conns) + 1
    BY <1>1, <2>1
  <2>4. \A n \in 1..Len(conns') : n > Len(conns) =>
           conns'[n].records = <<>> /\ conns'[n].complete = 0
    BY <2>1, <2>3
  <2>5. Len(conns') >= Len(conns)
    BY <1>1, <2>1
  <2> QED BY <2>1, <2>2, <2>4, <2>5, ClearedKept
<1>3. CASE AttachRefused(c)
  <2>1. UNCHANGED <<stored, d_samples, conns>>
    BY <1>3 DEF AttachRefused
  <2>2. Len(conns') >= Len(conns) /\ \A n \in 1..Len(conns') : ~ (n > Len(conns))
    BY <1>1, <2>1
  <2> QED BY <2>1, <2>2, ClearedKept
<1>4. CASE Detach(c)
  <2>1. OnlyOpenChanged /\ UNCHANGED <<stored, d_samples>>
    BY <1>1, <1>4, DetachTypes DEF Detach
  <2>2. Len(conns') >= Len(conns) /\ \A n \in 1..Len(conns') : ~ (n > Len(conns))
    BY <1>1, <2>1 DEF OnlyOpenChanged
  <2> QED BY <2>1, <2>2, ClearedKept DEF OnlyOpenChanged
<1>5. CASE SendFails(c)
  <2>1. UNCHANGED <<stored, conns>>
    BY <1>5 DEF SendFails
  <2>2. \A b \in Clients : \A s \in 1..MaxSamples :
           Holds(d_samples'[b], s) => Holds(d_samples[b], s)
    <3>1. \A b \in Clients : b # c => d_samples'[b] = d_samples[b]
      BY <1>1, <1>5, SendFailsTypes
    <3>2. d_samples'[c] \in {d_samples[c], <<>>}
      <4>1. Sent(c) => d_samples'[c] \in {d_samples[c], <<>>}
        BY <1>1, SentTypes
      <4> QED BY <1>5, <4>1 DEF SendFails
    <3> QED BY <1>1, <3>1, <3>2
  <2>3. Len(conns') >= Len(conns) /\ \A n \in 1..Len(conns') : ~ (n > Len(conns))
    BY <1>1, <2>1
  <2> QED BY <2>1, <2>2, <2>3, ClearedKept
<1>6. CASE DebuggerEnds(c)
  <2>1. OnlyOpenChanged /\ stored' = stored
        /\ d_samples' = [d_samples EXCEPT ![c] = <<>>]
    BY <1>1, <1>6, DebuggerEndsTypes DEF DebuggerEnds
  <2>2. \A b \in Clients : \A s \in 1..MaxSamples :
           Holds(d_samples'[b], s) => Holds(d_samples[b], s)
    BY <1>1, <2>1 DEF StreamTypeOK
  <2>3. Len(conns') >= Len(conns) /\ \A n \in 1..Len(conns') : ~ (n > Len(conns))
    BY <1>1, <2>1 DEF OnlyOpenChanged
  <2> QED BY <2>1, <2>2, <2>3, ClearedKept DEF OnlyOpenChanged
<1> QED BY <1>2, <1>3, <1>4, <1>5, <1>6

LEMMA AnalyzerKeepsCleared ==
    ASSUME ClearInv, StreamInv',
           PlotterStep \/ AnalyzerEnds \/ init_socket \/ UNCHANGED streamVars
    PROVE  ClearInv'
<1>1. StreamTypeOK /\ Len(conns) \in Nat
  BY ConnectionsAreTyped DEF ClearInv, StreamInv
<1>2. UNCHANGED <<stored, d_samples>>
  BY DEF PlotterStep, Accept, get_data, ConnectionReset, ReadHeader, PlotData,
         AnalyzerEnds, init_socket, streamVars, debuggerVars
<1>3. /\ Len(conns') = Len(conns)
      /\ \A n \in 1..Len(conns) :
            /\ conns'[n].client = conns[n].client
            /\ conns'[n].records = conns[n].records
            /\ conns'[n].complete = conns[n].complete
  <2>1. ASSUME NEW n \in 1..Len(conns), NEW e, NEW t,
               \/ conns'[n] = conns[n]
               \/ conns'[n] = [conns[n] EXCEPT !.end = e]
               \/ conns'[n] = [conns[n] EXCEPT !.stream = t]
        PROVE  /\ conns'[n].client = conns[n].client
               /\ conns'[n].records = conns[n].records
               /\ conns'[n].complete = conns[n].complete
    <3>1. conns[n] \in Connection
      BY <1>1, ConnectionsAreTyped
    <3> QED BY <2>1, <3>1 DEF Connection
  <2>2. CASE Accept
    BY <1>1, <2>1, <2>2, AcceptTypes
  <2>3. CASE get_data
    <3>1. PICK k \in 1..Len(conns[client_socket].stream) : RecvReturns(k)
      BY <1>1, <2>3, GetIsReturning
    <3> DEFINE t == SubSeq(conns[client_socket].stream, k + 1,
                           Len(conns[client_socket].stream))
    <3>2. /\ Len(conns') = Len(conns)
          /\ \A m \in 1..Len(conns) :
                m # client_socket => conns'[m] = conns[m]
          /\ conns'[client_socket] = [conns[client_socket] EXCEPT !.stream = t]
      BY <1>1, <3>1, GetTypes
    <3> HIDE DEF t
    <3> QED BY <2>1, <3>2
  <2>4. CASE ConnectionReset
    BY <1>1, <2>1, <2>4, ResetTypes
  <2>5. CASE AnalyzerEnds
    BY <1>1, <2>5, AnalyzerEndsTypes
  <2>6. CASE ReadHeader \/ PlotData \/ init_socket \/ UNCHANGED streamVars
    BY <2>6 DEF ReadHeader, PlotData, init_socket, streamVars
  <2> QED BY <2>2, <2>3, <2>4, <2>5, <2>6 DEF PlotterStep
<1>4. Len(conns') >= Len(conns) /\ \A n \in 1..Len(conns') : ~ (n > Len(conns))
  BY <1>1, <1>3
<1> QED BY <1>2, <1>3, <1>4, ClearedKept

LEMMA ClearInvInit == StreamInit => ClearInv
<1> SUFFICES ASSUME StreamInit PROVE ClearInv
  OBVIOUS
<1>1. conns = <<>> /\ \A n \in 1..Len(conns) : FALSE
  BY EmptySeq DEF StreamInit
<1>2. \A c \in Clients : \A s : ~ Holds(d_samples[c], s)
  BY EmptySeq DEF StreamInit, Holds
<1> QED BY <1>1, <1>2, StreamInvInit DEF ClearInv, NumberInv, GoneInv

LEMMA ClearInvNext ==
    ASSUME ClearInv, [StreamNext]_streamVars
    PROVE  ClearInv'
<1>1. StreamInv'
  BY StreamInvNext DEF ClearInv
<1>2. ASSUME NEW c \in Clients, DebuggerStep(c)
      PROVE  ClearInv'
  <2>1. CASE Send(c)
    <3>1. PICK k \in 1..Len(call[c].rest) : SendTakes(c, k)
      BY <2>1, SendIsTaking DEF ClearInv, StreamInv
    <3> QED BY <1>1, <3>1, SendKeepsCleared
  <2>2. ASSUME NEW clear \in BOOLEAN, analyze_samples(c, clear)
        PROVE  ClearInv'
    BY <1>1, <2>2, AnalyzeKeepsCleared
  <2>3. CASE store_samples(c)
    BY <1>1, <2>3, StoreKeepsCleared
  <2> QED BY <1>1, <1>2, <2>1, <2>2, <2>3, OthersKeepCleared DEF DebuggerStep
<1> QED BY <1>1, <1>2, AnalyzerKeepsCleared DEF StreamNext

(* A sample whose record was sent to be cleared, and was plotted, is not   *)
(* plotted again in any later record, over this connection or another:     *)
(* what could not be sent is sent again, what was sent is gone.            *)
THEOREM ClearedIsGone == StreamSpec => []ClearedPlottedOnce
<1>1. ClearInv => ClearedPlottedOnce
  <2> SUFFICES ASSUME ClearInv,
                      NEW n \in 1..Len(conns), NEW k \in 1..Len(plots[n]),
                      conns[n].records[k].clear,
                      NEW m \in n..Len(conns), NEW j \in 1..Len(plots[m]),
                      conns[m].client = conns[n].client, m > n \/ j > k,
                      NEW s \in 1..MaxSamples,
                      HasSample(conns[n].records[k], s),
                      HasSample(conns[m].records[j], s)
               PROVE  FALSE
    BY DEF ClearedPlottedOnce
  <2>1. Len(conns) \in Nat /\ StreamTypeOK
    BY ConnectionsAreTyped DEF ClearInv, StreamInv
  <2>2. m \in 1..Len(conns) /\ (m > n \/ m = n)
    BY <2>1
  <2>3. ASSUME NEW l \in 1..Len(conns)
        PROVE  /\ Len(plots[l]) \in Nat /\ Len(plots[l]) <= conns[l].complete
               /\ conns[l].complete \in Nat /\ Len(conns[l].records) \in Nat
               /\ conns[l].complete <= Len(conns[l].records)
    <3>1. PlotInv(l)
      BY DEF ClearInv, StreamInv
    <3>2. /\ Len(plots[l]) \in Nat /\ conns[l].complete \in Nat
          /\ Len(conns[l].records) \in Nat
      BY <2>1, ConnectionsAreTyped, ConnectionIsTyped, LenProperties
    <3> QED BY <3>1, <3>2 DEF PlotInv
  <2>4. k \in 1..conns[n].complete
    BY <2>3
  <2>5. j \in 1..Len(conns[m].records)
    BY <2>2, <2>3
  <2>6. GoneOf(n, k, s)
    BY <2>4 DEF ClearInv, GoneInv
  <2>7. Later(n, k, m, j)
    BY <2>2 DEF Later
  <2> QED BY <2>2, <2>5, <2>6, <2>7 DEF GoneOf
<1>2. ClearInv /\ [StreamNext]_streamVars => ClearInv'
  BY ClearInvNext
<1> QED BY <1>1, <1>2, ClearInvInit, PTL DEF StreamSpec
=============================================================================
