---------------------------- MODULE DebugStream ----------------------------
(***************************************************************************)
(* lib/debugger.cc and apps/grlora_analyze.py: a debugger sends the        *)
(* samples it stored, behind a header with their length, through a stream  *)
(* socket to the analyzer, which cuts the stream into records again and    *)
(* plots each.                                                             *)
(*                                                                         *)
(* Each debugger runs in the thread of its owner, which may call it in any *)
(* order; send() returns when the kernel took all the bytes, or fewer when *)
(* the analyzer went away in between.  The analyzer serves one connection  *)
(* at a time, the others wait in the queue of its listening socket.        *)
(* Either program may be ended and started again at any time.              *)
(*                                                                         *)
(* A byte is what it is a piece of: <<"header", length, k>>, or            *)
(* <<"sample", number, k>> with the samples of a debugger numbered.        *)
(***************************************************************************)
EXTENDS Naturals, Sequences, FiniteSets

CONSTANTS
    Clients,        \* the debuggers
    HeaderBytes,    \* sizeof(debugger::header), 5
    SampleBytes,    \* sizeof(gr_complex), 8
    SocketBuffer,   \* bytes the kernel keeps for a connection
    Backlog,        \* connections that wait to be accepted
    MaxSamples,     \* samples a debugger stores (a bound)
    MaxCalls,       \* calls of analyze_samples() on a connection (a bound)
    MaxConnections  \* connections that are made (a bound)

ASSUME SizesAssumption ==
    /\ {HeaderBytes, SampleBytes, SocketBuffer, Backlog} \subseteq Nat \ {0}
    /\ {MaxSamples, MaxCalls, MaxConnections} \subseteq Nat

VARIABLES
    d_attached,
    d_socket,       \* the connection it is, 0: not connected
    d_samples,
    stored,         \* how many samples a debugger was given while attached
    call,           \* the call of analyze_samples() that is under way
    conns,          \* the connections made so far
    analyzer,       \* the analyzer runs
    client_socket,  \* the connection it serves, 0: none
    state,
    data,
    data_len,
    plots           \* the bytes it plotted, for each connection

debuggerVars == <<d_attached, d_socket, d_samples, stored, call>>
plotterVars  == <<client_socket, state, data, data_len, plots>>
streamVars   == <<debuggerVars, conns, analyzer, plotterVars>>

NoCall == [phase |-> "none", rest |-> <<>>, taken |-> 0, clear |-> FALSE]

Header(length) == [k \in 1..HeaderBytes |-> <<"header", length, k>>]

Bytes(samples) ==
    [j \in 1..(Len(samples) * SampleBytes) |->
        <<"sample", samples[(j - 1) \div SampleBytes + 1],
          ((j - 1) % SampleBytes) + 1>>]

StreamInit ==
    /\ d_attached = [c \in Clients |-> FALSE]
    /\ d_socket = [c \in Clients |-> 0]
    /\ d_samples = [c \in Clients |-> <<>>]
    /\ stored = [c \in Clients |-> 0]
    /\ call = [c \in Clients |-> NoCall]
    /\ conns = <<>>
    /\ analyzer \in BOOLEAN
    /\ client_socket = 0
    /\ state = "READ_HEADER"
    /\ data = <<>>
    /\ data_len = 0
    /\ plots = [n \in 1..MaxConnections |-> <<>>]

-----------------------------------------------------------------------------
(* debugger::attach(): the former socket is neither closed nor remembered. *)

Waiting == {n \in 1..Len(conns) : conns[n].end = "waiting"}

Attach(c) ==
    /\ call[c] = NoCall
    /\ analyzer
    /\ Cardinality(Waiting) < Backlog
    /\ Len(conns) < MaxConnections
    /\ conns' = Append(conns, [client |-> c, stream |-> <<>>, open |-> TRUE,
                               end |-> "waiting", records |-> <<>>,
                               complete |-> 0])
    /\ d_socket' = [d_socket EXCEPT ![c] = Len(conns')]
    /\ d_attached' = [d_attached EXCEPT ![c] = TRUE]
    /\ UNCHANGED <<d_samples, stored, call, analyzer, plotterVars>>

(* Nobody listens: the debugger stays attached if it was.                  *)
AttachRefused(c) ==
    /\ call[c] = NoCall
    /\ ~ analyzer
    /\ d_socket' = [d_socket EXCEPT ![c] = 0]
    /\ UNCHANGED <<d_attached, d_samples, stored, call, conns, analyzer,
                   plotterVars>>

Detach(c) ==
    /\ call[c] = NoCall
    /\ d_attached[c]
    /\ d_attached' = [d_attached EXCEPT ![c] = FALSE]
    /\ conns' = [n \in 1..Len(conns) |->
                    [conns[n] EXCEPT !.open = @ /\ n # d_socket[c]]]
    /\ UNCHANGED <<d_socket, d_samples, stored, call, analyzer, plotterVars>>

store_samples(c) ==
    /\ call[c] = NoCall
    /\ d_attached[c]
    /\ stored[c] < MaxSamples
    /\ stored' = [stored EXCEPT ![c] = @ + 1]
    /\ d_samples' = [d_samples EXCEPT ![c] = Append(@, stored'[c])]
    /\ UNCHANGED <<d_attached, d_socket, call, conns, analyzer, plotterVars>>

-----------------------------------------------------------------------------
(* debugger::analyze_samples(): send() the header, send() the payload.     *)

Connected(c) ==
    d_socket[c] # 0 /\ conns[d_socket[c]].end \in {"waiting", "served"}

analyze_samples(c, clear) ==
    /\ call[c] = NoCall
    /\ d_attached[c]
    /\ d_socket[c] # 0 => Len(conns[d_socket[c]].records) < MaxCalls
    /\ call' = [call EXCEPT ![c] =
                   [phase |-> "header", taken |-> 0, clear |-> clear,
                    rest |-> Header(Len(d_samples[c]) * SampleBytes)]]
    /\ conns' = [n \in 1..Len(conns) |->
                    IF n = d_socket[c]
                    THEN [conns[n] EXCEPT !.records =
                             Append(@, [samples |-> d_samples[c], clear |-> clear])]
                    ELSE conns[n]]
    /\ UNCHANGED <<d_attached, d_socket, d_samples, stored, analyzer,
                   plotterVars>>

(* Variation: the samples are cleared unless the caller asks for it.       *)
ClearedUnlessAsked(samples, clear) == IF clear THEN samples ELSE <<>>
ClearedIfAsked(samples, clear) == IF clear THEN <<>> ELSE samples

(* send() returned something else than -1.                                 *)
Sent(c) ==
    IF call[c].phase = "header" /\ d_samples[c] # <<>>
    THEN /\ call' = [call EXCEPT ![c] =
                        [phase |-> "payload", rest |-> Bytes(d_samples[c]),
                         taken |-> 0, clear |-> @.clear]]
         /\ UNCHANGED d_samples
    ELSE /\ call' = [call EXCEPT ![c] = NoCall]
         /\ d_samples' = [d_samples EXCEPT ![c] = ClearedIfAsked(@, call[c].clear)]

(* The kernel takes some of the bytes, the last ones if there is room.     *)
Room(n) == SocketBuffer - Len(conns[n].stream)

Send(c) ==
    /\ call[c] # NoCall
    /\ Connected(c)
    /\ LET n == d_socket[c]
           rest == call[c].rest
       IN  \E k \in 1..Len(rest) :
             /\ k <= Room(n)
             /\ IF k = Len(rest)
                THEN Sent(c)
                ELSE /\ call' = [call EXCEPT ![c].rest = SubSeq(rest, k + 1, Len(rest)),
                                             ![c].taken = @ + k]
                     /\ UNCHANGED d_samples
             /\ conns' = [conns EXCEPT
                   ![n].stream = @ \o SubSeq(rest, 1, k),
                   ![n].complete = IF call'[c] = NoCall THEN @ + 1 ELSE @]
    /\ UNCHANGED <<d_attached, d_socket, stored, analyzer, plotterVars>>

(* The analyzer is gone: -1 if no byte was taken, else their number, which *)
(* nobody compares with what was to be sent.                               *)
SendFails(c) ==
    /\ call[c] # NoCall
    /\ ~ Connected(c)
    /\ IF call[c].taken > 0
       THEN Sent(c)
       ELSE call' = [call EXCEPT ![c] = NoCall] /\ UNCHANGED d_samples
    /\ UNCHANGED <<d_attached, d_socket, stored, conns, analyzer, plotterVars>>

(* The program it is part of ends, in the middle of a call perhaps, and is *)
(* started again: the kernel closes its sockets, what it took stays there. *)
DebuggerEnds(c) ==
    /\ d_attached[c]
    /\ d_attached' = [d_attached EXCEPT ![c] = FALSE]
    /\ d_socket' = [d_socket EXCEPT ![c] = 0]
    /\ d_samples' = [d_samples EXCEPT ![c] = <<>>]
    /\ call' = [call EXCEPT ![c] = NoCall]
    /\ conns' = [n \in 1..Len(conns) |->
                    [conns[n] EXCEPT !.open = @ /\ conns[n].client # c]]
    /\ UNCHANGED <<stored, analyzer, plotterVars>>

-----------------------------------------------------------------------------
(* The analyzer: Plotter.run().                                            *)

(* Variation: the bytes of the connection before are still there.          *)
BytesKept == data
NoBytes == <<>>

(* Variation: every connection is taken as soon as it is there.            *)
AlwaysReady == TRUE
Ready == client_socket = 0

Accept ==
    /\ analyzer
    /\ Ready
    /\ \E n \in Waiting :
          /\ \A m \in Waiting : n <= m
          /\ client_socket' = n
          /\ conns' = [conns EXCEPT ![n].end = "served"]
    /\ state' = "READ_HEADER"
    /\ data' = NoBytes
    /\ data_len' = 0
    /\ UNCHANGED <<debuggerVars, analyzer, plots>>

(* Variation: a record is plotted once the byte behind it is there.        *)
HeaderWantsMore == Len(data) < HeaderBytes
DataWantsOneMore == Len(data) <= data_len
DataWantsMore == Len(data) < data_len

WantsMore ==
    \/ state = "READ_HEADER" /\ HeaderWantsMore
    \/ state = "READ_DATA" /\ DataWantsMore

(* get_data(): recv() returns some of the bytes that are there.            *)
get_data ==
    /\ client_socket # 0
    /\ WantsMore
    /\ LET stream == conns[client_socket].stream
       IN  \E k \in 1..Len(stream) :
             /\ data' = data \o SubSeq(stream, 1, k)
             /\ conns' = [conns EXCEPT ![client_socket].stream =
                             SubSeq(@, k + 1, Len(@))]
    /\ UNCHANGED <<debuggerVars, analyzer, client_socket, state, data_len, plots>>

(* None are, and the debugger has detached: the connection is closed.      *)
ConnectionReset ==
    /\ client_socket # 0
    /\ WantsMore
    /\ conns[client_socket].stream = <<>>
    /\ ~ conns[client_socket].open
    /\ conns' = [conns EXCEPT ![client_socket].end = "closed"]
    /\ client_socket' = 0
    /\ UNCHANGED <<debuggerVars, analyzer, state, data, data_len, plots>>

(* What the bytes read as: a header's length, if they are one.             *)
Lengths == {SampleBytes * k : k \in 0..MaxSamples}
Unpacked(bytes) ==
    IF \E l \in Lengths : bytes = Header(l)
    THEN {l \in Lengths : bytes = Header(l)}
    ELSE Lengths

ReadHeader ==
    /\ client_socket # 0
    /\ state = "READ_HEADER"
    /\ ~ HeaderWantsMore
    /\ data_len' \in Unpacked(SubSeq(data, 1, HeaderBytes))
    /\ data' = SubSeq(data, HeaderBytes + 1, Len(data))
    /\ state' = "READ_DATA"
    /\ UNCHANGED <<debuggerVars, conns, analyzer, client_socket, plots>>

PlotData ==
    /\ client_socket # 0
    /\ state = "READ_DATA"
    /\ ~ DataWantsMore
    /\ plots' = [plots EXCEPT ![client_socket] =
                    Append(@, SubSeq(data, 1, data_len))]
    /\ data' = SubSeq(data, data_len + 1, Len(data))
    /\ state' = "READ_HEADER"
    /\ UNCHANGED <<debuggerVars, conns, analyzer, client_socket, data_len>>

(* The program ends, and is started again: init_socket() takes over the    *)
(* path.                                                                   *)
AnalyzerEnds ==
    /\ analyzer
    /\ analyzer' = FALSE
    /\ conns' = [n \in 1..Len(conns) |->
                    IF conns[n].end \in {"waiting", "served"}
                    THEN [conns[n] EXCEPT !.end = "lost", !.stream = <<>>]
                    ELSE conns[n]]
    /\ client_socket' = 0
    /\ UNCHANGED <<debuggerVars, state, data, data_len, plots>>

init_socket ==
    /\ ~ analyzer
    /\ analyzer' = TRUE
    /\ data' = <<>>
    /\ UNCHANGED <<debuggerVars, conns, client_socket, state, data_len, plots>>

-----------------------------------------------------------------------------
DebuggerStep(c) ==
    \/ Attach(c)
    \/ AttachRefused(c)
    \/ Detach(c)
    \/ store_samples(c)
    \/ \E clear \in BOOLEAN : analyze_samples(c, clear)
    \/ Send(c)
    \/ SendFails(c)
    \/ DebuggerEnds(c)

PlotterStep ==
    \/ Accept
    \/ get_data
    \/ ConnectionReset
    \/ ReadHeader
    \/ PlotData

StreamNext ==
    \/ \E c \in Clients : DebuggerStep(c)
    \/ PlotterStep
    \/ AnalyzerEnds
    \/ init_socket

(* The analyzer's thread runs when it can.  Nothing makes a debugger's     *)
(* owner call it, or a program end or start.                               *)
StreamSpec ==
    StreamInit /\ [][StreamNext]_streamVars /\ WF_streamVars(PlotterStep)

-----------------------------------------------------------------------------
Piece == {"header", "sample"} \X Nat \X Nat

Record ==
    {r \in [samples : Seq(1..MaxSamples), clear : BOOLEAN] :
        Len(r.samples) <= MaxSamples}

Connection ==
    [client : Clients, stream : Seq(Piece), open : BOOLEAN,
     end : {"waiting", "served", "closed", "lost"},
     records : Seq(Record), complete : Nat]

Call == [phase : {"none", "header", "payload"}, rest : Seq(Piece),
         taken : Nat, clear : BOOLEAN]

StreamTypeOK ==
    /\ d_attached \in [Clients -> BOOLEAN]
    /\ d_socket \in [Clients -> 0..Len(conns)]
    /\ d_samples \in [Clients -> Seq(1..MaxSamples)]
    /\ stored \in [Clients -> 0..MaxSamples]
    /\ \A c \in Clients : Len(d_samples[c]) <= stored[c]
    /\ call \in [Clients -> Call]
    /\ conns \in Seq(Connection) /\ Len(conns) <= MaxConnections
    /\ \A n \in 1..Len(conns) :
          /\ Room(n) >= 0
          /\ conns[n].end = "served" <=> client_socket = n
    /\ analyzer \in BOOLEAN
    /\ client_socket \in 0..Len(conns)
    /\ state \in {"READ_HEADER", "READ_DATA"}
    /\ data \in Seq(Piece)
    /\ data_len \in Lengths
    /\ plots \in [1..MaxConnections -> Seq(Seq(Piece))]

(* What is plotted of a connection are the records that were sent over it, *)
(* each with all its samples and in their order: wherever the stream was   *)
(* cut, and whichever debugger or analyzer was ended in the middle of a    *)
(* record before.                                                          *)
PlotsAreRecords ==
    \A n \in 1..Len(conns) :
        /\ Len(plots[n]) <= Len(conns[n].records)
        /\ \A k \in 1..Len(plots[n]) :
              plots[n][k] = Bytes(conns[n].records[k].samples)

(* A sample whose record was to be cleared is not plotted again, though a  *)
(* record that could not be sent is sent again after the next attach().    *)
HasSample(r, s) == \E k \in 1..Len(r.samples) : r.samples[k] = s

ClearedPlottedOnce ==
    \A n \in 1..Len(conns) : \A k \in 1..Len(plots[n]) :
        conns[n].records[k].clear =>
            \A m \in n..Len(conns) : \A j \in 1..Len(plots[m]) :
                (conns[m].client = conns[n].client /\ (m > n \/ j > k)) =>
                    \A s \in 1..MaxSamples :
                        ~ (/\ HasSample(conns[n].records[k], s)
                           /\ HasSample(conns[m].records[j], s))

(* A record that was sent to the end over the connection the analyzer      *)
(* serves is plotted, unless the analyzer is ended.                        *)
CompleteIsPlotted ==
    \A n \in 1..MaxConnections : \A k \in 1..MaxCalls :
        (client_socket = n /\ conns[n].complete >= k)
            ~> \/ Len(plots[n]) >= k
               \/ n <= Len(conns) /\ conns[n].end = "lost"
=============================================================================
