---------------------------- MODULE TestHarness ----------------------------
(***************************************************************************)
(* python/qa_testsuite.py: it plays the recordings of each test suite      *)
(* through a flowgraph of their own, whose socket sink sends the payloads  *)
(* to the LoRaUDPServer (python/lorasocket.py) the program opened when it  *)
(* began, and counts those that are as expected.                           *)
(*                                                                         *)
(* The main thread takes one recording at a time.  While a flowgraph runs, *)
(* the decoder publishes from a thread of its own and the socket sink      *)
(* sends from another.  The server's socket outlives the flowgraphs: what  *)
(* nobody reads stays in its buffer.                                       *)
(*                                                                         *)
(* Datagrams are numbered in the order the decoders published them.        *)
(***************************************************************************)
EXTENDS Naturals, Sequences, FiniteSets

CONSTANTS
    Plans,          \* the selected suites: sequences of sequences of tests
    Payloads,       \* what a recording's frames may hold
    Empty,          \* the payload of no bytes
    ReceiveBuffer,  \* datagrams the kernel keeps for the server
    MaxFrames       \* frames in a recording (the bound)

Test == [payload : Payloads, times : Nat]

ASSUME PlansAssumption == Plans \subseteq Seq(Seq(Test))
ASSUME BoundsAssumption ==
    /\ ReceiveBuffer \in Nat
    /\ MaxFrames \in Nat
    /\ Empty \notin Payloads

VARIABLES
    plan,           \* the suites to run; never changes
    pc,             \* where the main thread is, or how the process ended
    suite,          \* the suite in hand
    test,           \* the test in hand
    flowgraph,      \* "running" or "stopped"
    frames,         \* how many frames this recording gave
    sent,           \* how many the decoders published
    inbox,          \* the messages waiting for the socket sink
    buffer,         \* the datagrams waiting in the server's socket
    taken,          \* those the kernel took since this flowgraph began
    i,              \* get_payloads(): the calls of recvfrom() that returned
    total_data,     \* get_payloads(): what they returned
    results,        \* the arguments of TestSummary.add(), of all suites
    given,          \* history: the datagrams in them, one after another
    summary,        \* the TestSummary of the suite in hand
    reports         \* the reports written

thread   == <<plan, pc, suite, test>>
radio    == <<flowgraph, frames, sent, inbox>>
server   == <<buffer, taken, i, total_data>>
accounts == <<results, given, summary, reports>>
harnessVars == <<thread, radio, server, accounts>>

Datagram == [number : Nat, payload : Payloads \cup {Empty}]

NewSummary == [tests |-> 0, payloads |-> 0, correct |-> 0]

(* Variation: one summary for all suites.                                  *)
FirstSummaryKept == IF suite = 0 THEN NewSummary ELSE summary
SuiteSummary == NewSummary

HarnessInit ==
    /\ plan \in Plans
    /\ pc = "run"
    /\ suite = 0
    /\ test = 0
    /\ flowgraph = "stopped"
    /\ frames = 0
    /\ sent = 0
    /\ inbox = <<>>
    /\ buffer = <<>>
    /\ taken = <<>>
    /\ i = 0
    /\ total_data = <<>>
    /\ results = <<>>
    /\ given = <<>>
    /\ summary = NewSummary
    /\ reports = <<>>

-----------------------------------------------------------------------------
(* The main thread: the suites, and the recordings of a suite.             *)

NextSuite ==
    /\ pc = "run"
    /\ IF suite < Len(plan)
       THEN /\ suite' = suite + 1
            /\ test' = 0
            /\ summary' = SuiteSummary
            /\ pc' = "suite"
       ELSE /\ pc' = "done"
            /\ UNCHANGED <<suite, test, summary>>
    /\ UNCHANGED <<plan, radio, server, results, given, reports>>

(* The metadata is not SigMF: an exception nobody catches.                 *)
InvalidMetadata ==
    /\ pc = "suite"
    /\ test < Len(plan[suite])
    /\ pc' = "raised"
    /\ UNCHANGED <<plan, suite, test, radio, server, accounts>>

(* A flowgraph is built and started.                                       *)
StartFlowgraph ==
    /\ pc = "suite"
    /\ test < Len(plan[suite])
    /\ pc' = "wait"
    /\ test' = test + 1
    /\ flowgraph' = "running"
    /\ frames' = 0
    /\ inbox' = <<>>
    /\ taken' = <<>>
    /\ UNCHANGED <<plan, suite, sent, buffer, i, total_data, accounts>>

TestInHand == plan[suite][test]

(* Variation: the flowgraph is not waited for.                             *)
StartedIsEnough == TRUE
FlowgraphEnded == flowgraph = "stopped"

WaitAndCollect ==
    /\ pc = "wait"
    /\ FlowgraphEnded
    /\ pc' = "collect"
    /\ i' = 0
    /\ UNCHANGED <<plan, suite, test, radio, buffer, taken, total_data, accounts>>

-----------------------------------------------------------------------------
(* The flowgraph of the recording in hand.                                 *)

Decode ==
    /\ flowgraph = "running"
    /\ frames < MaxFrames
    /\ \E p \in Payloads \cup {Empty} :
          inbox' = Append(inbox, [number |-> sent + 1, payload |-> p])
    /\ frames' = frames + 1
    /\ sent' = sent + 1
    /\ UNCHANGED <<thread, flowgraph, server, accounts>>

(* The socket sink sends; the kernel drops what the buffer cannot hold.    *)
SinkSends ==
    /\ flowgraph = "running"
    /\ inbox # <<>>
    /\ inbox' = Tail(inbox)
    /\ IF Len(buffer) < ReceiveBuffer
       THEN /\ buffer' = Append(buffer, Head(inbox))
            /\ taken' = Append(taken, Head(inbox))
       ELSE UNCHANGED <<buffer, taken>>
    /\ UNCHANGED <<thread, flowgraph, frames, sent, i, total_data, accounts>>

(* sendto() failed: the sink ends the process, which is the harness's too. *)
SinkExits ==
    /\ flowgraph = "running"
    /\ inbox # <<>>
    /\ flowgraph' = "stopped"
    /\ pc' = "exited"
    /\ UNCHANGED <<plan, suite, test, frames, sent, inbox, server, accounts>>

(* The recording has come to its end.  What still waits for the sink is    *)
(* lost.                                                                   *)
FlowgraphEnds ==
    /\ flowgraph = "running"
    /\ flowgraph' = "stopped"
    /\ inbox' = <<>>
    /\ UNCHANGED <<thread, frames, sent, server, accounts>>

-----------------------------------------------------------------------------
(* get_payloads(times).                                                    *)

(* Variation: one call too many.                                           *)
OneMoreWanted == i <= TestInHand.times
MoreWanted == i < TestInHand.times

(* An empty datagram counts as a call, and is not kept.                    *)
Recvfrom ==
    /\ pc = "collect"
    /\ MoreWanted
    /\ buffer # <<>>
    /\ i' = i + 1
    /\ buffer' = Tail(buffer)
    /\ total_data' = IF Head(buffer).payload = Empty
                     THEN total_data
                     ELSE Append(total_data, Head(buffer))
    /\ UNCHANGED <<thread, radio, taken, accounts>>

(* Variation: the socket waits for ever.                                   *)
RecvfromBlocks == FALSE /\ UNCHANGED harnessVars

(* Nothing arrives within the timeout: the exception is printed.           *)
RecvfromTimesOut ==
    /\ pc = "collect"
    /\ MoreWanted
    /\ buffer = <<>>
    /\ i' = i + 1
    /\ UNCHANGED <<thread, radio, buffer, taken, total_data, accounts>>

-----------------------------------------------------------------------------
(* TestSummary.                                                            *)

Correct(data, t) ==
    {k \in 1..t.times : k <= Len(data) /\ data[k].payload = t.payload}

(* total_data is local to the call of get_payloads(); the variation keeps  *)
(* one list for all calls.                                                 *)
KeptForNextCall == total_data
LocalToCall == <<>>

(* add(): the percentage of a test that expects nothing divides by zero.   *)
AddResult ==
    /\ pc = "collect"
    /\ ~ MoreWanted
    /\ results' = Append(results, [suite |-> suite, test |-> TestInHand,
                                   taken |-> taken, data |-> total_data])
    /\ given' = given \o total_data
    /\ total_data' = LocalToCall
    /\ summary' =
          [tests    |-> summary.tests + 1,
           payloads |-> summary.payloads + TestInHand.times,
           correct  |-> summary.correct
                          + Cardinality(Correct(total_data, TestInHand))]
    /\ pc' = IF TestInHand.times = 0 THEN "raised" ELSE "suite"
    /\ UNCHANGED <<plan, suite, test, radio, buffer, taken, i, reports>>

(* export_summary(): so does the summary of a suite that expects nothing.  *)
ExportSummary ==
    /\ pc = "suite"
    /\ test = Len(plan[suite])
    /\ IF summary.payloads = 0
       THEN pc' = "raised" /\ UNCHANGED reports
       ELSE pc' = "run" /\ reports' = Append(reports, summary)
    /\ UNCHANGED <<plan, suite, test, radio, server, results, given, summary>>

(* CTRL+C: the exception that exit() raises is not among those             *)
(* get_payloads() catches.                                                 *)
Interrupt ==
    /\ pc \in {"run", "suite", "wait", "collect"}
    /\ pc' = "exited"
    /\ flowgraph' = "stopped"
    /\ UNCHANGED <<plan, suite, test, frames, sent, inbox, server, accounts>>

-----------------------------------------------------------------------------
MainStep ==
    \/ NextSuite
    \/ InvalidMetadata
    \/ StartFlowgraph
    \/ WaitAndCollect
    \/ Recvfrom
    \/ RecvfromTimesOut
    \/ AddResult
    \/ ExportSummary

HarnessNext ==
    \/ MainStep
    \/ Decode
    \/ SinkSends
    \/ SinkExits
    \/ FlowgraphEnds
    \/ Interrupt

(* The main thread runs when it can, and a recording has an end.           *)
HarnessSpec ==
    /\ HarnessInit /\ [][HarnessNext]_harnessVars
    /\ WF_harnessVars(MainStep)
    /\ WF_harnessVars(FlowgraphEnds)

-----------------------------------------------------------------------------
Summary == [tests : Nat, payloads : Nat, correct : Nat]

Result == [suite : Nat, test : Test, taken : Seq(Datagram), data : Seq(Datagram)]

HarnessTypeOK ==
    /\ plan \in Plans
    /\ pc \in {"run", "suite", "wait", "collect", "done", "raised", "exited"}
    /\ suite \in 0..Len(plan)
    /\ test \in 0..(IF suite = 0 THEN 0 ELSE Len(plan[suite]))
    /\ flowgraph \in {"running", "stopped"}
    /\ frames \in 0..MaxFrames
    /\ sent \in Nat
    /\ inbox \in Seq(Datagram)
    /\ buffer \in Seq(Datagram)
    /\ taken \in Seq(Datagram)
    /\ i \in Nat
    /\ pc = "collect" => i <= TestInHand.times
    /\ total_data \in Seq(Datagram)
    /\ results \in Seq(Result)
    /\ given \in Seq(Datagram)
    /\ summary \in Summary
    /\ reports \in Seq(Summary)

(* Whatever is dropped or times out, the datagrams the tests are given     *)
(* come in the order they were published, and none is given to two tests.  *)
Given == given \o total_data
D == INSTANCE OrderedDelivery
        WITH sent <- sent, received <- [k \in 1..Len(Given) |-> Given[k].number]
ImplementsDelivery == D!DeliverySpec

(* A test is judged by what its own recording gave: of the first datagrams *)
(* the kernel took, as many as the test asked for, those that are not      *)
(* empty.  This holds as long as no earlier recording gave more than its   *)
(* test asked for; the order is that of ImplementsDelivery.                *)
Elements(ds) == {ds[k] : k \in 1..Len(ds)}

Answers(ds, wanted) ==
    {ds[k] : k \in {j \in 1..Len(ds) : j <= wanted /\ ds[j].payload # Empty}}

NoSurplusBefore(n) ==
    \A m \in 1..Len(results) :
        m < n => Len(results[m].taken) <= results[m].test.times

JudgedByItsOwn ==
    \A n \in 1..Len(results) :
        NoSurplusBefore(n) =>
            Elements(results[n].data) =
                Answers(results[n].taken, results[n].test.times)

(* "Output from the flowgraph", says the line that calls get_payloads():   *)
(* what a test is judged by came from the flowgraph of its own recording.  *)
OutputFromTheFlowgraph ==
    \A n \in 1..Len(results) :
        Elements(results[n].data) \subseteq Elements(results[n].taken)

(* The report of a suite counts all tests of that suite and those of no    *)
(* other, each once, and never more correct payloads than payloads.        *)
PayloadsOf(s) ==
    UNION {{t} \X (1..plan[s][t].times) : t \in 1..Len(plan[s])}

ReportsAddUp ==
    \A s \in 1..Len(reports) :
        /\ reports[s].tests = Len(plan[s])
        /\ reports[s].payloads = Cardinality(PayloadsOf(s))
        /\ reports[s].correct <= reports[s].payloads

(* The harness comes to an end, whatever is lost on the way.               *)
HarnessEnds == <>(pc \in {"done", "raised", "exited"})
=============================================================================
