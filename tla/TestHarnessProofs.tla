------------------------- MODULE TestHarnessProofs -------------------------
(***************************************************************************)
(* What TestHarness promises, for all plans, payloads and buffer sizes:    *)
(* its types, that a test is judged by what its own recording gave as long *)
(* as none before it gave more than was asked, and that the tests are      *)
(* given what was published in its order and once.                         *)
(***************************************************************************)
EXTENDS TestHarness, SequenceTheorems, FiniteSetTheorems, TLAPS

-----------------------------------------------------------------------------
(* Types.                                                                  *)

(* While a test is in hand there is one: get_payloads() is called with its *)
(* number of payloads.                                                     *)
InHand ==
    /\ pc \in {"suite", "wait", "collect"} => suite >= 1
    /\ pc \in {"wait", "collect"} => test >= 1

TypeInv == HarnessTypeOK /\ InHand

LEMMA SuiteIsTyped ==
    ASSUME TypeInv, suite >= 1
    PROVE  plan[suite] \in Seq(Test) /\ Len(plan[suite]) \in Nat
<1>1. plan \in Seq(Seq(Test)) /\ suite \in 1..Len(plan)
  BY PlansAssumption, LenProperties DEF TypeInv, HarnessTypeOK
<1> QED BY <1>1, ElementOfSeq, LenProperties

LEMMA TestIsTyped ==
    ASSUME TypeInv, suite >= 1, test >= 1
    PROVE  /\ TestInHand \in Test
           /\ TestInHand.times \in Nat
<1>1. plan[suite] \in Seq(Test) /\ test \in 1..Len(plan[suite])
  BY SuiteIsTyped DEF TypeInv, HarnessTypeOK
<1>2. TestInHand \in Test
  BY <1>1, ElementOfSeq DEF TestInHand
<1> QED BY <1>2 DEF Test

LEMMA HeadOfBuffer ==
    ASSUME NEW s \in Seq(Datagram), s # <<>>
    PROVE  /\ Head(s) \in Datagram /\ Head(s) = s[1]
           /\ Tail(s) \in Seq(Datagram)
           /\ Len(s) \in Nat \ {0} /\ Len(Tail(s)) = Len(s) - 1
           /\ \A k \in 1..Len(Tail(s)) : Tail(s)[k] = s[k + 1]
BY HeadTailProperties, EmptySeq, LenProperties

LEMMA TypeInvInit == HarnessInit => TypeInv
<1> SUFFICES ASSUME HarnessInit PROVE TypeInv
  OBVIOUS
<1>1. Len(plan) \in Nat
  BY PlansAssumption, LenProperties DEF HarnessInit
<1> QED
  BY <1>1, EmptySeq, BoundsAssumption
  DEF HarnessInit, TypeInv, HarnessTypeOK, InHand, NewSummary, Summary

LEMMA NextSuiteKeepsTypes ==
    ASSUME TypeInv, NextSuite
    PROVE  TypeInv'
<1>1. Len(plan) \in Nat /\ suite \in Nat /\ plan' = plan
  BY PlansAssumption, LenProperties DEF TypeInv, HarnessTypeOK, NextSuite
<1>2. CASE suite < Len(plan)
  <2>1. /\ suite' = suite + 1 /\ test' = 0 /\ summary' = NewSummary
        /\ pc' = "suite" /\ suite' \in 1..Len(plan)
    BY <1>1, <1>2 DEF NextSuite, SuiteSummary
  <2>2. Len(plan'[suite']) \in Nat
    <3>1. plan \in Seq(Seq(Test))
      BY PlansAssumption DEF TypeInv, HarnessTypeOK
    <3>2. plan[suite'] \in Seq(Test)
      BY <2>1, <3>1, ElementOfSeq
    <3> QED BY <1>1, <3>2, LenProperties
  <2> QED
    BY <1>1, <2>1, <2>2
    DEF NextSuite, TypeInv, HarnessTypeOK, InHand, NewSummary, Summary,
        radio, server
<1>3. CASE ~ (suite < Len(plan))
  BY <1>1, <1>3 DEF NextSuite, TypeInv, HarnessTypeOK, InHand, radio, server
<1> QED BY <1>2, <1>3

LEMMA AddResultKeepsTypes ==
    ASSUME TypeInv, AddResult
    PROVE  TypeInv'
<1> DEFINE t == TestInHand
           r == [suite |-> suite, test |-> t, taken |-> taken, data |-> total_data]
           c == Correct(total_data, t)
<1>1. /\ pc = "collect" /\ suite >= 1 /\ test >= 1
      /\ suite \in Nat /\ test \in Nat /\ taken \in Seq(Datagram)
      /\ total_data \in Seq(Datagram) /\ given \in Seq(Datagram)
      /\ results \in Seq(Result) /\ summary \in Summary
  BY PlansAssumption, LenProperties, SuiteIsTyped
  DEF AddResult, TypeInv, InHand, HarnessTypeOK
<1>2. t \in Test /\ t.times \in Nat
  BY <1>1, TestIsTyped
<1>3. r \in Result
  BY <1>1, <1>2 DEF Result
<1>4. Cardinality(c) \in Nat
  <2>1. IsFiniteSet(1..t.times)
    BY <1>2, FS_Interval
  <2>2. c \subseteq 1..t.times
    BY DEF Correct
  <2> QED BY <2>1, <2>2, FS_Subset, FS_CardinalityType
<1>5. /\ results' = Append(results, r)
      /\ given' = given \o total_data
      /\ total_data' = <<>>
      /\ summary' = [tests    |-> summary.tests + 1,
                     payloads |-> summary.payloads + t.times,
                     correct  |-> summary.correct + Cardinality(c)]
      /\ pc' \in {"raised", "suite"}
      /\ UNCHANGED <<plan, suite, test, radio, buffer, taken, i, reports>>
  BY DEF AddResult, LocalToCall
<1> HIDE DEF t, r, c
<1>6. results' \in Seq(Result)
  BY <1>1, <1>3, <1>5, AppendProperties
<1>7. given' \in Seq(Datagram) /\ total_data' \in Seq(Datagram)
  BY <1>1, <1>5, ConcatProperties, EmptySeq
<1>8. summary' \in Summary
  <2>1. summary \in Summary
    BY <1>1
  <2>2. /\ summary.tests + 1 \in Nat
        /\ summary.payloads + t.times \in Nat
        /\ summary.correct + Cardinality(c) \in Nat
    BY <2>1, <1>2, <1>4 DEF Summary
  <2> QED BY <2>2, <1>5 DEF Summary
<1> QED
  BY <1>1, <1>5, <1>6, <1>7, <1>8 DEF TypeInv, HarnessTypeOK, InHand, radio

LEMMA CollectKeepsTypes ==
    ASSUME TypeInv, WaitAndCollect \/ Recvfrom \/ RecvfromTimesOut
    PROVE  TypeInv'
<1>1. /\ pc \in {"wait", "collect"} /\ pc' = "collect"
      /\ suite >= 1 /\ test >= 1
  BY DEF WaitAndCollect, Recvfrom, RecvfromTimesOut, TypeInv, InHand, thread
<1>2. TestInHand.times \in Nat
  BY <1>1, TestIsTyped
<1>3. /\ UNCHANGED <<plan, suite, test, flowgraph, frames, sent, inbox, taken,
                     results, given, summary, reports>>
      /\ i \in Nat
  BY DEF WaitAndCollect, Recvfrom, RecvfromTimesOut, TypeInv, HarnessTypeOK,
         thread, radio, accounts
<1>4. TestInHand' = TestInHand
  BY <1>3 DEF TestInHand
<1>5. i' \in Nat /\ i' <= TestInHand'.times
  BY <1>2, <1>3, <1>4 DEF WaitAndCollect, Recvfrom, RecvfromTimesOut, MoreWanted
<1>6. buffer' \in Seq(Datagram) /\ total_data' \in Seq(Datagram)
  <2>1. buffer \in Seq(Datagram) /\ total_data \in Seq(Datagram)
    BY DEF TypeInv, HarnessTypeOK
  <2>2. CASE WaitAndCollect \/ RecvfromTimesOut
    BY <2>1, <2>2 DEF WaitAndCollect, RecvfromTimesOut
  <2>3. CASE Recvfrom
    <3>1. Head(buffer) \in Datagram /\ Tail(buffer) \in Seq(Datagram)
      BY <2>1, <2>3, HeadOfBuffer DEF Recvfrom
    <3> QED BY <2>1, <2>3, <3>1, AppendProperties DEF Recvfrom
  <2> QED BY <2>2, <2>3
<1> QED
  BY <1>1, <1>3, <1>5, <1>6 DEF TypeInv, HarnessTypeOK, InHand

LEMMA FlowgraphKeepsTypes ==
    ASSUME TypeInv, Decode \/ SinkSends \/ SinkExits \/ FlowgraphEnds
    PROVE  TypeInv'
<1>1. /\ UNCHANGED <<plan, suite, test, i, total_data, results, given, summary,
                     reports>>
      /\ pc' = pc \/ pc' = "exited"
      /\ flowgraph' \in {"running", "stopped"}
  BY DEF Decode, SinkSends, SinkExits, FlowgraphEnds, TypeInv, HarnessTypeOK,
         thread, server, accounts
<1>2. /\ frames \in 0..MaxFrames /\ sent \in Nat
      /\ inbox \in Seq(Datagram) /\ buffer \in Seq(Datagram)
      /\ taken \in Seq(Datagram)
  BY DEF TypeInv, HarnessTypeOK
<1>3. CASE Decode
  <2>1. PICK p \in Payloads \cup {Empty} :
           inbox' = Append(inbox, [number |-> sent + 1, payload |-> p])
    BY <1>3 DEF Decode
  <2>2. [number |-> sent + 1, payload |-> p] \in Datagram
    BY <1>2 DEF Datagram
  <2>3. inbox' \in Seq(Datagram)
    BY <1>2, <2>1, <2>2, AppendProperties
  <2>4. frames' \in 0..MaxFrames /\ sent' \in Nat
    BY <1>2, <1>3, BoundsAssumption DEF Decode
  <2> QED
    BY <1>1, <1>2, <1>3, <2>3, <2>4
    DEF Decode, TypeInv, HarnessTypeOK, InHand, TestInHand, thread, server
<1>4. CASE SinkSends
  <2>1. /\ Head(inbox) \in Datagram /\ Tail(inbox) \in Seq(Datagram)
    BY <1>2, <1>4, HeadOfBuffer DEF SinkSends
  <2>2. /\ inbox' \in Seq(Datagram) /\ buffer' \in Seq(Datagram)
        /\ taken' \in Seq(Datagram)
    <3>1. /\ Append(buffer, Head(inbox)) \in Seq(Datagram)
          /\ Append(taken, Head(inbox)) \in Seq(Datagram)
      BY <1>2, <2>1, AppendProperties
    <3> QED BY <1>2, <1>4, <2>1, <3>1 DEF SinkSends
  <2> QED
    BY <1>1, <1>2, <1>4, <2>2
    DEF SinkSends, TypeInv, HarnessTypeOK, InHand, TestInHand, thread
<1>5. CASE SinkExits \/ FlowgraphEnds
  BY <1>1, <1>2, <1>5, EmptySeq
  DEF SinkExits, FlowgraphEnds, TypeInv, HarnessTypeOK, InHand, TestInHand,
      server, thread
<1> QED BY <1>3, <1>4, <1>5

LEMMA OthersKeepTypes ==
    ASSUME TypeInv,
           \/ InvalidMetadata \/ StartFlowgraph \/ ExportSummary \/ Interrupt
           \/ UNCHANGED harnessVars
    PROVE  TypeInv'
<1>1. CASE InvalidMetadata \/ Interrupt \/ UNCHANGED harnessVars
  BY <1>1 DEF InvalidMetadata, Interrupt, TypeInv, HarnessTypeOK, InHand,
     TestInHand, harnessVars, thread, radio, server, accounts
<1>2. CASE StartFlowgraph
  <2>1. /\ suite >= 1 /\ test \in Nat /\ test < Len(plan[suite])
    BY <1>2, SuiteIsTyped DEF StartFlowgraph, TypeInv, InHand, HarnessTypeOK
  <2>2. Len(plan[suite]) \in Nat
    BY <2>1, SuiteIsTyped
  <2>3. test' \in 1..Len(plan[suite])
    BY <1>2, <2>1, <2>2 DEF StartFlowgraph
  <2> QED
    BY <1>2, <2>1, <2>3, EmptySeq, BoundsAssumption
    DEF StartFlowgraph, TypeInv, HarnessTypeOK, InHand, accounts
<1>3. CASE ExportSummary
  <2>1. summary \in Summary /\ reports \in Seq(Summary)
    BY DEF TypeInv, HarnessTypeOK
  <2>2. reports' \in Seq(Summary)
    BY <1>3, <2>1, AppendProperties DEF ExportSummary
  <2> QED
    BY <1>3, <2>2
    DEF ExportSummary, TypeInv, HarnessTypeOK, InHand, radio, server
<1> QED BY <1>1, <1>2, <1>3

LEMMA TypeInvNext ==
    ASSUME TypeInv, [HarnessNext]_harnessVars
    PROVE  TypeInv'
BY NextSuiteKeepsTypes, AddResultKeepsTypes, CollectKeepsTypes,
   FlowgraphKeepsTypes, OthersKeepTypes DEF HarnessNext, MainStep

(* No call of get_payloads() returns more often than it was asked to, and  *)
(* every index into the plan is one of it.                                 *)
THEOREM HarnessTypes == HarnessSpec => []HarnessTypeOK
<1>1. TypeInv => HarnessTypeOK
  BY DEF TypeInv
<1> QED BY <1>1, TypeInvInit, TypeInvNext, PTL DEF HarnessSpec

-----------------------------------------------------------------------------
(* The tests are judged by their own recordings.  As long as no recording  *)
(* gave more than was asked, the server's buffer is empty between two      *)
(* tests, is what the kernel took while a flowgraph runs, and what of that *)
(* is not yet read while get_payloads() runs.                              *)

NoSurplus == NoSurplusBefore(Len(results) + 1)

Between == flowgraph = "stopped" /\ buffer = <<>> /\ total_data = <<>>

InFlowgraph == buffer = taken /\ total_data = <<>>

Reading ==
    /\ flowgraph = "stopped"
    /\ Len(buffer) = IF i <= Len(taken) THEN Len(taken) - i ELSE 0
    /\ \A k \in 1..Len(buffer) : buffer[k] = taken[i + k]
    /\ Elements(total_data) = Answers(taken, i)

ServerHoldsOwn ==
    CASE pc \in {"run", "suite"} -> Between
      [] pc = "wait"             -> InFlowgraph
      [] pc = "collect"          -> Reading
      [] OTHER                   -> flowgraph = "stopped"

JudgeInv ==
    /\ JudgedByItsOwn
    /\ pc \notin {"wait"} => flowgraph = "stopped"
    /\ NoSurplus => ServerHoldsOwn

LEMMA ElementsOfAppend ==
    ASSUME NEW s \in Seq(Datagram), NEW d \in Datagram
    PROVE  Elements(Append(s, d)) = Elements(s) \cup {d}
<1>1. /\ Len(Append(s, d)) = Len(s) + 1 /\ Append(s, d)[Len(s) + 1] = d
      /\ \A k \in 1..Len(s) : Append(s, d)[k] = s[k]
      /\ Len(s) \in Nat
  BY AppendProperties, LenProperties
<1>2. 1..(Len(s) + 1) = (1..Len(s)) \cup {Len(s) + 1}
  BY <1>1
<1> QED BY <1>1, <1>2 DEF Elements

(* One more answer is read: it is the next datagram the kernel took, and   *)
(* counts unless it is empty.                                              *)
LEMMA OneMoreAnswer ==
    ASSUME NEW s \in Seq(Datagram), NEW k \in Nat
    PROVE  Answers(s, k + 1) =
             IF k < Len(s) /\ s[k + 1].payload # Empty
             THEN Answers(s, k) \cup {s[k + 1]}
             ELSE Answers(s, k)
<1> DEFINE J(n) == {j \in 1..Len(s) : j <= n /\ s[j].payload # Empty}
<1>1. Len(s) \in Nat
  BY LenProperties
<1>2. J(k + 1) = IF k < Len(s) /\ s[k + 1].payload # Empty
                 THEN J(k) \cup {k + 1} ELSE J(k)
  BY <1>1
<1> QED BY <1>2 DEF Answers

LEMMA JudgeInit == HarnessInit => JudgeInv
BY EmptySeq DEF HarnessInit, JudgeInv, JudgedByItsOwn, ServerHoldsOwn, Between

(* What does not touch the results keeps what is said of them.             *)
LEMMA ResultsStay ==
    ASSUME JudgeInv, UNCHANGED results
    PROVE  JudgedByItsOwn' /\ (NoSurplus' <=> NoSurplus)
BY DEF JudgeInv, JudgedByItsOwn, NoSurplus, NoSurplusBefore

LEMMA MainKeepsJudge ==
    ASSUME TypeInv, JudgeInv,
           NextSuite \/ InvalidMetadata \/ StartFlowgraph \/ ExportSummary
    PROVE  JudgeInv'
<1>1. /\ pc \in {"run", "suite"} /\ UNCHANGED <<results, buffer, total_data>>
  BY DEF NextSuite, InvalidMetadata, StartFlowgraph, ExportSummary, server, accounts
<1>2. flowgraph = "stopped" /\ (NoSurplus => Between)
  BY <1>1 DEF JudgeInv, ServerHoldsOwn
<1>3. CASE StartFlowgraph
  <2>1. pc' = "wait" /\ taken' = <<>>
    BY <1>3 DEF StartFlowgraph
  <2> QED BY <1>1, <1>2, <2>1, ResultsStay
      DEF JudgeInv, ServerHoldsOwn, Between, InFlowgraph
<1>4. CASE NextSuite \/ InvalidMetadata \/ ExportSummary
  <2>1. pc' \in {"run", "suite", "done", "raised"} /\ flowgraph' = flowgraph
    BY <1>4 DEF NextSuite, InvalidMetadata, ExportSummary, radio
  <2> QED BY <1>1, <1>2, <2>1, ResultsStay DEF JudgeInv, ServerHoldsOwn, Between
<1> QED BY <1>3, <1>4

LEMMA FlowgraphKeepsJudge ==
    ASSUME TypeInv, JudgeInv,
           Decode \/ SinkSends \/ SinkExits \/ FlowgraphEnds \/ Interrupt
    PROVE  JudgeInv'
<1>1. /\ UNCHANGED <<results, total_data>>
      /\ pc' = pc \/ (pc' = "exited" /\ flowgraph' = "stopped")
      /\ flowgraph' = flowgraph \/ flowgraph' = "stopped"
  BY DEF Decode, SinkSends, SinkExits, FlowgraphEnds, Interrupt, thread, server,
         accounts
<1>2. CASE pc' = "exited"
  BY <1>1, <1>2, ResultsStay DEF JudgeInv, ServerHoldsOwn
<1>3. CASE pc' = pc /\ pc' # "exited"
  <2>1. ~ Interrupt /\ ~ SinkExits
    BY <1>3 DEF Interrupt, SinkExits
  <2>2. pc = "wait"
    BY <2>1 DEF Decode, SinkSends, FlowgraphEnds, JudgeInv
  <2>3. NoSurplus => buffer' = taken' /\ total_data' = <<>>
    <3>1. NoSurplus => buffer = taken /\ total_data = <<>>
      BY <2>2 DEF JudgeInv, ServerHoldsOwn, InFlowgraph
    <3>2. CASE SinkSends
      BY <1>1, <3>1, <3>2 DEF SinkSends
    <3>3. CASE Decode \/ FlowgraphEnds
      BY <3>1, <3>3 DEF Decode, FlowgraphEnds, server
    <3> QED BY <2>1, <3>2, <3>3
  <2> QED BY <1>1, <1>3, <2>2, <2>3, ResultsStay
      DEF JudgeInv, ServerHoldsOwn, InFlowgraph
<1> QED BY <1>1, <1>2, <1>3

LEMMA CollectKeepsJudge ==
    ASSUME TypeInv, JudgeInv, WaitAndCollect \/ Recvfrom \/ RecvfromTimesOut
    PROVE  JudgeInv'
<1>1. /\ UNCHANGED <<results, taken, flowgraph>> /\ pc' = "collect"
      /\ flowgraph = "stopped"
      /\ taken \in Seq(Datagram) /\ buffer \in Seq(Datagram)
      /\ total_data \in Seq(Datagram)
      /\ i \in Nat /\ Len(taken) \in Nat /\ Len(buffer) \in Nat
  BY LenProperties
  DEF WaitAndCollect, Recvfrom, RecvfromTimesOut, thread, radio, accounts,
      FlowgraphEnded, TypeInv, HarnessTypeOK, JudgeInv
<1>2. ASSUME NoSurplus PROVE Reading'
  <2>1. CASE WaitAndCollect
    <3>1. buffer = taken /\ total_data = <<>> /\ i' = 0
          /\ UNCHANGED <<buffer, total_data>>
      BY <1>2, <2>1 DEF JudgeInv, ServerHoldsOwn, InFlowgraph, WaitAndCollect
    <3>2. Elements(<<>>) = {} /\ Answers(taken, 0) = {}
      BY <1>1, EmptySeq DEF Elements, Answers
    <3>3. Len(buffer') = Len(taken) /\ Elements(total_data') = Answers(taken, 0)
      BY <3>1, <3>2
    <3>4. \A k \in 1..Len(buffer') : buffer'[k] = taken[0 + k]
      <4> TAKE k \in 1..Len(buffer')
      <4>1. 0 + k = k
        BY <1>1, <3>3
      <4> QED BY <3>1, <4>1
    <3>5. /\ flowgraph' = "stopped"
          /\ Len(buffer') = IF i' <= Len(taken') THEN Len(taken') - i' ELSE 0
      BY <1>1, <3>1, <3>3
    <3>6. \A k \in 1..Len(buffer') : buffer'[k] = taken'[i' + k]
      BY <1>1, <3>1, <3>4
    <3> QED BY <1>1, <3>1, <3>3, <3>5, <3>6 DEF Reading
  <2>2. CASE RecvfromTimesOut
    <3>1. /\ Reading /\ buffer = <<>> /\ i' = i + 1
          /\ UNCHANGED <<buffer, total_data>>
      BY <1>2, <2>2 DEF JudgeInv, ServerHoldsOwn, RecvfromTimesOut
    <3>2. Len(buffer) = 0
      BY <3>1, EmptySeq
    <3>3. ~ (i < Len(taken))
      BY <1>1, <3>1, <3>2 DEF Reading
    <3>4. Answers(taken, i + 1) = Answers(taken, i)
      BY <1>1, <3>3, OneMoreAnswer
    <3> QED BY <1>1, <3>1, <3>2, <3>3, <3>4 DEF Reading
  <2>3. CASE Recvfrom
    <3>1. /\ Reading /\ buffer # <<>> /\ i' = i + 1 /\ buffer' = Tail(buffer)
          /\ total_data' = IF Head(buffer).payload = Empty
                           THEN total_data
                           ELSE Append(total_data, Head(buffer))
      BY <1>2, <2>3 DEF JudgeInv, ServerHoldsOwn, Recvfrom
    <3>2. /\ Head(buffer) \in Datagram /\ Head(buffer) = buffer[1]
          /\ Len(buffer) \in Nat \ {0} /\ Len(buffer') = Len(buffer) - 1
          /\ \A k \in 1..Len(buffer') : buffer'[k] = buffer[k + 1]
      BY <1>1, <3>1, HeadOfBuffer
    <3>3. i < Len(taken) /\ Len(buffer) = Len(taken) - i
          /\ Head(buffer) = taken[i + 1]
      <4>1. i < Len(taken) /\ Len(buffer) = Len(taken) - i
        BY <1>1, <3>1, <3>2 DEF Reading
      <4>2. 1 \in 1..Len(buffer)
        BY <3>2
      <4> QED BY <3>1, <3>2, <4>1, <4>2 DEF Reading
    <3>4. Elements(total_data') = Answers(taken, i + 1)
      <4>1. Elements(total_data) = Answers(taken, i)
        BY <3>1 DEF Reading
      <4>2. CASE Head(buffer).payload = Empty
        <5>1. Answers(taken, i + 1) = Answers(taken, i)
          BY <1>1, <3>3, <4>2, OneMoreAnswer
        <5> QED BY <3>1, <4>1, <4>2, <5>1
      <4>3. CASE Head(buffer).payload # Empty
        <5>1. Answers(taken, i + 1) = Answers(taken, i) \cup {taken[i + 1]}
          BY <1>1, <3>3, <4>3, OneMoreAnswer
        <5>2. total_data' = Append(total_data, Head(buffer))
          BY <3>1, <4>3
        <5>3. Elements(total_data') = Elements(total_data) \cup {Head(buffer)}
          BY <1>1, <3>2, <5>2, ElementsOfAppend
        <5> QED BY <3>3, <4>1, <5>1, <5>3
      <4> QED BY <4>2, <4>3
    <3>5. \A k \in 1..Len(buffer') : buffer'[k] = taken[(i + 1) + k]
      <4> TAKE k \in 1..Len(buffer')
      <4>1. k + 1 \in 1..Len(buffer) /\ buffer'[k] = buffer[k + 1]
        BY <1>1, <3>2
      <4>2. buffer[k + 1] = taken[i + (k + 1)]
        BY <3>1, <4>1 DEF Reading
      <4>3. i + (k + 1) = (i + 1) + k
        BY <1>1
      <4> QED BY <4>1, <4>2, <4>3
    <3> QED BY <1>1, <3>1, <3>2, <3>3, <3>4, <3>5 DEF Reading
  <2> QED BY <2>1, <2>2, <2>3
<1> QED BY <1>1, <1>2, ResultsStay DEF JudgeInv, ServerHoldsOwn

LEMMA AddResultKeepsJudge ==
    ASSUME TypeInv, JudgeInv, AddResult
    PROVE  JudgeInv'
<1> DEFINE t == TestInHand
           r == [suite |-> suite, test |-> t, taken |-> taken, data |-> total_data]
<1>1. /\ pc = "collect" /\ pc' \in {"raised", "suite"} /\ ~ (i < t.times)
      /\ results' = Append(results, r) /\ total_data' = <<>>
      /\ UNCHANGED <<flowgraph, buffer, taken>>
  BY DEF AddResult, MoreWanted, LocalToCall, radio
<1>2. /\ suite \in Nat /\ t \in Test /\ t.times \in Nat
      /\ i \in Nat /\ i <= t.times /\ results \in Seq(Result)
      /\ taken \in Seq(Datagram) /\ buffer \in Seq(Datagram)
      /\ total_data \in Seq(Datagram)
  BY <1>1, TestIsTyped, PlansAssumption, LenProperties
  DEF TypeInv, InHand, HarnessTypeOK
<1>3. i = t.times
  BY <1>1, <1>2
<1>4. r \in Result /\ r.taken = taken /\ r.data = total_data /\ r.test = t
  BY <1>2 DEF Result
<1> HIDE DEF t, r
<1>5. /\ Len(results) \in Nat /\ Len(results') = Len(results) + 1
      /\ results'[Len(results) + 1] = r
      /\ \A n \in 1..Len(results) : results'[n] = results[n]
  BY <1>1, <1>2, <1>4, AppendProperties, LenProperties
<1>6. ASSUME NoSurplus PROVE Reading
  BY <1>1, <1>6 DEF JudgeInv, ServerHoldsOwn
<1>7. \A n \in 1..Len(results) : NoSurplusBefore(n)' => NoSurplusBefore(n)
  BY <1>5 DEF NoSurplusBefore
<1>8. ASSUME NEW n \in Nat, n = Len(results) + 1, NoSurplusBefore(n)'
      PROVE  NoSurplus
  BY <1>5, <1>8 DEF NoSurplusBefore, NoSurplus
<1>9. JudgedByItsOwn'
  <2> SUFFICES ASSUME NEW n \in 1..Len(results'), NoSurplusBefore(n)'
               PROVE  Elements(results'[n].data) =
                        Answers(results'[n].taken, results'[n].test.times)
    BY DEF JudgedByItsOwn
  <2>1. CASE n \in 1..Len(results)
    BY <1>5, <1>7, <2>1 DEF JudgeInv, JudgedByItsOwn
  <2>2. CASE n = Len(results) + 1
    <3>1. Elements(total_data) = Answers(taken, t.times)
      <4>1. NoSurplus
        BY <1>5, <1>8, <2>2
      <4> QED BY <1>3, <1>6, <4>1 DEF Reading
    <3> QED BY <1>4, <1>5, <2>2, <3>1
  <2> QED BY <1>5, <2>1, <2>2
<1>10. ASSUME NoSurplus' PROVE buffer' = <<>>
  <2>1. NoSurplus
    BY <1>5, <1>10 DEF NoSurplus, NoSurplusBefore
  <2>2. Len(taken) <= t.times
    <3>1. Len(results) + 1 \in 1..Len(results')
      BY <1>5
    <3>2. Len(results'[Len(results) + 1].taken)
             <= results'[Len(results) + 1].test.times
      BY <1>5, <1>10, <3>1 DEF NoSurplus, NoSurplusBefore
    <3> QED BY <1>4, <1>5, <3>2
  <2>3. Len(buffer) = 0
    BY <1>2, <1>3, <1>6, <2>1, <2>2, LenProperties DEF Reading
  <2> QED BY <1>1, <1>2, <2>3, EmptySeq
<1>11. flowgraph' = "stopped"
  BY <1>1 DEF JudgeInv
<1> QED
  BY <1>1, <1>9, <1>10, <1>11 DEF JudgeInv, ServerHoldsOwn, Between

LEMMA JudgeNext ==
    ASSUME TypeInv, JudgeInv, [HarnessNext]_harnessVars
    PROVE  JudgeInv'
<1>1. CASE UNCHANGED harnessVars
  BY <1>1 DEF harnessVars, thread, radio, server, accounts, JudgeInv,
     JudgedByItsOwn, NoSurplus, NoSurplusBefore, ServerHoldsOwn, Between,
     InFlowgraph, Reading
<1> QED
  BY <1>1, MainKeepsJudge, FlowgraphKeepsJudge, CollectKeepsJudge,
     AddResultKeepsJudge DEF HarnessNext, MainStep

(* As long as no recording gave more than its test asked for, every test   *)
(* is judged by what its own recording gave, and by all of that.           *)
THEOREM TestsJudgedByTheirOwn == HarnessSpec => []JudgedByItsOwn
<1>1. JudgeInv => JudgedByItsOwn
  BY DEF JudgeInv
<1> QED
  BY <1>1, TypeInvInit, TypeInvNext, JudgeInit, JudgeNext, PTL DEF HarnessSpec
-----------------------------------------------------------------------------
(* The refinement.  What was given to the tests, what waits in the server  *)
(* and what waits for the sink are one line, in the order of publication.  *)

Ascending(s) == \A j, k \in 1..Len(s) : j < k => s[j].number < s[k].number

Before(s, r) == \A x \in Elements(s), y \in Elements(r) : x.number < y.number

Published(s) == \A x \in Elements(s) : x.number \in 1..sent

Line ==
    /\ Ascending(Given) /\ Ascending(buffer) /\ Ascending(inbox)
    /\ Before(Given, buffer) /\ Before(Given, inbox) /\ Before(buffer, inbox)
    /\ Published(Given) /\ Published(buffer) /\ Published(inbox)

LEMMA ElementsOfEmpty == Elements(<<>>) = {} /\ Ascending(<<>>)
BY EmptySeq DEF Elements, Ascending

LEMMA AscendingAppend ==
    ASSUME NEW s \in Seq(Datagram), NEW d \in Datagram, Ascending(s),
           \A x \in Elements(s) : x.number < d.number
    PROVE  Ascending(Append(s, d))
<1>1. /\ Len(Append(s, d)) = Len(s) + 1 /\ Append(s, d)[Len(s) + 1] = d
      /\ \A k \in 1..Len(s) : Append(s, d)[k] = s[k]
      /\ Len(s) \in Nat
  BY AppendProperties, LenProperties
<1> SUFFICES ASSUME NEW j \in 1..(Len(s) + 1), NEW k \in 1..(Len(s) + 1), j < k
             PROVE  Append(s, d)[j].number < Append(s, d)[k].number
  BY <1>1 DEF Ascending
<1>2. j \in 1..Len(s) /\ Append(s, d)[j] = s[j] /\ s[j] \in Elements(s)
  BY <1>1 DEF Elements
<1>3. CASE k = Len(s) + 1
  BY <1>1, <1>2, <1>3
<1>4. CASE k # Len(s) + 1
  <2>1. k \in 1..Len(s) /\ Append(s, d)[k] = s[k]
    BY <1>1, <1>4
  <2> QED BY <1>2, <2>1 DEF Ascending
<1> QED BY <1>3, <1>4

(* The head comes before the rest, and both were there.                    *)
LEMMA HeadBeforeTail ==
    ASSUME NEW s \in Seq(Datagram), s # <<>>, Ascending(s)
    PROVE  /\ Head(s) \in Elements(s)
           /\ Elements(Tail(s)) \subseteq Elements(s)
           /\ Ascending(Tail(s))
           /\ \A x \in Elements(Tail(s)) : Head(s).number < x.number
<1>1. /\ Head(s) = s[1] /\ 1 \in 1..Len(s)
      /\ Len(s) \in Nat \ {0} /\ Len(Tail(s)) = Len(s) - 1
      /\ \A k \in 1..Len(Tail(s)) : Tail(s)[k] = s[k + 1]
  BY HeadOfBuffer
<1>2. \A k \in 1..Len(Tail(s)) : k + 1 \in 1..Len(s) /\ 1 < k + 1
  BY <1>1
<1>3. Ascending(Tail(s))
  BY <1>1, <1>2 DEF Ascending
<1>4. ASSUME NEW x \in Elements(Tail(s))
      PROVE  x \in Elements(s) /\ Head(s).number < x.number
  <2>1. PICK k \in 1..Len(Tail(s)) : x = Tail(s)[k]
    BY DEF Elements
  <2>2. x = s[k + 1] /\ k + 1 \in 1..Len(s) /\ 1 < k + 1
    BY <1>1, <1>2, <2>1
  <2> QED BY <1>1, <2>2 DEF Ascending, Elements
<1> QED BY <1>1, <1>3, <1>4 DEF Elements

LEMMA GivenIsTyped == TypeInv => Given \in Seq(Datagram)
BY ConcatProperties DEF TypeInv, HarnessTypeOK, Given

LEMMA DecodeKeepsLine ==
    ASSUME TypeInv, Line, Decode
    PROVE  Line'
<1>1. PICK p \in Payloads \cup {Empty} :
         inbox' = Append(inbox, [number |-> sent + 1, payload |-> p])
  BY DEF Decode
<1> DEFINE d == [number |-> sent + 1, payload |-> p]
<1>2. /\ inbox \in Seq(Datagram) /\ sent \in Nat /\ d \in Datagram
      /\ d.number = sent + 1 /\ sent' = sent + 1
      /\ Given' = Given /\ buffer' = buffer
  BY DEF TypeInv, HarnessTypeOK, Datagram, Decode, Given, server, accounts
<1>3. inbox' = Append(inbox, d)
  BY <1>1
<1> HIDE DEF d
<1>4. \A x \in Elements(Given) \cup Elements(buffer) \cup Elements(inbox) :
         x.number \in 1..sent /\ x.number < d.number
  BY <1>2 DEF Line, Published
<1>5. Elements(inbox') = Elements(inbox) \cup {d}
  BY <1>2, <1>3, ElementsOfAppend
<1>6. Ascending(inbox')
  BY <1>2, <1>3, <1>4, AscendingAppend DEF Line
<1>7. Before(Given, inbox)' /\ Before(buffer, inbox)'
  BY <1>2, <1>4, <1>5 DEF Line, Before
<1>8. Published(Given)' /\ Published(buffer)' /\ Published(inbox)'
  BY <1>2, <1>4, <1>5 DEF Published
<1> QED BY <1>2, <1>6, <1>7, <1>8 DEF Line

LEMMA SinkKeepsLine ==
    ASSUME TypeInv, Line, SinkSends
    PROVE  Line'
<1>1. /\ inbox # <<>> /\ inbox' = Tail(inbox) /\ sent' = sent
      /\ buffer' = buffer \/ buffer' = Append(buffer, Head(inbox))
      /\ Given' = Given
      /\ inbox \in Seq(Datagram) /\ buffer \in Seq(Datagram)
  BY DEF SinkSends, TypeInv, HarnessTypeOK, Given, accounts
<1>2. Head(inbox) \in Datagram
  BY <1>1, HeadOfBuffer
<1>3. /\ Head(inbox) \in Elements(inbox)
      /\ Elements(inbox') \subseteq Elements(inbox)
      /\ Ascending(inbox')
      /\ \A x \in Elements(inbox') : Head(inbox).number < x.number
  BY <1>1, HeadBeforeTail DEF Line
<1>4. Elements(buffer') \subseteq Elements(buffer) \cup {Head(inbox)}
  BY <1>1, <1>2, ElementsOfAppend
<1>5. Ascending(buffer')
  <2>1. \A x \in Elements(buffer) : x.number < Head(inbox).number
    BY <1>3 DEF Line, Before
  <2> QED BY <1>1, <1>2, <2>1, AscendingAppend DEF Line
<1>6. Before(Given, inbox)' /\ Before(Given, buffer)' /\ Before(buffer, inbox)'
  BY <1>1, <1>3, <1>4 DEF Line, Before
<1>7. Published(Given)' /\ Published(buffer)' /\ Published(inbox)'
  BY <1>1, <1>3, <1>4 DEF Line, Published
<1> QED BY <1>1, <1>3, <1>5, <1>6, <1>7 DEF Line

(* What is read is added to what was given.                                *)
LEMMA GivenGrows ==
    ASSUME TypeInv, Recvfrom, Head(buffer).payload # Empty
    PROVE  Given' = Append(Given, Head(buffer))
<1>1. /\ given \in Seq(Datagram) /\ total_data \in Seq(Datagram)
      /\ buffer \in Seq(Datagram) /\ buffer # <<>> /\ given' = given
      /\ total_data' = Append(total_data, Head(buffer))
  BY DEF TypeInv, HarnessTypeOK, Recvfrom, accounts
<1>2. Head(buffer) \in Datagram
  BY <1>1, HeadOfBuffer
<1>3. given \o Append(total_data, Head(buffer))
        = Append(given \o total_data, Head(buffer))
  BY <1>1, <1>2
<1> QED BY <1>1, <1>3 DEF Given

LEMMA RecvfromKeepsLine ==
    ASSUME TypeInv, Line, Recvfrom
    PROVE  Line'
<1>1. /\ buffer # <<>> /\ buffer' = Tail(buffer) /\ UNCHANGED <<sent, inbox>>
      /\ buffer \in Seq(Datagram) /\ Given \in Seq(Datagram)
  BY GivenIsTyped DEF Recvfrom, TypeInv, HarnessTypeOK, radio
<1>2. Given' = Given \/ Given' = Append(Given, Head(buffer))
  <2>1. CASE Head(buffer).payload = Empty
    BY <2>1 DEF Recvfrom, Given, accounts
  <2> QED BY <2>1, GivenGrows
<1>3. Head(buffer) \in Datagram
  BY <1>1, HeadOfBuffer
<1>4. /\ Head(buffer) \in Elements(buffer)
      /\ Elements(buffer') \subseteq Elements(buffer)
      /\ Ascending(buffer')
      /\ \A x \in Elements(buffer') : Head(buffer).number < x.number
  BY <1>1, HeadBeforeTail DEF Line
<1>5. Elements(Given') \subseteq Elements(Given) \cup {Head(buffer)}
  BY <1>1, <1>2, <1>3, ElementsOfAppend
<1>6. Ascending(Given')
  <2>1. \A x \in Elements(Given) : x.number < Head(buffer).number
    BY <1>4 DEF Line, Before
  <2> QED BY <1>1, <1>2, <1>3, <2>1, AscendingAppend DEF Line
<1>7. Before(Given, inbox)' /\ Before(Given, buffer)' /\ Before(buffer, inbox)'
  BY <1>1, <1>4, <1>5 DEF Line, Before
<1>8. Published(Given)' /\ Published(buffer)' /\ Published(inbox)'
  BY <1>1, <1>4, <1>5 DEF Line, Published
<1> QED BY <1>1, <1>4, <1>6, <1>7, <1>8 DEF Line

(* Every other step leaves the line as it is, or takes the sink's inbox    *)
(* away.                                                                   *)
LEMMA OthersKeepLine ==
    ASSUME TypeInv, [HarnessNext]_harnessVars, ~ Decode, ~ SinkSends, ~ Recvfrom
    PROVE  /\ UNCHANGED <<Given, buffer, sent>>
           /\ inbox' = inbox \/ inbox' = <<>>
<1>1. CASE AddResult
  <2>1. /\ given \in Seq(Datagram) /\ total_data \in Seq(Datagram)
        /\ given' = given \o total_data /\ total_data' = <<>>
    BY <1>1 DEF TypeInv, HarnessTypeOK, AddResult, LocalToCall
  <2>2. Given' = Given
    <3>1. given \o total_data \in Seq(Datagram)
      BY <2>1, ConcatProperties
    <3> QED BY <2>1, <3>1, ConcatEmptySeq DEF Given
  <2> QED BY <1>1, <2>2 DEF AddResult, radio
<1>2. CASE ~ AddResult
  BY <1>2 DEF HarnessNext, MainStep, NextSuite, InvalidMetadata,
     StartFlowgraph, WaitAndCollect, RecvfromTimesOut, ExportSummary, SinkExits,
     FlowgraphEnds, Interrupt, Given, harnessVars, thread, radio, server, accounts
<1> QED BY <1>1, <1>2

LEMMA LineNext ==
    ASSUME TypeInv, Line, [HarnessNext]_harnessVars
    PROVE  Line'
<1>1. CASE ~ Decode /\ ~ SinkSends /\ ~ Recvfrom
  BY <1>1, OthersKeepLine, ElementsOfEmpty DEF Line, Before, Published
<1> QED BY <1>1, DecodeKeepsLine, SinkKeepsLine, RecvfromKeepsLine

LEMMA LineInit == HarnessInit => Line /\ D!DeliveryInit
<1> SUFFICES ASSUME HarnessInit PROVE Line /\ D!DeliveryInit
  OBVIOUS
<1>1. Given = <<>> /\ buffer = <<>> /\ inbox = <<>> /\ sent = 0
  BY DEF HarnessInit, Given
<1>2. [k \in 1..Len(<<>>) |-> <<>>[k].number] = <<>>
  BY EmptySeq
<1> QED
  BY <1>1, <1>2, ElementsOfEmpty
  DEF Line, Before, Published, D!DeliveryInit

LEMMA ReadReceives ==
    ASSUME TypeInv, Line, Recvfrom, Head(buffer).payload # Empty
    PROVE  D!Receive
<1> DEFINE h == Head(buffer)
           N(s) == [k \in 1..Len(s) |-> s[k].number]
           f == h.number
<1>1. /\ buffer \in Seq(Datagram) /\ buffer # <<>> /\ sent' = sent
      /\ Given \in Seq(Datagram)
  BY GivenIsTyped DEF TypeInv, HarnessTypeOK, Recvfrom, radio
<1>2. h \in Datagram /\ h \in Elements(buffer) /\ f \in Nat
  BY <1>1, HeadOfBuffer, HeadBeforeTail DEF Line, Datagram
<1>3. Given' = Append(Given, h)
  BY GivenGrows
<1> HIDE DEF h
<1>4. f \in 1..sent
  BY <1>2 DEF Line, Published
<1>5. /\ Len(Given) \in Nat /\ Len(Given') = Len(Given) + 1
      /\ Given'[Len(Given) + 1] = h
      /\ \A k \in 1..Len(Given) : Given'[k] = Given[k]
  BY <1>1, <1>2, <1>3, AppendProperties, LenProperties
<1>6. N(Given) \in Seq(Nat) /\ Len(N(Given)) = Len(Given)
  <2>1. \A k \in 1..Len(Given) : Given[k].number \in Nat
    <3>1. \A d \in Datagram : d.number \in Nat
      BY DEF Datagram
    <3> QED BY <1>1, <3>1, ElementOfSeq
  <2>2. N(Given) \in [1..Len(Given) -> Nat]
    BY <2>1
  <2>3. N(Given) \in Seq(Nat)
    BY <1>5, <2>2, SeqDef
  <2> QED BY <1>5, <2>2, <2>3, LenProperties
<1>7. \A k \in 1..Len(N(Given)) : N(Given)[k] < f
  <2>1. \A k \in 1..Len(Given) : Given[k] \in Elements(Given)
    BY DEF Elements
  <2> QED BY <1>2, <1>6, <2>1 DEF Line, Before
<1>8. N(Given') = Append(N(Given), f)
  <2>1. /\ Append(N(Given), f) \in Seq(Nat)
        /\ Len(Append(N(Given), f)) = Len(Given) + 1
        /\ Append(N(Given), f)[Len(Given) + 1] = f
        /\ \A k \in 1..Len(Given) : Append(N(Given), f)[k] = N(Given)[k]
    BY <1>2, <1>6, AppendProperties
  <2>2. DOMAIN Append(N(Given), f) = 1..(Len(Given) + 1)
    BY <2>1, LenProperties
  <2>3. DOMAIN N(Given') = 1..(Len(Given) + 1)
    BY <1>5
  <2>4. \A k \in 1..(Len(Given) + 1) : N(Given')[k] = Append(N(Given), f)[k]
    <3> TAKE k \in 1..(Len(Given) + 1)
    <3>1. CASE k = Len(Given) + 1
      BY <1>5, <2>1, <3>1
    <3>2. CASE k # Len(Given) + 1
      <4>1. k \in 1..Len(Given)
        BY <1>5, <3>2
      <4> QED BY <1>5, <2>1, <4>1
    <3> QED BY <3>1, <3>2
  <2>5. N(Given') = [k \in DOMAIN N(Given') |-> N(Given')[k]]
    OBVIOUS
  <2>6. Append(N(Given), f)
          = [k \in DOMAIN Append(N(Given), f) |-> Append(N(Given), f)[k]]
    BY <2>1, SeqDef
  <2> QED BY <2>2, <2>3, <2>4, <2>5, <2>6
<1> QED BY <1>1, <1>4, <1>7, <1>8 DEF D!Receive

LEMMA StepDelivers ==
    ASSUME TypeInv, Line, [HarnessNext]_harnessVars
    PROVE  [D!DeliveryNext]_(D!deliveryVars)
<1>1. CASE Decode
  BY <1>1 DEF Decode, Given, server, accounts, D!DeliveryNext, D!Send
<1>2. CASE Recvfrom /\ Head(buffer).payload # Empty
  BY <1>2, ReadReceives DEF D!DeliveryNext
<1>3. CASE Recvfrom /\ Head(buffer).payload = Empty
  BY <1>3 DEF Recvfrom, radio, accounts, Given, D!deliveryVars
<1>4. CASE SinkSends
  BY <1>4 DEF SinkSends, Given, accounts, D!deliveryVars
<1>5. CASE ~ Decode /\ ~ SinkSends /\ ~ Recvfrom
  BY <1>5, OthersKeepLine DEF D!deliveryVars
<1> QED BY <1>1, <1>2, <1>3, <1>4, <1>5

(* Whatever the kernel drops, whatever an ending flowgraph loses and       *)
(* whenever get_payloads() gives up: the tests are given what was          *)
(* published, in its order, and nothing twice.                             *)
THEOREM HarnessDelivers == HarnessSpec => ImplementsDelivery
<1>1. HarnessInit => TypeInv /\ Line /\ D!DeliveryInit
  BY TypeInvInit, LineInit
<1>2. TypeInv /\ Line /\ [HarnessNext]_harnessVars => (TypeInv /\ Line)'
  BY TypeInvNext, LineNext
<1>3. TypeInv /\ Line /\ [HarnessNext]_harnessVars
        => [D!DeliveryNext]_(D!deliveryVars)
  BY StepDelivers
<1> QED
  BY <1>1, <1>2, <1>3, PTL DEF HarnessSpec, ImplementsDelivery, D!DeliverySpec
-----------------------------------------------------------------------------
(* The reports.  The summary in hand has counted the tests of its suite    *)
(* whose payloads were collected, and every report is one that was         *)
(* complete when it was written.                                           *)

(* The payloads the first n tests of a suite expect.                       *)
Expected(s, n) == UNION {{t} \X (1..plan[s][t].times) : t \in 1..n}

Counts(r, s, n) ==
    /\ r.tests = n
    /\ IsFiniteSet(Expected(s, n))
    /\ r.payloads = Cardinality(Expected(s, n))
    /\ r.correct <= r.payloads

(* The tests of the suite in hand that are counted: not the one at work.   *)
Counted == IF pc = "suite" THEN test ELSE test - 1

ReportsCount == \A s \in 1..Len(reports) : Counts(reports[s], s, Len(plan[s]))

SummaryCounts == Counts(summary, suite, Counted)

ReportsInv ==
    /\ ReportsCount
    /\ pc = "run" => Len(reports) = suite
    /\ pc \in {"suite", "wait", "collect"} =>
          /\ Len(reports) = suite - 1
          /\ SummaryCounts

LEMMA NothingExpected ==
    ASSUME NEW s
    PROVE  Counts(NewSummary, s, 0)
<1>1. 1..0 = {}
  OBVIOUS
<1>2. Expected(s, 0) = {}
  BY <1>1 DEF Expected
<1> QED BY <1>2, FS_EmptySet DEF Counts, NewSummary

LEMMA CardinalityOfInterval ==
    ASSUME NEW k \in Nat
    PROVE  IsFiniteSet(1..k) /\ Cardinality(1..k) = k
<1>1. 1 \in Int /\ k \in Int
  OBVIOUS
<1>2. /\ IsFiniteSet(1..k)
      /\ Cardinality(1..k) = IF 1 > k THEN 0 ELSE k - 1 + 1
  BY <1>1, FS_Interval
<1> QED BY <1>2

(* One more test expects as many payloads as its number says.              *)
LEMMA OneMoreExpected ==
    ASSUME NEW s, NEW n \in Nat, plan[s][n + 1].times \in Nat,
           IsFiniteSet(Expected(s, n))
    PROVE  /\ IsFiniteSet(Expected(s, n + 1))
           /\ Cardinality(Expected(s, n + 1))
                = Cardinality(Expected(s, n)) + plan[s][n + 1].times
<1> DEFINE k == plan[s][n + 1].times
           E == Expected(s, n)
           P == {n + 1} \X (1..k)
<1>1. 1..(n + 1) = (1..n) \cup {n + 1} /\ k \in Nat
  OBVIOUS
<1>2. Expected(s, n + 1) = E \cup P
  BY <1>1 DEF Expected
<1>3. E \cap P = {}
  <2>1. \A e \in E : e[1] \in 1..n
    BY DEF Expected
  <2>2. \A e \in P : e[1] = n + 1
    OBVIOUS
  <2>3. n + 1 \notin 1..n
    OBVIOUS
  <2> QED BY <2>1, <2>2, <2>3
<1>4. IsFiniteSet(P) /\ Cardinality(P) = k
  <2>1. IsFiniteSet({n + 1}) /\ Cardinality({n + 1}) = 1
    BY FS_Singleton
  <2>2. IsFiniteSet(1..k) /\ Cardinality(1..k) = k
    BY <1>1, CardinalityOfInterval
  <2>3. IsFiniteSet(P) /\ Cardinality(P) = Cardinality({n + 1}) * Cardinality(1..k)
    BY <2>1, <2>2, FS_Product
  <2> QED BY <2>1, <2>2, <2>3
<1>5. Cardinality(E) \in Nat
  BY FS_CardinalityType
<1> HIDE DEF E, P, k
<1>6. /\ IsFiniteSet(E \cup P)
      /\ Cardinality(E \cup P)
           = Cardinality(E) + Cardinality(P) - Cardinality(E \cap P)
  BY <1>3, <1>4, FS_Union DEF E
<1>7. Cardinality({}) = 0
  BY FS_EmptySet
<1>8. Cardinality(E \cap P) = 0
  BY <1>3, <1>7
<1>9. Cardinality(E \cup P) = Cardinality(E) + k
  BY <1>1, <1>4, <1>5, <1>6, <1>8
<1> QED BY <1>2, <1>6, <1>9 DEF E, k

LEMMA AtMostAllCorrect ==
    ASSUME NEW data, NEW t, t.times \in Nat
    PROVE  /\ Cardinality(Correct(data, t)) \in Nat
           /\ Cardinality(Correct(data, t)) <= t.times
<1>1. IsFiniteSet(1..t.times) /\ Cardinality(1..t.times) = t.times
  BY FS_Interval
<1>2. Correct(data, t) \in SUBSET (1..t.times)
  BY DEF Correct
<1> QED BY <1>1, <1>2, FS_Subset, FS_CardinalityType

LEMMA ReportsInit == HarnessInit => ReportsInv
BY EmptySeq DEF HarnessInit, ReportsInv, ReportsCount

LEMMA AddResultCounts ==
    ASSUME TypeInv, ReportsInv, AddResult
    PROVE  ReportsInv'
<1> DEFINE t == TestInHand
           c == Cardinality(Correct(total_data, t))
<1>1. /\ pc = "collect" /\ suite >= 1 /\ test \in Nat /\ test >= 1
      /\ summary \in Summary
  BY SuiteIsTyped DEF AddResult, TypeInv, InHand, HarnessTypeOK
<1>2. t.times \in Nat /\ t = plan[suite][test]
  BY <1>1, TestIsTyped DEF TestInHand
<1>3. c \in Nat /\ c <= t.times
  BY <1>2, AtMostAllCorrect
<1>4. /\ UNCHANGED <<plan, suite, test, reports>>
      /\ pc' \in {"suite", "raised"}
      /\ summary' = [tests    |-> summary.tests + 1,
                     payloads |-> summary.payloads + t.times,
                     correct  |-> summary.correct + c]
  BY DEF AddResult
<1> HIDE DEF t, c
<1>5. Counts(summary, suite, test - 1) /\ Len(reports) = suite - 1
  BY <1>1 DEF ReportsInv, SummaryCounts, Counted
<1>6. PICK n \in Nat : n = test - 1 /\ test = n + 1
  BY <1>1
<1>7. /\ IsFiniteSet(Expected(suite, test))
      /\ Cardinality(Expected(suite, test))
           = Cardinality(Expected(suite, n)) + t.times
  BY <1>2, <1>5, <1>6, OneMoreExpected DEF Counts
<1>8. /\ summary'.tests = test
      /\ summary'.payloads = Cardinality(Expected(suite, test))
      /\ summary'.correct <= summary'.payloads
  <2>1. /\ summary.tests = n /\ summary.payloads = Cardinality(Expected(suite, n))
        /\ summary.correct <= summary.payloads
    BY <1>5, <1>6 DEF Counts
  <2>2. summary.payloads \in Nat /\ summary.correct \in Nat
    BY <1>1 DEF Summary
  <2> QED BY <1>2, <1>3, <1>4, <1>6, <1>7, <2>1, <2>2
<1>9. SummaryCounts' \/ pc' = "raised"
  BY <1>4, <1>7, <1>8 DEF SummaryCounts, Counts, Counted, Expected
<1>10. ReportsCount'
  BY <1>4 DEF ReportsInv, ReportsCount, Counts, Expected
<1> QED BY <1>4, <1>5, <1>9, <1>10 DEF ReportsInv

LEMMA ExportCounts ==
    ASSUME TypeInv, ReportsInv, ExportSummary
    PROVE  ReportsInv'
<1>1. /\ pc = "suite" /\ test = Len(plan[suite]) /\ suite \in Nat /\ suite >= 1
      /\ summary \in Summary /\ reports \in Seq(Summary)
      /\ UNCHANGED <<plan, suite, test, summary>>
  BY PlansAssumption, LenProperties
  DEF ExportSummary, TypeInv, InHand, HarnessTypeOK
<1>2. Counts(summary, suite, Len(plan[suite])) /\ Len(reports) = suite - 1
  BY <1>1 DEF ReportsInv, SummaryCounts, Counted
<1>3. CASE pc' = "raised" /\ UNCHANGED reports
  BY <1>1, <1>3 DEF ReportsInv, ReportsCount, Counts, Expected
<1>4. CASE pc' = "run" /\ reports' = Append(reports, summary)
  <2>1. /\ Len(reports') = Len(reports) + 1 /\ reports'[Len(reports) + 1] = summary
        /\ \A s \in 1..Len(reports) : reports'[s] = reports[s]
        /\ Len(reports) \in Nat
    BY <1>1, <1>4, AppendProperties, LenProperties
  <2>2. ASSUME NEW s \in 1..Len(reports')
        PROVE  Counts(reports'[s], s, Len(plan[s]))
    <3>1. CASE s \in 1..Len(reports)
      BY <2>1, <3>1 DEF ReportsInv, ReportsCount
    <3>2. CASE s = Len(reports) + 1
      BY <1>1, <1>2, <2>1, <3>2
    <3> QED BY <2>1, <2>2, <3>1, <3>2
  <2>3. ReportsCount'
    BY <1>1, <2>2 DEF ReportsCount, Counts, Expected
  <2>4. Len(reports') = suite'
    BY <1>1, <1>2, <2>1
  <2>5. pc' = "run"
    BY <1>4
  <2> QED BY <2>3, <2>4, <2>5 DEF ReportsInv
<1> QED BY <1>3, <1>4 DEF ExportSummary

(* A suite begins with a summary of its own.                               *)
LEMMA NextSuiteCounts ==
    ASSUME TypeInv, ReportsInv, NextSuite
    PROVE  ReportsInv'
<1>1. /\ pc = "run" /\ suite \in Nat /\ UNCHANGED <<plan, reports>>
      /\ Len(reports) = suite
  BY PlansAssumption, LenProperties
  DEF NextSuite, TypeInv, HarnessTypeOK, ReportsInv
<1>2. ReportsCount'
  BY <1>1 DEF ReportsInv, ReportsCount, Counts, Expected
<1>3. CASE pc' = "done"
  BY <1>2, <1>3 DEF ReportsInv
<1>4. CASE pc' # "done"
  <2>1. /\ suite' = suite + 1 /\ test' = 0 /\ summary' = NewSummary /\ pc' = "suite"
    BY <1>4 DEF NextSuite, SuiteSummary
  <2>2. Counts(NewSummary, suite', 0)
    BY NothingExpected
  <2>3. SummaryCounts'
    BY <1>1, <2>1, <2>2 DEF SummaryCounts, Counts, Counted, Expected
  <2>4. Len(reports') = suite' - 1
    BY <1>1, <2>1
  <2> QED BY <1>2, <2>1, <2>3, <2>4 DEF ReportsInv
<1> QED BY <1>3, <1>4

(* No other step counts, or writes a report.                               *)
LEMMA OthersKeepCounts ==
    ASSUME TypeInv, ReportsInv, [HarnessNext]_harnessVars,
           ~ AddResult, ~ ExportSummary, ~ NextSuite
    PROVE  ReportsInv'
<1>1. UNCHANGED <<plan, suite, summary, reports>>
  BY DEF HarnessNext, MainStep, InvalidMetadata, StartFlowgraph, WaitAndCollect,
     Recvfrom, RecvfromTimesOut, Decode, SinkSends, SinkExits, FlowgraphEnds,
     Interrupt, harnessVars, thread, radio, server, accounts
<1>2. ReportsCount'
  BY <1>1 DEF ReportsInv, ReportsCount, Counts, Expected
<1>3. \/ pc' \in {"raised", "exited", "done"}
      \/ pc' = pc /\ test' = test
      \/ pc = "wait" /\ pc' = "collect" /\ test' = test
      \/ pc = "suite" /\ pc' = "wait" /\ test' = test + 1
  BY DEF HarnessNext, MainStep, InvalidMetadata, StartFlowgraph, WaitAndCollect,
     Recvfrom, RecvfromTimesOut, Decode, SinkSends, SinkExits, FlowgraphEnds,
     Interrupt, harnessVars, thread
<1>4. CASE pc' \in {"raised", "exited", "done"}
  BY <1>2, <1>4 DEF ReportsInv
<1>5. CASE pc' \notin {"raised", "exited", "done"}
  <2>1. test \in Int
    BY PlansAssumption DEF TypeInv, HarnessTypeOK
  <2>2. pc' \in {"suite", "wait", "collect"}
          => pc \in {"suite", "wait", "collect"} /\ Counted' = Counted
    BY <1>3, <1>5, <2>1 DEF Counted
  <2>3. ASSUME pc' \in {"suite", "wait", "collect"}
        PROVE  Len(reports') = suite' - 1 /\ SummaryCounts'
    <3>1. Len(reports) = suite - 1 /\ SummaryCounts
      BY <2>2, <2>3 DEF ReportsInv
    <3> QED BY <1>1, <2>2, <2>3, <3>1 DEF SummaryCounts, Counts, Expected
  <2>4. pc' = "run" => pc = "run"
    BY <1>3
  <2> QED BY <1>1, <1>2, <2>3, <2>4 DEF ReportsInv
<1> QED BY <1>4, <1>5

LEMMA ReportsNext ==
    ASSUME TypeInv, ReportsInv, [HarnessNext]_harnessVars
    PROVE  ReportsInv'
BY AddResultCounts, ExportCounts, NextSuiteCounts, OthersKeepCounts

(* The report of a suite counts every test of that suite once and none of  *)
(* another, whatever was lost and whichever report came before it.         *)
THEOREM ReportsAreOfTheirSuite == HarnessSpec => []ReportsAddUp
<1>1. ReportsInv => ReportsAddUp
  BY DEF ReportsInv, ReportsCount, ReportsAddUp, Counts, Expected, PayloadsOf
<1> QED
  BY <1>1, TypeInvInit, TypeInvNext, ReportsInit, ReportsNext, PTL
  DEF HarnessSpec
=============================================================================
