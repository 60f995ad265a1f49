--------------------------- MODULE FrameReceiver ---------------------------
(***************************************************************************)
(* What the users of the port "frames" (lib/message_socket_sink_impl.cc,   *)
(* lib/message_file_sink_impl.cc) may rely on, without samples, symbols or *)
(* words: the receiver acquires one signal at a time, may lose it until it *)
(* locked onto it, and delivers for a signal it locked onto at most one    *)
(* frame, made of that signal's own header and payload.                    *)
(***************************************************************************)
EXTENDS Naturals, Sequences

VARIABLES
    phase,          \* "listening", "acquired" or "locked"
    reception,      \* number of signals acquired so far
    delivered       \* for each frame: the signals it is made of

vars == <<phase, reception, delivered>>

Init ==
    /\ phase = "listening"
    /\ reception = 0
    /\ delivered = <<>>

Acquire ==
    /\ phase = "listening"
    /\ phase' = "acquired"
    /\ reception' = reception + 1
    /\ UNCHANGED delivered

Lose ==
    /\ phase = "acquired"
    /\ phase' = "listening"
    /\ UNCHANGED <<reception, delivered>>

Lock ==
    /\ phase = "acquired"
    /\ phase' = "locked"
    /\ UNCHANGED <<reception, delivered>>

(* A variation with a mistake, for comparison: once a frame was delivered  *)
(* the receiver goes on with the same signal.                              *)
DeliverAndStay ==
    /\ phase = "locked"
    /\ delivered' = Append(delivered,
                           [header |-> reception, payload |-> reception])
    /\ UNCHANGED <<phase, reception>>

Deliver ==
    /\ phase = "locked"
    /\ phase' = "listening"
    /\ delivered' = Append(delivered,
                           [header |-> reception, payload |-> reception])
    /\ UNCHANGED reception

Next == Acquire \/ Lose \/ Lock \/ Deliver

Spec == Init /\ [][Next]_vars

-----------------------------------------------------------------------------
(* Two frames are never made of the same signal, and they are delivered in *)
(* the order their signals were acquired.                                  *)
InOrderOnce ==
    \A i, j \in 1..Len(delivered) :
        i < j => delivered[i].payload < delivered[j].header
=============================================================================
