------------------------------- MODULE HostMC -------------------------------
(* One instance for two specifications that share no state: the byte walk of *)
(* capture_sm, FrameWalk, and a capture session, Session.  A behaviour is    *)
(* one of the first, while the second rests in one of its initial states, or *)
(* the other way round, so each is checked as it would be on its own.        *)
EXTENDS FrameWalk, Session

VARIABLE part   \* which of the two this behaviour is about

hostVars == <<part, vars, sessionVars>>

HostInit == /\ part \in {"walk", "session"}
            /\ Init /\ SessionInit
            /\ part = "walk" => limit = 0 /\ ~replay
            /\ part = "session" => gen = 2

Walks    == part = "walk" /\ Next /\ UNCHANGED <<part, sessionVars>>
WalkOver == /\ part = "walk" /\ (w.exited \/ (wire = <<>> /\ h.sent = MaxFrames))
            /\ UNCHANGED hostVars
MainRuns == part = "session" /\ MainStep /\ UNCHANGED <<part, vars>>
WorkRuns == part = "session" /\ WorkStep /\ UNCHANGED <<part, vars>>
Around   == /\ part = "session"
            /\ SigHandler \/ WriteFails \/ DeviceSends \/ TransportEnds \/ Ended
            /\ UNCHANGED <<part, vars>>

(* The fairness of FairSpec.                                                 *)
HostSpec == /\ HostInit /\ [][Walks \/ WalkOver \/ MainRuns \/ WorkRuns \/ Around]_hostVars
            /\ WF_hostVars(MainRuns) /\ WF_hostVars(WorkRuns)
=============================================================================
