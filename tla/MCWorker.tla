------------------------------ MODULE MCWorker ------------------------------
(***************************************************************************)
(* What runs on the analysis PC: which process works (WorkerMachine), and  *)
(* within one analysis the frame pass and the progress sender.  One of     *)
(* them moves, the others stay where they begin.                           *)
(***************************************************************************)
EXTENDS WorkerMachine, FramePass, ProgressSender

VARIABLE turn

WorkerInit ==
    /\ turn \in {"machine", "pass", "sender"}
    /\ MachineInit /\ PassInit /\ SenderInit
    /\ turn # "pass" => length = End /\ bad = {} /\ found = {}
                          /\ sweepFate = "whole" /\ gate = 1
WorkerNext ==
    /\ UNCHANGED turn
    /\ \/ turn = "machine" /\ MachineNext /\ UNCHANGED <<passVars, senderVars>>
       \/ turn = "pass" /\ PassNext /\ UNCHANGED <<machineVars, senderVars>>
       \/ turn = "sender" /\ SenderNext /\ UNCHANGED <<machineVars, passVars>>

workerVars == <<turn, machineVars, passVars, senderVars>>

\* Each module's fairness, while it is what moves.
WorkerFairness ==
    /\ \A p \in Service : WF_machineVars(turn = "machine" /\ Reads(p))
    /\ \A p \in Procs : /\ WF_machineVars(turn = "machine" /\ Starting(p))
                        /\ WF_machineVars(turn = "machine" /\ Beats(p))
                        /\ WF_machineVars(turn = "machine" /\ GoesOn(p))
                        /\ SF_machineVars(turn = "machine" /\ Syncs(p))
    /\ WF_machineVars(turn = "machine" /\ Tick)
    /\ WF_passVars(turn = "pass" /\ DecoderStep)
    /\ WF_passVars(turn = "pass" /\ LoopStep)
    /\ WF_passVars(turn = "pass" /\ SweepStep)
    /\ WF_senderVars(turn = "sender" /\ RunStep)
    /\ WF_senderVars(turn = "sender" /\ SenderStep)
    /\ WF_senderVars(turn = "sender" /\ KeeperStep)

WorkerSpec == WorkerInit /\ [][WorkerNext]_workerVars /\ WorkerFairness

\* worker.py, _claim_sole_worker and the locks it takes over: with a worker
\* installed and its troubles over, some process works, again and again.
SomeProcessWorks == turn = "machine" => SomeoneWorks

\* worker.py, _sync_analysis_code: a worker that keeps polling comes to run the
\* code the website has, whatever was installed half-way.
ProcessCatchesUp == turn = "machine" => CodeCatchesUp

\* No thread of an analysis waits for another one for good: the frame pass ends
\* whatever the loop gives up on (FrameFeed.close, SweepInBackground.join), and
\* a claimed run with its sender and its lease keeper whatever call fails
\* (run_remote_claimed_job).
AnalysisIsOver ==
    /\ turn = "pass" => PassEnds
    /\ turn = "sender" => RunIsOver
=============================================================================
