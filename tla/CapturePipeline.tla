--------------------------- MODULE CapturePipeline ---------------------------
(***************************************************************************)
(* The way of a capture from the hook into the index: Capture, whose drain *)
(* thread calls remember over HTTP, together with a memory daemon of which *)
(* only the promise of Filing is known.  They are two processes, and the   *)
(* call may fail before, while or after the daemon stores the drawer.      *)
(***************************************************************************)
EXTENDS Capture

CONSTANTS
  Outputs,    \* contents: equal outputs become one drawer
  Content     \* [Captures -> Outputs]: what the tool of a capture put out

ASSUME PipelineAssumption == Content \in [Captures -> Outputs]

VARIABLES inStore, reachable, answered     \* the daemon's, see Filing

daemonVars   == <<inStore, reachable, answered>>
pipelineVars == <<vars, daemonVars>>

Daemon == INSTANCE Filing WITH Drawers <- Outputs, stored <- inStore,
                               findable <- reachable, acked <- answered

PipelineInit == Init /\ Daemon!Init

InHands == {j.id : j \in djob}      \* what the drain thread is processing

-----------------------------------------------------------------------------
\* The daemon serves the drain thread, or a call it has given up, or others.
DaemonStep == Daemon!Next /\ UNCHANGED vars

\* What the event loop does, and the ends and beginnings of its process.
HookStep ==
  /\ (\E c \in Captures : SpoolWrite(c)) \/ LiveMount \/ Crash \/ Restart
  /\ UNCHANGED daemonVars

LoopStep == Loop /\ UNCHANGED daemonVars

\* What the drain thread does without the daemon.
DrainAlone ==
  /\ \/ Get \/ WorkerRaises \/ DrawerFiled \/ CaptureFailed
     \/ WorkerException \/ SpoolDelete
  /\ UNCHANGED daemonVars

\* client.remember returns: the daemon has answered.
FileReturns ==
  /\ FileDrawer
  /\ \A c \in InHands : Content[c] \in answered
  /\ UNCHANGED daemonVars

\* It raises: no daemon, an error, a lost answer, or the time is up.  The
\* drawer may have been stored by then, or be stored later.
FileRaises ==
  /\ FileDrawerRaises
  /\ filed' = filed \cup {c \in InHands : Content[c] \in inStore}
  /\ UNCHANGED daemonVars

DrainTurn == DrainAlone \/ FileReturns \/ FileRaises

PipelineNext == DaemonStep \/ HookStep \/ LoopStep \/ DrainTurn

PipelineSpec == PipelineInit /\ [][PipelineNext]_pipelineVars

\* As in Capture; nothing obliges the daemon to serve anybody.
PipelineFairSpec ==
  PipelineSpec /\ WF_pipelineVars(LoopStep) /\ WF_pipelineVars(DrainTurn)

-----------------------------------------------------------------------------
(* Properties                                                              *)

\* A capture that reached the disk stays on its way until search can find it,
\* whatever fails on either side: its drawer is findable, or its spool entry is
\* kept, or its failure is on record (without events: the worker's guard
\* dropped it, after a log line).
DeliveredOrKept ==
  \A c \in durable \ Unreadable :
    \/ Content[c] \in reachable
    \/ c \in spool
    \/ c \in (IF emit THEN failedLog ELSE gaveUp)

\* Why DeliveredOrKept holds: the hook records and forgets only what the daemon
\* has answered, what it answers it has made findable, and the recorded
\* outcomes are all that replay goes by.
DeliveryInv ==
  /\ DeliveredOrKept
  /\ answered \subseteq reachable
  /\ \A c \in filedLog : Content[c] \in answered
  /\ \A c \in InHands :
       /\ dpc = "filed" => Content[c] \in answered
       /\ dpc = "unlink" =>
            \/ Content[c] \in answered
            \/ c \in (IF emit THEN failedLog ELSE gaveUp)
=============================================================================
