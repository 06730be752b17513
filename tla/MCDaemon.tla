------------------------------ MODULE MCDaemon ------------------------------
(* The metrics daemon: its incident engine and its threads.  They share no *)
(* state here; one run checks them, and `part` says which of them moves.   *)
EXTENDS Incidents, Pipeline

CONSTANTS s1, w1

VARIABLE part
daemonVars == <<part, incidentVars, pipelineVars>>

\* Every check of the services, with at most one other thing out of order.
OneTrouble ==
  {o \in Observation :
     Cardinality({x \in {"fresh", "disk", "oom"} :
                    \/ x = "fresh" /\ ~o.fresh
                    \/ x = "disk" /\ o.disk # "low"
                    \/ x = "oom" /\ o.oom # [w \in Workloads |-> "quiet"]}) <= 1}

DaemonInit ==
  /\ IncidentsInit /\ PipelineInit
  /\ part \in {"incidents", "pipeline"}

DaemonNext ==
  \/ part = "incidents" /\ IncidentsNext /\ UNCHANGED <<part, pipelineVars>>
  \/ part = "pipeline" /\ PipelineNext /\ UNCHANGED <<part, incidentVars>>

\* The one property that needs fairness is about the pipeline.
DaemonSpec == DaemonInit /\ [][DaemonNext]_daemonVars /\ PipelineFairness
=============================================================================
