---------------------------- MODULE MCNotifier ----------------------------
(* Small instances of Notifier.  The endpoints of the webhooks in Hung never  *)
(* answer, and no timeout ends a request to them.                             *)
EXTENDS Notifier

CONSTANT Hung

MCOneCrit == [w \in Webhooks |-> IF w = "dead" THEN "crit" ELSE "warn"]

\* Everything but a request to a hung endpoint goes on; cancelling the context
\* ends even that (post hands the context to the request).
HungSpec ==
  /\ Spec /\ WF_vars(Collector)
  /\ \A w \in Webhooks \ Hung : WF_vars(Worker(w))
  /\ \A w \in Hung : WF_vars((pc[w] # "inflight" \/ cancelled) /\ Worker(w))

\* The collector never blocks on notifications (Notify): a batch is always fully
\* handed out, even with a worker stuck in a request.
CollectorNeverBlocks == pending # << >> ~> pending = << >>

\* One dead endpoint never delays the others (webhookWorker): an event queued for
\* a webhook whose endpoint answers meets its end, unless the process stops.
HealthyDrains ==
  \A w \in Webhooks \ Hung :
    queue[w] # << >> \/ current[w] # NoEvent
      ~> cancelled \/ (queue[w] = << >> /\ current[w] = NoEvent)
============================================================================
