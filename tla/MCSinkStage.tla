----------------------------- MODULE MCSinkStage -----------------------------
(* Instances of SinkStage for TLC. *)
EXTENDS SinkStage

Setting(size, writers, timed, retries, dlqs, limit) ==
    [size |-> size, writers |-> writers, timed |-> timed, retries |-> retries, dlq |-> dlqs,
     limit |-> limit]

\* one or two writers, batches of one to three, with and without a timeout,
\* and inflight limits below a batch and just filling it
Mixed == {Setting(1, 1, FALSE, 1, TRUE, 0), Setting(2, 1, TRUE, 0, TRUE, 0),
          Setting(2, 2, TRUE, 0, FALSE, 0), Setting(3, 1, TRUE, 0, FALSE, 0),
          Setting(1, 2, FALSE, 1, TRUE, 2),
          Setting(2, 1, FALSE, 0, FALSE, 1), Setting(2, 1, TRUE, 0, FALSE, 1),
          Setting(2, 1, FALSE, 1, FALSE, 2)}
=============================================================================
