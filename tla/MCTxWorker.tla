----------------------------- MODULE MCTxWorker -----------------------------
(***************************************************************************)
(* TLC instance of the TX path.  TxWorker has a queue of two jobs, a       *)
(* completion queue of two results and two RF configurations, so that both *)
(* queues fill, overflow and drain within MaxJobs chunks.  CadWait shares  *)
(* no state with it, so a behaviour runs one of them.                      *)
(***************************************************************************)
EXTENDS TxWorker, CadWait

CONSTANTS c1, c2

VARIABLE side

MCRfConfigs == {c1, c2}

\* One and three ticks of waiting; one to three of idle time, exact and
\* rounded up, and more of it than the wait allows.
MCWaits == {50, 150}
MCIdles == {0, 100, 120}
MCPolls == {50, 70}
MCBoot == [wait |-> 150, idle |-> 100, poll |-> 50, after |-> FALSE,
           managed |-> TRUE]

MCInit == side \in {"tx", "cad"} /\ Init /\ CadInit
MCNext == \/ side = "tx" /\ Next /\ UNCHANGED <<side, cadVars>>
          \/ side = "cad" /\ CadNext /\ UNCHANGED <<side, vars>>
MCSpec == MCInit /\ [][MCNext]_<<side, vars, cadVars>> /\ Fairness
=============================================================================
