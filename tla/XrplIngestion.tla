---------------------------- MODULE XrplIngestion ---------------------------
(***************************************************************************)
(* The XRPL subscriber and the XRPL ingestor composed: the transaction     *)
(* followed by the ingestor is the first of the subscriber's chain, and    *)
(* reaches the events queue when the subscriber, or the recovery tool,     *)
(* publishes it.                                                           *)
(***************************************************************************)
EXTENDS XrplSubscriber, XrplIngestor

vars == <<subscriberVars, ingestorVars>>

Followed == 1

Init == SubscriberInit /\ IngestorInit

\* The copy a publication of the followed transaction adds to the queue.
NextCopy == CHOOSE c \in Copies : /\ at[<<"tx", c>>] = "absent"
                                  /\ \A d \in Copies : d < c => at[<<"tx", d>>] # "absent"

Publication(i, action) ==
    /\ action
    /\ IF i = Followed
       THEN /\ \E c \in Copies : at[<<"tx", c>>] = "absent"   \* bound: copies of the transaction
            /\ at' = [at EXCEPT ![<<"tx", NextCopy>>] = "queued"]
            /\ UNCHANGED <<subject, work, row, axelar, quorum, retryVars, gaveUp, disturbances>>
       ELSE UNCHANGED ingestorVars

SubscriberStep ==
    /\ flow = "tx"
    /\ \/ /\ CloseLedger \/ FetchPage \/ FetchFails \/ StoreLatestLedger
             \/ SubscriberStop \/ SubscriberStart
          /\ UNCHANGED ingestorVars
       \/ \E i \in Transactions : \/ Publication(i, PublishNext(i))
                                  \/ Publication(i, RecoverTx(i))

IngestorStep == IngestorNext /\ UNCHANGED subscriberVars

\* Bound: what goes wrong in the subscriber and the ingestor together.
Next == /\ SubscriberStep \/ IngestorStep
        /\ upsets' + disturbances' <= MaxDisturbances

(* The subscriber's loop and the deployment's restarts, the workers' tasks, *)
(* and the Amplifier's tasks go on; faults, stops and duplicates need not.  *)
Fairness ==
    /\ WF_vars(flow = "tx" /\ (CloseLedger \/ FetchPage \/ StoreLatestLedger \/ SubscriberStart)
                 /\ UNCHANGED ingestorVars)
    /\ WF_vars(\E i \in Transactions : Publication(i, PublishNext(i)))
    /\ \A w \in Workers : WF_vars(WorkerStep(w) /\ UNCHANGED subscriberVars)
    /\ WF_vars(AxelarStep /\ UNCHANGED subscriberVars)

Spec == Init /\ [][Next]_vars /\ Fairness

\* The followed payment is a message that the gateway translates, in a priced token.
Routable == flow = "tx" /\ IsGmp(tx) /\ tx.translates /\ HasPrice(tx)

(* A payment that carries a cross-chain message is, once it is in a         *)
(* validated ledger, routed by Axelar in the end, or the relayer has given  *)
(* it up for one of the recorded reasons: the subscriber stopped between    *)
(* the cursor and the publication, or the ingestor dropped its message or   *)
(* one of its tasks with a warning.                                         *)
EveryPaymentRouted ==
    (Routable /\ validated >= Chain[Followed])
        ~> ("confirmed" \in axelar \/ Followed \in lost \/ gaveUp # {})

(* What the relayer has recorded and told Axelar agrees with what happened: *)
(* a routed row is complete, an executed payment and an answered proof are  *)
(* reported once their task is acknowledged, and the retries of a message   *)
(* stay within the limit; the other parts make this inductive.              *)
IngestionInv == SubscriberInv /\ IngestorInv
=============================================================================
