---------------------------- MODULE ContractService ----------------------------
(***************************************************************************)
(* What ContractService.deploy makes of a call of deploy_contract: an      *)
(* instance at an address, once a receipt has come, whatever it says.      *)
(* Calls through an instance are calls of call_contract.                   *)
(***************************************************************************)
EXTENDS TransactionBuilder

\* The address the ledger gives to a contract, and the one made of the hash of
\* the transaction.
ContractAddress(t) == [deployed_by |-> t]
HashAddress(t) == [hash_of |-> t]

\* The results with which deploy_contract returns; it raises with the others.
Returns == Statuses

\* The instances handed out: deployments that have returned.
Instances == {t \in Tasks : result[t] \in Returns /\ call[t].kind = "contract_deploy"}

\* The receipt's query asks for no events (queries.py 16-51), so the receipt
\* has no contract_address and deploy falls back to the hash.
Address(t) == HashAddress(t)

\* The contracts on the ledger.
Contracts ==
    {ContractAddress(t) : t \in {u \in AppliedBy(Len(chain)) : call[u].kind = "contract_deploy"}}

-----------------------------------------------------------------------------
\* service.py:40 "Returns: ContractInstance with deployed address": there is a
\* contract at the address of every instance.
InstancesHaveContracts == \A t \in Instances : Address(t) \in Contracts
=============================================================================
