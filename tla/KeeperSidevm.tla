---------------------------- MODULE KeeperSidevm ----------------------------
(***************************************************************************)
(* The ContractsKeeper as a whole (src/crates/phactory/src/contracts/     *)
(* support/keeper.rs): Keeper's weights and quota cache composed with the *)
(* sidevm of each contract and try_restart_sidevms.  A contract is its    *)
(* weight (in `contracts`) and its sidevm: none configured, running, or   *)
(* stopped (the instance exited); insert and drain act on both.  Contract:: *)
(* restart_sidevm_if_needed lies outside these sources and is modelled    *)
(* from the specification: it restarts a stopped sidevm or returns an     *)
(* error, and a contract in Faulty always fails to restart.               *)
(***************************************************************************)
EXTENDS Keeper

CONSTANTS
    KeyOrder,     \* address -> its rank in the OrdMap's key order
    Faulty        \* contracts whose sidevm never restarts

ASSUME KeyOrderAssumption ==
    /\ KeyOrder \in [Accounts -> Nat]
    /\ \A a, b \in Accounts : KeyOrder[a] = KeyOrder[b] => a = b
ASSUME FaultyAssumption == Faulty \subseteq Accounts

VARIABLE
    sidevm        \* ContractsKeeper.contracts, as address -> sidevm status

keeperVars == <<contracts, cache, appliedFor, sidevm>>

Status == {"none", "running", "stopped"}

Stopped == {a \in DOMAIN sidevm : sidevm[a] = "stopped"}

KeeperInit == Init /\ sidevm = [a \in {} |-> "none"]

(* insert: a new contract, with its weight and with or without a sidevm   *)
(* (started), is added; one at a present address replaces the old one.    *)
InsertContract(a, w, st) ==
    /\ Insert(a, w)
    /\ sidevm' = [x \in DOMAIN sidevm \cup {a} |-> IF x = a THEN st ELSE sidevm[x]]

(* drain: every contract is taken out of the keeper.                      *)
DrainContracts ==
    /\ Drain
    /\ sidevm' = [a \in {} |-> "none"]

(* A running sidevm instance exits (the environment).                     *)
SidevmExit(a) ==
    /\ a \in DOMAIN sidevm
    /\ sidevm[a] = "running"
    /\ sidevm' = [sidevm EXCEPT ![a] = "stopped"]
    /\ UNCHANGED vars

\* The stopped contracts that the sweep reaches when the contracts in
\* `fails` return an error.
\* Mutant: the sweep stops at the first error (`?` in place of logging).
ReachedAbortAtError(fails) ==
    {a \in Stopped :
        \A f \in fails \cap Stopped : KeyOrder[f] >= KeyOrder[a]}

ReachedAll(fails) == Stopped

(* try_restart_sidevms: ordmap_for_each_mut calls restart_sidevm_if_needed *)
(* on every contract in key order; an error is logged and the sweep goes  *)
(* on.  `fails` are the contracts whose restart errs this time (every     *)
(* faulty one among them); the others reached are running again.  The     *)
(* call takes &mut self and never yields, so the sweep is one step.       *)
TryRestartSidevms(fails) ==
    /\ Stopped # {}
    /\ Faulty \cap Stopped \subseteq fails
    /\ sidevm' = [a \in DOMAIN sidevm |->
                    IF a \in ReachedAll(fails) \ fails THEN "running" ELSE sidevm[a]]
    /\ UNCHANGED vars

KeeperNext ==
    \/ \E a \in Accounts, w \in Weights, st \in {"none", "running"} :
          InsertContract(a, w, st)
    \/ \E a \in Accounts, w \in Weights : SetWeight(a, w) /\ UNCHANGED sidevm
    \/ DrainContracts
    \/ ApplyLocalCacheQuotas /\ UNCHANGED sidevm
    \/ \E a \in Accounts : SidevmExit(a)
    \/ \E fails \in SUBSET Accounts : TryRestartSidevms(fails)

(* try_restart_sidevms is invoked by the registry at every block, so the *)
(* sweep is weakly fair.  restart_sidevm_if_needed is opaque; what is     *)
(* assumed of it is that a sweep in which only the faulty contracts fail  *)
(* is among those that keep coming (transient errors of the others do not *)
(* last forever).  Nothing is assumed of any single contract: that it is  *)
(* reached past a failing one is the sweep's own doing.  Inserts, drains, *)
(* weight changes, quota updates and exits are the environment's.         *)
Fairness ==
    WF_keeperVars(TryRestartSidevms(Faulty \cap Stopped))

KeeperSpec == KeeperInit /\ [][KeeperNext]_keeperVars /\ Fairness

-----------------------------------------------------------------------------
SidevmTypeOK ==
    /\ DOMAIN sidevm = DOMAIN contracts
    /\ \A a \in DOMAIN sidevm : sidevm[a] \in Status

(* A stopped sidevm of a contract that is not faulty eventually stops     *)
(* being stopped (it runs again, or the contract is drained or replaced), *)
(* however often other contracts' restarts fail: a failure is logged and  *)
(* must not abort the sweep.                                              *)
SidevmRestarted ==
    \A a \in Accounts \ Faulty :
        a \in Stopped ~> a \notin Stopped

=============================================================================
