----------------------------- MODULE AtomicStore -----------------------------
(***************************************************************************)
(* What the durable store promises, with the log, the snapshot files and   *)
(* the recovery procedure left out: there is one committed state; a        *)
(* transaction enters it once and for good; what readers see while the     *)
(* server runs is that state; a crash forgets what readers see and nothing *)
(* else.                                                                   *)
(*                                                                         *)
(* A database state is the multiset of the transactions applied to it: it  *)
(* tells a lost transaction and a transaction applied twice apart from the *)
(* right state.                                                            *)
(***************************************************************************)
EXTENDS Naturals

CONSTANT Tx  \* transactions

VARIABLES
    committed, \* how often each transaction is applied in the durable state
    visible,   \* the same, for the state readers see
    up         \* the server accepts requests

absVars == <<committed, visible, up>>

NothingApplied == [t \in Tx |-> 0]

AtomicInit ==
    /\ committed = NothingApplied
    /\ visible = NothingApplied
    /\ up = FALSE

\* A client's transaction becomes durable and visible in one step.
CommitTransaction(t) ==
    /\ up
    /\ committed[t] = 0
    /\ committed' = [committed EXCEPT ![t] = 1]
    /\ visible' = committed'
    /\ UNCHANGED up

\* The server may repair its state while it starts: one transaction of its own.
RepairTransaction(t) ==
    /\ ~up
    /\ committed[t] = 0
    /\ committed' = [committed EXCEPT ![t] = 1]
    /\ UNCHANGED <<visible, up>>

\* The server is ready: readers see the committed state.
Serve ==
    /\ ~up
    /\ up' = TRUE
    /\ visible' = committed
    /\ UNCHANGED committed

Stop ==
    /\ up
    /\ up' = FALSE
    /\ visible' = NothingApplied
    /\ UNCHANGED committed

AtomicNext ==
    \/ \E t \in Tx : CommitTransaction(t) \/ RepairTransaction(t)
    \/ Serve
    \/ Stop

AtomicSpec == AtomicInit /\ [][AtomicNext]_absVars
=============================================================================
