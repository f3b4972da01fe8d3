--------------------------- MODULE PredicateEngine ---------------------------
(***************************************************************************)
(* Where the coordinator's journals come from: programs that LEZ's privacy *)
(* circuit runs over a shielded account, the confidential predicate        *)
(* (predicate-engine) among them.  The circuit is external; that its       *)
(* output holds ciphertexts, commitments and nullifiers of the account and *)
(* nothing else is what journal_decode.rs:8-14 lists and the 696 bytes of  *)
(* the captured journal are used up by.                                    *)
(***************************************************************************)
EXTENDS Coordinator

CONSTANTS
    LezProgram,        \* the programs deployed on LEZ
    PredicateProgram,  \* the one of them that is confidential_predicate
    CircuitImage,      \* the image that is PRIVACY_PRESERVING_CIRCUIT_ID
    Note,              \* shielded accounts with a commitment in the state
    Balance,           \* [Note -> Nat]
    Threshold,         \* the thresholds instructions name, a subset of Nat
    OutputOf           \* [Note -> Outputs[CircuitImage]], the circuit's output

VARIABLE executions  \* history: what was executed and proved

engineVars == <<vars, executions>>

EngineInit == Init /\ executions = {}

\* check_balance_over_threshold asserts; what other programs do about a
\* threshold is their affair.
Executes(program, threshold, note) ==
    program = PredicateProgram => Balance[note] >= threshold

\* execute_and_prove runs the program within the circuit, whose image the
\* receipt is of, and the account is left as it is.
ExecuteAndProve(s, program, threshold, note) ==
    /\ Executes(program, threshold, note)
    /\ Prove(s, CircuitImage, OutputOf[note])
    /\ executions' = executions \union
            {[program |-> program, threshold |-> threshold, note |-> note]}

EngineNext ==
    \/ \E s \in Selector, program \in LezProgram, threshold \in Threshold,
          note \in Note : ExecuteAndProve(s, program, threshold, note)
    \/ /\ \/ RouterInitialize \/ \E s \in Selector : AddVerifier(s)
          \/ ConsumerStep \/ CoordinatorStep
       /\ UNCHANGED executions

EngineSpec == EngineInit /\ [][EngineNext]_engineVars
-----------------------------------------------------------------------------
\* "A valid proof existing == the predicate held" (confidential_predicate.rs:18)
\* and "its id is bound into the journal" (examples/prove.rs:108): whatever the
\* coordinator emitted as PredicateVerified was an execution of the predicate.
VerifiedIsPredicate ==
    \A a \in DOMAIN verified : \E e \in executions :
        /\ e.program = PredicateProgram
        /\ Sha256[OutputOf[e.note]] = verified[a].digest
=============================================================================
