-------------------------- MODULE AcceptedHistory --------------------------
(***************************************************************************)
(* What the collaboration store promises of one document, whatever races,  *)
(* retries and failures lie behind it: the accepted operations of an       *)
(* incarnation only ever grow, and any other history comes under an        *)
(* incarnation of its own (crates/clerkenwell-store/src/version.rs).       *)
(***************************************************************************)
EXTENDS Integers

CONSTANTS
    Given,  \* the incarnation of a history brought from another store
    None    \* no document is stored

VARIABLES
    document,  \* None, or the incarnation and operations accepted
    minted     \* how many incarnations were minted

vars == <<document, minted>>

Document(incarnation, operations) ==
    [incarnation |-> incarnation, operations |-> operations]

(* The incarnation of a new history is minted for it, and never met before. *)
Mint == minted' = minted + 1

Create(operations) ==
    /\ document = None
    /\ operations # {}
    /\ \/ Mint /\ document' = Document(minted', operations)
       \/ UNCHANGED minted /\ document' = Document(Given, operations)

Accept(operations) ==
    /\ document # None
    /\ ~ operations \subseteq document.operations
    /\ document' = [document EXCEPT !.operations = @ \cup operations]
    /\ UNCHANGED minted

Rewrite(operations) ==
    /\ document # None
    /\ operations # {}
    /\ Mint
    /\ document' = Document(minted', operations)

Remove ==
    /\ document # None
    /\ document' = None
    /\ UNCHANGED minted

Init ==
    /\ minted = 0
    /\ \/ document = None
       \/ \E operations \in {{1}} : document = Document(Given, operations)

Next ==
    \/ /\ document' # None
       /\ LET operations == document'.operations
          IN Create(operations) \/ Accept(operations) \/ Rewrite(operations)
    \/ Remove

Spec == Init /\ [][Next]_vars

=============================================================================
