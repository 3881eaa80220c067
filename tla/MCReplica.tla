------------------------------ MODULE MCReplica ------------------------------
(* A plan and two writers for module Replica. *)
EXTENDS Replica, TLC

Field(kind, codec, within, conflict) ==
    [kind |-> kind, codec |-> codec, within |-> within, conflict |-> conflict,
     values |-> {}, writers |-> <<>>, group |-> <<>>, required |-> FALSE, requiredInParent |-> FALSE]

\* A board: a title agents may not change, and cards with a status and a text.
Board ==
    "title" :> [Field("scalar", "string", <<>>, "explicit") EXCEPT !.required = TRUE,
                    !.values = {"a", "b"}, !.writers = ("agent" :> "immutable")]
    @@ "cards" :> Field("sequence", "other", <<>>, "merge")
    @@ "status" :> [Field("scalar", "optionalString", <<"cards">>, "explicit") EXCEPT !.values = {"a", "b"}]
    @@ "text" :> [Field("text", "string", <<"cards">>, "merge") EXCEPT !.requiredInParent = TRUE]
\* TLC evaluates a definition once, but what stands for a constant at every use.
BoardPlan == Board
BoardOrder == <<"title", "cards", "status", "text">>

MCKindOf == <<"user", "agent">>
=============================================================================
