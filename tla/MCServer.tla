------------------------------ MODULE MCServer ------------------------------
(***************************************************************************)
(* Model checking of Server.                                               *)
(***************************************************************************)
EXTENDS Server

CONSTANTS Alice, Bob, Carol, Base, Tuned

Ask(kind, n, slot) == [kind |-> kind, n |-> n, slot |-> slot, infill |-> FALSE,
                       lora |-> [i \in 1 .. n |-> Base]]

\* With other adapters for the first task, or for another type of task.
AskTuned(kind, n, slot) == [Ask(kind, n, slot) EXCEPT !.lora[1] = Tuned]
AskInfill(kind, n, slot) == [Ask(kind, n, slot) EXCEPT !.infill = TRUE]

\* On two slots: a slot action that waits for its slot; two requests for the
\* same slot; more tasks than slots, and a question that overtakes them;
\* tasks that cannot share a batch, being of other types, or completions of
\* other adapters, or an infill and a completion; tasks without a slot.
MCLoads == {Alice :> Ask("whole", 2, AnySlot)     @@ Bob :> Ask("action", 1, 1),
            Alice :> Ask("stream", 1, 1)          @@ Bob :> Ask("whole", 1, 1),
            Alice :> Ask("embedding", 3, AnySlot) @@ Bob :> Ask("metrics", 1, AnySlot),
            Alice :> Ask("whole", 1, AnySlot)     @@ Bob :> Ask("rerank", 1, AnySlot),
            Alice :> AskTuned("whole", 2, AnySlot) @@ Bob :> Ask("lora", 1, AnySlot),
            Alice :> AskInfill("whole", 1, AnySlot) @@ Bob :> Ask("whole", 1, AnySlot),
            Alice :> Ask("lora", 1, AnySlot)      @@ Bob :> Ask("metrics", 1, AnySlot)}

\* On one slot: a completion that has to wait behind a slot action.
MCDeferredLoads == {Alice :> Ask("whole", 1, AnySlot) @@ Bob :> Ask("action", 1, 1)
                      @@ Carol :> Ask("whole", 1, AnySlot)}

=============================================================================
