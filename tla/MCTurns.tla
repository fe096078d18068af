------------------------------- MODULE MCTurns -------------------------------
(* Small instances of Turns for TLC: what a model may say to a user who    *)
(* asks and changes things in one sentence.                                *)
EXTENDS Turns

Says(kind, intents) == [kind |-> kind, intents |-> intents]

(* A question and a change at once; a question of the model's own with a   *)
(* change; a macro, of which the book refuses what follows; a change with  *)
(* no date, and an operation that is not the model's to name.              *)
SmallAnswers ==
    {Says("answer", <<"cash_on", "add_item">>),
     Says("clarification", <<"add_item">>),
     Says("proposal", <<"set_amount", "scale_items">>),
     Says("proposal", <<"add_event", "set_horizon">>)}
=============================================================================
