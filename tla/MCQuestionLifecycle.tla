------------------------ MODULE MCQuestionLifecycle ------------------------
(* A selection and a reply that race with different options; one of them   *)
(* may be delivered again by its channel.                                  *)
EXTENDS QuestionLifecycle

Message(id, kind, user, option) ==
    [id |-> id, kind |-> kind, user |-> user, option |-> option]

MCMessages == {Message("click", "selection", "u1", "allow"),
               Message("text", "reply", "u1", "deny")}
MCOptions == {"allow", "deny"}
============================================================================
