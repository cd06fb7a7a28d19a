-------------------------- MODULE MCEffectJournal --------------------------
(* Small instances of EffectJournal for TLC. *)
EXTENDS EffectJournal

\* One discard whose echo may carry the open hand, and one plain card.
MCActions  == {"card", "discard"}
MCForms    == {"card", "discard", "discardOuvert"}
MCRenders  == {<<a, a>> : a \in MCActions} \cup {<<"discard", "discardOuvert">>}
MCMyTurns  == {0, 2}
=============================================================================
