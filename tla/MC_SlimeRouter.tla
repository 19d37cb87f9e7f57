--------------------------- MODULE MC_SlimeRouter ---------------------------
(* The second post goes on from an answer to the first. *)
EXTENDS SlimeRouter

Letters == { <<"p">>, <<"a">>, <<"b">> }
SomeWorkers == <<1>>
SomeVocabulary == Letters \cup { <<"a", "b">> }
SomePrompt == << <<"p">>, <<"p", "a", "b", "b">> >>
SomeOutputs == << { << <<"a">> >>, << <<"a", "b">> >>, << <<"a">>, <<"b">> >> },
                  { << <<"b">> >> } >>

Job(loaded, actors, how, r, a, f, d) ==
  [middleware |-> loaded, distributed |-> actors, fault |-> how, rejects |-> r,
   aborts |-> a, faults |-> f, posterDeaths |-> d]
Aborted == Job(TRUE, FALSE, "dead", FALSE, 2, 1, 0)
Rejected == Job(TRUE, FALSE, "dead", TRUE, 1, 0, 0)
Failing == Job(TRUE, TRUE, "dead", FALSE, 0, 1, 1)
Plain == Job(FALSE, TRUE, "dead", FALSE, 1, 1, 1)
Sick == Job(FALSE, FALSE, "sick", FALSE, 0, 1, 0)
SomeOptions == { Aborted, Rejected, Failing, Plain, Sick }
SickOptions == { Sick }
=============================================================================
