--------------------------- MODULE RedactionCases ---------------------------
(* Words, documents and lists small enough to redact in every order.       *)
EXTENDS TLC

MCFold ==
  [w \in {"Marie", "Chaulk", "Snow", "Oslo", "Bay", "May", "Mr", "wrote", "stop", "F12", "A1B",
          "2C3", "Q1"} |-> w]
  @@ ("MARIE" :> "Marie") @@ ("CHAULK" :> "Chaulk")
MCShape == [w \in DOMAIN MCFold |->
  CASE w \in {"wrote", "stop"} -> "plain" [] w \in {"F12", "2C3"} -> "code"
    [] w \in {"A1B", "Q1"} -> "piece"     [] OTHER -> "name"]

Page(words) == [i \in DOMAIN words |-> <<words[i]>>]
Found(type, page, from, to, score) ==
  [type |-> type, page |-> page, from |-> from, to |-> to, score |-> score]
Doc(pages, found) == [pages |-> pages, found |-> found]

OnePerson == Doc(
  << Page(<<"Mr", "Marie", "Chaulk", "wrote", "Marie">>), Page(<<"MARIE", "CHAULK", "stop", "F12">>),
     Page(<<"Chaulk", "stop", "Snow">>) >>,
  {Found("PERSON", 1, 1, 3, 2)})
TwoPersons == Doc(
  << Page(<<"Marie", "Chaulk", "stop", "Marie", "Snow">>), Page(<<"Marie", "wrote", "Chaulk">>), Page(<<"stop", "May">>) >>,
  {Found("PERSON", 3, 2, 2, 1), Found("PERSON", 1, 1, 2, 2), Found("PERSON", 1, 4, 5, 1), Found("PERSON", 2, 1, 1, 2)})
Places == Doc(
  << Page(<<"Oslo", "stop", "Bay", "Snow">>), Page(<<"Chaulk", "stop", "Chaulk", "Bay">>),
     Page(<<"Marie", "Chaulk">>) >>,
  {Found("LOCATION", 1, 1, 1, 2), Found("LOCATION", 1, 3, 4, 1), Found("LOCATION", 2, 1, 1, 1),
   Found("LOCATION", 2, 3, 4, 2), Found("PERSON", 2, 3, 3, 1), Found("PERSON", 3, 1, 2, 1)})
Written == Doc(
  << << <<"NAME_LIKE", 1, 0>>, <<"stop">>, <<"Snow">> >>, Page(<<"Snow", "wrote">>),
     << <<"PERSON", 7, 0>> >> >>, {})
Codes == Doc(
  << Page(<<"A1B", "2C3", "stop", "F12">>), Page(<<"Q1", "stop", "2C3">>), Page(<<"F12", "A1B", "2C3">>) >>,
  {Found("ID_LIKE", 1, 4, 4, 2)})

MCDocs == {OnePerson, TwoPersons, Places, Written, Codes}

\* A surname that is a word of the vocabulary, detected by itself as well.
Surname == Doc(<< Page(<<"Marie", "May", "stop", "May">>) >>,
               {Found("PERSON", 1, 1, 2, 2), Found("PERSON", 1, 4, 4, 2)})
MCSurname == {Surname}

MCVocabulary == {"May", "Q1", "Mr"}
=============================================================================
