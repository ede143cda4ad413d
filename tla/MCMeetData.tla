------------------------------ MODULE MCMeetData ------------------------------
(* A file with three heats of two events, another with one heat, and a page  *)
(* of combined heats for the first file.                                     *)
EXTENDS MeetData, TLC
LOCAL INSTANCE SequencesExt

CONSTANTS free, ann, bob, cy, dee, eve

OneSwimmer(swimmer) == <<swimmer, 0>>
Meta(ages, sexes) == [stroke |-> free, distance |-> 50, relay |-> FALSE, sexes |-> sexes, ages |-> ages]

DualMeet == [meta |-> (1 :> Meta(<<9, 10>>, {1}) @@ 2 :> Meta(<<11, 12>>, {1, 2})),
             heats |-> (<<1, 1>> :> (1 :> OneSwimmer(ann) @@ 2 :> OneSwimmer(bob))
                        @@ <<2, 1>> :> (2 :> OneSwimmer(cy) @@ 3 :> OneSwimmer(dee))
                        @@ <<2, 2>> :> (3 :> OneSwimmer(eve)))]
OneHeat == [meta |-> (1 :> Meta(<<0, 0>>, {2})), heats |-> (<<1, 1>> :> (1 :> OneSwimmer(eve)))]

MCParsed == {DualMeet, OneHeat}
Pages == UNION {[S -> DOMAIN DualMeet.heats] : S \in SUBSET DOMAIN DualMeet.heats}
Rows(page) ==
  LET sources == SetToSortSeq(DOMAIN page, Before)
  IN  [i \in DOMAIN sources |-> <<sources[i], page[sources[i]]>>]
MCForms == {Rows(page) : page \in Pages}
MCHeats == {<<1, 1>>, <<2, 1>>, <<9, 9>>}
MCFirstHeat == <<1, 1>>

Row(sex, ages) == [stroke |-> free, distance |-> 50, relay |-> FALSE, sex |-> sex, ages |-> ages]
MCRowTables == {{Row(1, <<9, 10>>), Row(1, <<11, 12>>)}, {Row(2, <<0, 0>>)}}

Message(default, genders, distances) ==
  [is_default |-> default, genders |-> genders, distances |-> distances, strokes |-> {}, age_groups |-> {}]
MCMessages == {Message(TRUE, {}, {}), Message(FALSE, {{1}}, {}),
               [Message(FALSE, {}, {50}) EXCEPT !.age_groups = {<<9, 10>>}]}
=============================================================================
