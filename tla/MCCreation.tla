----------------------------- MODULE MCCreation -----------------------------
(* Finite instances of Creation for TLC. *)
EXTENDS Creation, TLC

\* Two levels and two genders; a seed is a way to order the levels and to draw.
MCLevels == <<"High", "Low">>
MCLevelOf == <<"High", "High", "Low", "Low", "High", "Low">>
MCGenderOf == <<"female", "male", "female", "male", "male", "female">>
MCNamesOf == [female |-> <<"a", "b", "c">>, male |-> <<"m", "n", "o">>]
MCNeutral == <<"d">>
MCOrderOf == (1 :> <<"High", "Low">>) @@ (2 :> <<"Low", "High">>)
MCDraw == (1 :> <<0, 1, 0>>) @@ (2 :> <<1, 1, 1>>)
MCAnswers == {Phases(5, 3, 0, 2)}
MCProfiles == <<[level |-> "High", gender |-> "female"], [level |-> "Low", gender |-> "female"]>>
Symmetric == Permutations(Calls)
=============================================================================
