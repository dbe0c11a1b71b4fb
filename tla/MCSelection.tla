---------------------------- MODULE MCSelection ----------------------------
(* Small instances of Selection for TLC. *)
EXTENDS Selection, TLC

(* A trust domain of all profiles, with an enabled pool of all of them and  *)
(* a disabled one.                                                          *)
TwoPools ==
  [revision |-> 0,
   domains |-> "d" :> Profile,
   pools |-> "q" :> [domain |-> "d", active |-> TRUE, members |-> <<1, 2, 3>>]
          @@ "r" :> [domain |-> "d", active |-> FALSE, members |-> <<1, 2>>]]

Lists == {<< >>, <<3, 1>>}

Commands == Permutations(Editor) \cup Permutations(Observer)
=============================================================================
