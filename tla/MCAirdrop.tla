----------------------------- MODULE MCAirdrop -----------------------------
(* Small instances of Airdrop for TLC.                                     *)
EXTENDS Airdrop

One(list, uuids, amount, kit) ==
  [list |-> list, uuids |-> uuids, amount |-> amount, kit |-> kit]
Calm(airdrops) ==
  [users |-> {1, 2, 3}, granted |-> {1}, reserve |-> 9, page |-> 4,
   flush |-> 2, batch |-> 1, airdrops |-> airdrops, may |-> {}, failures |-> 0,
   deaths |-> 0]

(* Two airdrops side by side, for all and for some; pages of two; requests *)
(* to be refused; failures of any kind; a death.                           *)
Troubles ==
  {[Calm(<<One("never", {}, 2, FALSE), One("never", {2, 3}, 3, TRUE)>>) EXCEPT
      !.page = 2, !.reserve = 12],
   Calm(<<One("all", {}, 2, TRUE), One("ever", {}, 4, FALSE)>>),
   Calm(<<One("all", {1, 7}, 1, TRUE), One("ever", {2}, 1, FALSE)>>),
   Calm(<<One("all", {}, 3, FALSE), One("never", {}, 2, TRUE)>>),
   [Calm(<<One("all", {}, 1, TRUE), One("never", {}, 2, FALSE)>>) EXCEPT
      !.page = 2, !.may = Kinds, !.failures = 1, !.deaths = 1]}
=============================================================================
