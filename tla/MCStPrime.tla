----------------------------- MODULE MCStPrime -----------------------------
(* Small instances of StPrime for TLC: a case gives most of its steps to   *)
(* one of the two programs.                                                *)
EXTENDS StPrime

TheClients == {1, 2}
TheRows == {<<1, 1>>, <<1, 2>>, <<2, 1>>}
TheStps == {1, 2}
TheTokens == {3, 4}

OnRows(a, b, c) == [w \in TheRows |-> IF w = <<1, 1>> THEN a
                                      ELSE IF w = <<1, 2>> THEN b ELSE c]
OnItems(a, b, c, d) == [t \in 1 .. 4 |-> <<a, b, c, d>>[t]]

(* Nothing to do for the monitor, and nothing for the transfers.           *)
QuietGas ==
  [status |-> OnRows("none", "none", "none"), proc |-> OnRows(0, 0, 0),
   bal |-> OnRows(0, 0, 0),
   left |-> [procs |-> {}, signals |-> 0, uses |-> 0, funds |-> 0,
             adds |-> 0]]
QuietStp ==
  [item |-> [t \in 1 .. 4 |-> "complete"], second |-> OnItems(1, 2, 1, 2),
   calls |-> [walks |-> 0, gets |-> 0]]

Quiet == QuietGas @@ QuietStp @@ [reserve |-> <<3, 3>>, faults |-> 0]

TheCases ==
  { (* One client: a worker that runs low, one that waits for a process; a *)
    (* signal, a failure.                                                  *)
    [Quiet EXCEPT
      !.status = OnRows("active", "active", "none"), !.proc = OnRows(1, 0, 0),
      !.bal = OnRows(0, 1, 0), !.faults = MaxFaults,
      !.left = [procs |-> {"p"}, signals |-> 1, uses |-> 0, funds |-> 0,
                adds |-> 0]],
    (* Two processes started for the one cron, two clients.                *)
    [Quiet EXCEPT
      !.status = OnRows("active", "none", "active"), !.proc = OnRows(1, 0, 1),
      !.left = [procs |-> {"p", "q"}, signals |-> 0, uses |-> 0, funds |-> 0,
                adds |-> 0]],
    (* A worker that is added and funded, one whose gas is used up.        *)
    [Quiet EXCEPT
      !.status = OnRows("active", "none", "none"), !.proc = OnRows(1, 0, 0),
      !.bal = OnRows(1, 0, 0),
      !.left = [procs |-> {"p"}, signals |-> 0, uses |-> 1, funds |-> 1,
                adds |-> 1]],
    (* Two clients in two batches, one with too small a reserve; the       *)
    (* service that funds them.                                            *)
    [Quiet EXCEPT
      !.status = OnRows("active", "none", "active"), !.proc = OnRows(1, 0, 1),
      !.bal = OnRows(0, 0, 0), !.reserve = <<3, 1>>,
      !.left = [procs |-> {"p"}, signals |-> 0, uses |-> 0, funds |-> 1,
                adds |-> 0]],
    (* More workers than a pass may lock.                                  *)
    [Quiet EXCEPT
      !.status = OnRows("active", "active", "active"),
      !.proc = OnRows(1, 2, 1), !.bal = OnRows(0, 1, 0),
      !.left = [procs |-> {"p"}, signals |-> 0, uses |-> 0, funds |-> 0,
                adds |-> 0]],
    (* The monitor and a transfer spend one reserve.                       *)
    [Quiet EXCEPT
      !.status = OnRows("active", "none", "none"), !.proc = OnRows(1, 0, 0),
      !.reserve = <<2, 1>>, !.item[1] = "absent",
      !.left = [procs |-> {"p"}, signals |-> 0, uses |-> 0, funds |-> 0,
                adds |-> 0]],
    (* Two transfers of which the reserve covers one, a failure.           *)
    [Quiet EXCEPT !.item = OnItems("absent", "absent", "complete", "complete"),
                  !.reserve = <<1, 1>>, !.faults = MaxFaults],
    (* One transfer, read while it goes on.                                *)
    [Quiet EXCEPT !.item[1] = "absent", !.calls.gets = 1,
                  !.faults = MaxFaults],
    (* Pages of ST' transfers of one second, and of two, while another is  *)
    (* made.                                                               *)
    [Quiet EXCEPT !.item[2] = "absent", !.second = OnItems(1, 1, 1, 2),
                  !.calls.walks = 1],
    [Quiet EXCEPT !.item[2] = "absent", !.calls.walks = 1],
    (* Pages of token transfers while they are completed.                  *)
    [Quiet EXCEPT !.item = OnItems("complete", "complete", "waiting",
                                   "waiting"),
                  !.calls = [walks |-> 1, gets |-> 1]] }
=============================================================================
