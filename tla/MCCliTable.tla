------------------------------ MODULE MCCliTable ------------------------------
(* Some commands of cmds.c and timersync.c. The PTP task registers its own when
   PTP_UEV_INIT_DONE comes (main.c); it comes twice here, with
   room in the table for the duplicate or with none. *)
EXTENDS CliTable

Cmd(t, m) == [toks |-> t, min |-> m]

Flexptp == Cmd(<<"flexptp">>, 0)
Params  == Cmd(<<"timsync", "params">>, 0)
Operate == Cmd(<<"timsync", "operate">>, 1)

MCPrograms ==
  Startup :> {<<Flexptp>>} @@
  Ptp     :> {<<Operate, Operate>>, <<Params, Operate, Params>>}

MCStarter == Flexptp

MCLines == {<<"help">>, <<"flexptp">>, <<"timsync", "operate", "start">>}
=============================================================================
