--------------------------- MODULE MCModelsSched ---------------------------
(* Small instances of ModelsSched: routers and what is asked of them.       *)
EXTENDS ModelsSched

Conf(max, total, asked, options) ==
    [models |-> ToSet(asked.want), max |-> max, total |-> total, need |-> [m \in Models |-> 1],
     want |-> asked.want, kind |-> asked.kind,
     crashes |-> "crashes" \in options, sleeps |-> "sleeps" \in options, cancels |-> "cancels" \in options]

Use(models)        == [want |-> models, kind |-> <<"USE", "USE", "USE">>]
Ask(models, kinds) == [want |-> models, kind |-> kinds]

\* two requests for a model and one for another; one for each of three
\* models; models loaded and unloaded by hand while another is in use; one
\* request for each of two models that do not fit together
RouterConfs ==
    {Conf(1, 0, Use(<<"a", "a", "b">>), {"cancels"}),
     Conf(1, 0, Use(<<"a", "a", "b">>), {"crashes"}),
     Conf(2, 0, Use(<<"a", "b", "c">>), {}),
     Conf(1, 0, Ask(<<"a", "b", "b">>, <<"USE", "LOAD", "UNLOAD">>), {"sleeps"}),
     Conf(2, 0, Ask(<<"a", "b", "c">>, <<"USE", "LOAD", "LOAD">>), {}),
     Conf(0, 1, Ask(<<"a", "b", "b">>, <<"USE", "USE", "NONE">>), {"cancels"})}

\* two requests for a model whose instance may crash
CrashConfs == {Conf(1, 0, Ask(<<"a", "a", "b">>, <<"USE", "USE", "NONE">>), {"crashes"})}

=============================================================================
