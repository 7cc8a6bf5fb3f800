----------------------------- MODULE MCProofCtl -----------------------------
(* Small instances of ProofCtl: a bundle of two lanes and operators that share *)
(* an account or a certifier.                                                  *)
EXTENDS ProofCtl, TLC

CONSTANTS d1, d2, v1, c1, c2, s1, s2

MCBundle == ExportBundle([key |-> "vk", prev |-> d1, next |-> d2], BATCH_TX_COUNT, 2, 1)

\* A command and the contracts it is given, with gas estimation.
MCCommand(kind, keys, to) ==
    [kind |-> kind, keys |-> keys, to |-> to, as |-> "", bundle |-> MCBundle, gasLimitSet |-> FALSE,
     bulk |-> TRUE, skipExisting |-> TRUE]

Deploy(kind, key, to, name) == [MCCommand(kind, <<key>>, to) EXCEPT !.as = name]

AllSet == [l \in LaneIds |-> d1]

\* A verifier with its key, and two certifiers with the given heads.
Deployed(heads) ==
    v1 :> [Verifier(s1) EXCEPT !.key = "vk"] @@ c1 :> [Certifier(v1) EXCEPT !.heads = heads]
                                             @@ c2 :> [Certifier(v1) EXCEPT !.heads = heads]

Names == "v" :> v1 @@ "c1" :> c1 @@ "c2" :> c2 @@ "s2" :> s2

\* One operator certifies a bundle at one certifier, another at two in one go.
Certifying ==
    [contracts |-> Deployed(AllSet), env |-> Names, maxRuns |-> "one" :> 2 @@ "two" :> 2,
     script |-> "one" :> <<MCCommand("submit-bundle", <<s1>>, <<"c1">>)>> @@
                "two" :> <<[MCCommand("submit-multisender-burst", <<s1, s2>>, <<"c1", "c2">>)
                              EXCEPT !.gasLimitSet = TRUE]>>]

\* Two operators initialize the lane heads, lane by lane and in bulk.
SettingUp ==
    [contracts |-> Deployed(Unset), env |-> Names, maxRuns |-> "one" :> 5 @@ "two" :> 5,
     script |-> "one" :> <<[MCCommand("init-lane-heads", <<s1>>, <<"c1">>) EXCEPT !.bulk = FALSE]>> @@
                "two" :> <<MCCommand("init-lane-heads", <<s2>>, <<"c1">>)>>]

\* docs/kaia-endpoint-preflight.md, while accounts are funded with the same key.
Preflight ==
    [contracts |-> <<>>, env |-> Names, maxRuns |-> "one" :> 4 @@ "two" :> 1,
     script |-> "one" :> <<Deploy("deploy-verifier", s1, <<>>, "v"),
                            MCCommand("init-vk", <<s1>>, <<"v">>),
                            Deploy("deploy-certifier", s1, <<"v">>, "c1"),
                            MCCommand("init-lane-heads", <<s1>>, <<"c1">>),
                            MCCommand("estimate-bundle", <<s1>>, <<"c1">>),
                            MCCommand("submit-bundle", <<s1>>, <<"c1">>)>> @@
                "two" :> <<MCCommand("fund-accounts", <<s1>>, <<"s2", "s2">>)>>]

\* scripts/run-kaia-16p6s-repeat.sh with two keys and one repetition, while somebody
\* pays with one of the keys.
FreshInit(key, name) ==
    [MCCommand("init-lane-heads", <<key>>, <<name>>) EXCEPT !.skipExisting = FALSE]

Repeat ==
    [contracts |-> Deployed(Unset), env |-> Names, maxRuns |-> "one" :> 4 @@ "two" :> 1,
     script |-> "one" :> <<Deploy("deploy-certifier", s1, <<"v">>, "c1"),
                            Deploy("deploy-certifier", s2, <<"v">>, "c2"),
                            FreshInit(s1, "c1"), FreshInit(s2, "c2"),
                            MCCommand("submit-multisender-burst", <<s1, s2>>, <<"c1", "c2">>)>> @@
                "two" :> <<MCCommand("fund-accounts", <<s2>>, <<"s2">>)>>]

\* A burst and a single submission to a certifier they share.
Bursting ==
    [contracts |-> Deployed(AllSet), env |-> Names, maxRuns |-> "one" :> 1 @@ "two" :> 1,
     script |-> "one" :> <<MCCommand("submit-burst", <<s1>>, <<"c1", "c2">>)>> @@
                "two" :> <<MCCommand("submit-bundle", <<s2>>, <<"c2">>)>>]

Operators == [certifying |-> Certifying, settingUp |-> SettingUp, preflight |-> Preflight,
              repeat |-> Repeat]
OneBurst  == [bursting |-> Bursting]
=============================================================================
