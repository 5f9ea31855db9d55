---------------------------- MODULE MCDeviceConfig ----------------------------
(* Instances of DeviceConfig for TLC.                                      *)
EXTENDS DeviceConfig

Sizes == "7" :> 7 @@ "+7" :> 7

\* Every spec of up to five tokens; directories with an = in front, inside, behind.
Specs == SeqOf({Sha, "7", "="}, 5)
         \cup {<<Sha, "=", "7", "=">> \o d : d \in SeqOf({"7", "="}, 3)}
         \cup {<<Sha, "=", "+7">>}

Line(files, remotes, url, upper, result) ==
    [files |-> files, remotes |-> remotes, url |-> url, upper |-> upper, result |-> result]

Good   == <<Sha, "=", "7">>
Cached == <<Sha, "=", "7", "=", "=">>
Url    == Some(<<"u", "/", "u", "/", "/">>)
Pair   == Some([data |-> "f1", index |-> "f2"])
Odd    == Some([data |-> "f1", index |-> "raw"])

Lines ==
    {Line(<<>>, <<s>>, Url, None, "f3") : s \in Specs}
    \cup {Line(fs, rs, u, up, re) : fs \in SeqOf({"f1", "raw"}, 2),
                                rs \in {<<>>, <<Good>>, <<Good, Cached>>},
                                u \in {None, Url, Some(<<"/">>)}, up \in {None, Pair, Odd},
                                re \in {"f3", "raw"}}
=============================================================================
