------------------------------ MODULE MCServer ------------------------------
(* Small worlds for Server: boundary values of every field, a handful of   *)
(* addresses, texts and queries.                                           *)
EXTENDS Server

MCTries ==
    [f \in Ranged |-> {Lo[f] - 1, Lo[f], Hi[f], Hi[f] + 1}]
    @@ [f \in {"Host", "DBPath", "GeoIPDBPath", "GeoIPLicenseKey", "GeoIPEdition"} |->
          {"", "x", "y"}]
    @@ ("Port" :> {"", "9000", "99999", "port"}) @@ ("Mode" :> {"", "size", "time", "fast"})
    @@ ("Duration" :> {0, 1, 301, IntMax \div Second, IntMax \div Second + 1,
                       (2 * (IntMax + 1)) \div Second})

MCParseIP == [t \in {"127.0.0.1", "10.0.0.1", "169.254.0.1", "9.9.9.9", "8.8.8.8"} |-> t]
                @@ ("::ffff:9.9.9.9" :> "9.9.9.9")

NoRecord == [country |-> Nothing, city |-> Nothing]
MCRecords ==
    {NoRecord, [country |-> Nothing, city |-> [en |-> "Bern"]],
     [country |-> [en |-> "=Swiss", de |-> "Schweiz"], city |-> [de |-> "Bern"]],
     [country |-> [zh |-> "Ruishi", en |-> "Swiss"], city |-> [zh |-> "", en |-> "Bern"]]}

MCTexts == {t \in UNION {[1 .. n -> {"a", "=", "L2", "L3", "c"}] : n \in 0 .. 5} :
              WholeCharacters(t)}
MCBytes == MCTexts \cup [1 .. 4 -> {"a", "L2", "c"}]

Post(peer, xff, xri, ua, rec) ==
    [peer |-> peer, xff |-> xff, xri |-> xri, ua |-> ua, rec |-> rec]
MCPosts ==
    {Post(p, x, i, <<"a">>, rec) :
        p \in {"127.0.0.1", "10.0.0.1", "169.254.0.1", "9.9.9.9"},
        x \in {<<>>, <<"">>, <<"nonsense", "8.8.8.8">>, <<"::ffff:9.9.9.9", "8.8.8.8">>,
               <<"169.254.0.1">>},
        i \in {"", "nonsense", "8.8.8.8"}, rec \in MCRecords}
    \cup {Post("9.9.9.9", <<>>, "", t, NoRecord) : t \in MCBytes}

Body(mbps, ms, loss, grade, t) ==
    [mbps |-> mbps, ms |-> ms, loss |-> loss, grade |-> grade, settings |-> t]
MCBodies == {Body(-1, 60001, 0, "E", <<"=", "L3", "c", "c">>), Body(1000001, -1, 101, "A", <<>>)}

MCQueries == [bytes : {<<>>, <<0>>, <<1>>, <<1024 * MB>>, <<1024 * MB + 1>>},
              size : {<<>>, <<0>>, <<1024>>, <<1025>>},
              duration : {<<>>, <<0>>, <<300>>, <<301>>}]

MCStored == [download : {<<>>, <<NaN>>, <<0>>, <<2048 * MB>>, <<2048 * MB + 1>>, <<10241 * MB>>},
             streams : {<<>>, <<NaN>>, <<0>>, <<3>>, <<33>>}]
=============================================================================
