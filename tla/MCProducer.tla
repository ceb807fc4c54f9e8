----------------------------- MODULE MCProducer -----------------------------
EXTENDS Producer
MCPlace == [in |-> "package", mlnk |-> "module", scr |-> "namespace", tmp |-> "temp", gc |-> "guard", ext |-> "external", vol |-> "package"]
File(b) == <<"file", b, 0>>
MCStart == [in |-> {File("a")}, mlnk |-> {<<"link", "in", 0>>}, scr |-> {Absent},
            tmp |-> {Absent}, gc |-> {File("a")}, ext |-> {Absent}, vol |-> {File("a")}]
MCTurns == [in |-> {<<"file", "b">>, <<"gone", "">>, <<"link", "ext">>}, mlnk |-> {<<"link", "ext">>, <<"link", "scr">>},
            scr |-> {<<"file", "a">>, <<"gone", "">>}, tmp |-> {}, gc |-> {}, ext |-> {<<"file", "b">>}, vol |-> {<<"file", "b">>}]
MCPaths == {"in", "mlnk", "scr", "tmp", "gc", "ext", "vol"}
=============================================================================
