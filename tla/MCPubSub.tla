------------------------------ MODULE MCPubSub ------------------------------
EXTENDS PubSub, TLC
CONSTANTS p1, p2, s1, srv, cli, t1, t2, none

MCNode == LET talker == [domain |-> 0, zid |-> Text("A", 32), nid |-> 0,
                         enclave |-> Text("/", 1), ns |-> Text("namespace", 110),
                         name |-> Text("name", 140)]
              other == [talker EXCEPT !.zid = Text("B", 32), !.name = Text("n", 8)]
          IN [e \in Endpoints |-> CASE e = s1 -> other
                                    [] e \in {srv, cli} -> [other EXCEPT !.zid = Text("C", 32)]
                                    [] OTHER -> talker]

String == [ns |-> Text("std_msgs::msg", 13), message |-> Text("String", 6), hash |-> "old"]
WString == [String EXCEPT !.message = Text("WString", 7), !.hash = "wide"]
Chatter == [parts |-> <<"chatter">>, rooted |-> TRUE, ended |-> FALSE, len |-> 153]

\* One topic by two names, one whose name has more parts, one with another version of the type,
\* and one with a type whose hash is cut: the key of the first just fits.
MCTopics ==
    LET chatter(type) == [name |-> Chatter, type |-> type]
        relative == [chatter(String) EXCEPT !.name.rooted = FALSE, !.name.len = @ - 1]
        parted == [chatter(String) EXCEPT !.name.parts = <<"chat", "er">>]
        sum == [ns |-> Text("example_interfaces::srv", 23),
                message |-> Text(<<"AddTwoInts", "_Request">>, 18), hash |-> "sum"]
    IN [e \in Endpoints |->
           IF e \in {srv, cli} THEN {[chatter(sum) EXCEPT !.name.len = 8]}
           ELSE IF e = p2 THEN {relative, parted, chatter([String EXCEPT !.hash = "new"]), chatter(WString)}
           ELSE {chatter(String)}]

\* A name so long that the types of both are cut.
MCLongTopics ==
    LET long(type) == [name |-> [Chatter EXCEPT !.len = 247], type |-> type]
    IN [e \in Endpoints |-> IF e = p1 THEN {long(WString)} ELSE {long(String)}]
=============================================================================
