------------------------------ MODULE KeyExpr -------------------------------
(***************************************************************************)
(* The keys that topics and entities have in zenoh (zenoh_pico_topicInfo.c,*)
(* zenoh_pico_liveliness.c, zenoh_pico_gid.c).  A text is [text, len]:     *)
(* what it says and how many characters that takes.  A key is the sequence *)
(* of the fields between its slashes.  A topic is [name, type]; its name   *)
(* [parts, rooted, ended, len]: the words between the slashes, whether     *)
(* there is a slash in front and one at the end, and the length; its type  *)
(* [ns, message, hash].                                                    *)
(***************************************************************************)
EXTENDS Integers, Sequences

CONSTANTS FieldMax,     \* STRING_MAX_LEN - 1, TYPE_NAME_LEN - 1
          KeyMax,       \* what a token may take of RMW_ZENOH_PICO_MAX_LINENESS_LEN characters
          IntMax        \* INT_MAX

ASSUME WidthAssumption == FieldMax \in Nat /\ KeyMax \in Nat /\ IntMax \in Nat

Text(word, length) == [text |-> word, len |-> length]

\* What is left of a text that is cut is taken to tell nothing.
Cut(t) == IF t.len <= FieldMax THEN t ELSE Text("cut", FieldMax)

Digits[n \in Nat] == IF n < 10 THEN 1 ELSE 1 + Digits[n \div 10]

\* The conversion of a size_t to int.
AsInt(n) == IF n <= IntMax THEN n ELSE ((n + IntMax + 1) % (2 * (IntMax + 1))) - (IntMax + 1)

\* add_int_value, which prints (int)value.
Number(n) == LET i == AsInt(n) IN Text(<<i>>, IF i < 0 THEN 1 + Digits[-i] ELSE Digits[i])

\* conv_domain.
DomainText(domain) == Number(domain)

\* convert_message_type: <namespace>::dds_::<name>_.
TypeName(type) == Cut(Text(<<type.ns.text, type.message.text>>, type.ns.len + type.message.len + 9))

\* convert_client_type: the message of a request is named <service>_Request; the type is the
\* service.  A service's entity has it as well, and the topic of a service is made of it.
ServiceType(type) == [type EXCEPT !.message = Text(Head(@.text), @.len - 8)]

\* convert_hash: RIHS01_ and two characters for each of the 32 bytes.
TypeHash(type) == Text(type.hash, 7 + 2 * 32)

\* The characters that ros_topic_name_to_zenoh_key writes in front of the type.  A slash in
\* front of the name or at its end is not doubled.
Ahead(domain, name) ==
    DomainText(domain).len + 1 + name.len
    - (IF name.rooted THEN 1 ELSE 0) + (IF name.ended THEN 0 ELSE 1)

\* What the buffer then has left; unlike that of a token it is used up to its terminator.
Room(domain, name) == KeyMax + 1 - Ahead(domain, name)

KeyFits(domain, topic) ==
    TypeName(topic.type).len + 1 + TypeHash(topic.type).len <= Room(domain, topic.name)

\* <type>/<hash>, cut where the buffer ends: nobody looks at what snprintf returns.
TypeInKey(domain, topic) ==
    IF KeyFits(domain, topic) THEN <<TypeName(topic.type).text, TypeHash(topic.type).text>>
    ELSE IF TypeName(topic.type).len <= Room(domain, topic.name)
    THEN <<TypeName(topic.type).text, "cut">>
    ELSE <<"cut">>

\* Variant used by no specification: a slash in front makes a field of its own.
TopicKeyRooted(domain, topic) ==
    <<DomainText(domain).text>> \o (IF topic.name.rooted THEN <<"">> ELSE <<>>)
    \o topic.name.parts \o TypeInKey(domain, topic)

\* ros_topic_name_to_zenoh_key: <domain>/<name>/<type>/<hash>.
TopicKey(domain, topic) ==
    <<DomainText(domain).text>> \o topic.name.parts \o TypeInKey(domain, topic)

\* zenoh_pico_gen_gid: a hash of the topic key, taken to be free of collisions.
Gid(domain, topic) == TopicKey(domain, topic)

-----------------------------------------------------------------------------
(* Liveliness tokens.                                                      *)

\* mangle_name: slashes become %, those at the ends included, so that a name is one field.
Mangled(name) == Text(<<name.rooted, name.parts, name.ended>>, name.len)

\* add_string_value, add_loan_string_value: a field is cut to what the work buffer holds.
Field(t) == Cut(t)

\* test_qos_profile: reliability, durability, history, depth and seven times zero.
Profile == <<0, 2, 0, 10, 0, 0, 0, 0, 0, 0, 0>>

\* qos_to_keyexpr: the numbers that are not zero, with a delimiter between any two.
QosText(profile) ==
    LET upto[k \in 0..Len(profile)] ==
            IF k = 0 THEN 0 ELSE upto[k - 1] + (IF profile[k] = 0 THEN 0 ELSE Digits[profile[k]])
    IN Text(profile, upto[Len(profile)] + Len(profile) - 1)

\* zenoh_pico_generate_topic_info: the profile of the entity is not looked at.
Qos == QosText(Profile)

\* The characters that fields take with the slashes between them.
Length(fields) ==
    LET upto[k \in 0..Len(fields)] == IF k = 0 THEN 0 ELSE upto[k - 1] + fields[k].len + 1
    IN upto[Len(fields)] - 1

\* The buffer takes the fields that fit.  What is left of the next one is taken to tell nothing.
Fitting(fields) ==
    LET fits == {k \in 1..Len(fields) : Length(SubSeq(fields, 1, k)) <= KeyMax}
    IN SubSeq(fields, 1, CHOOSE k \in fits : \A j \in fits : j <= k)

NodeFields(node, id, kind) ==
    <<Text("@ros2_lv", 8), DomainText(node.domain), node.zid, Number(node.nid), Number(id), Text(kind, 2),
      Field(node.enclave), Field(node.ns), Field(node.name)>>

TopicFields(topic) ==
    <<Field(Mangled(topic.name)), Field(TypeName(topic.type)), Field(TypeHash(topic.type)), Qos>>

\* generate_liveliness for a node, and for an entity with a topic.
NodeToken(node, id) == Fitting(NodeFields(node, id, "NN"))

\* Variant used by no specification: the numbers come last.
TokenNumbersLast(node, id, kind, topic) ==
    Fitting(<<Text("@ros2_lv", 8), DomainText(node.domain), node.zid, Text(kind, 2),
              Field(node.enclave), Field(node.ns), Field(node.name)>>
            \o TopicFields(topic) \o <<Number(node.nid), Number(id)>>)

Token(node, id, kind, topic) == Fitting(NodeFields(node, id, kind) \o TopicFields(topic))

=============================================================================
