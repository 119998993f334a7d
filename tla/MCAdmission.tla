---------------------------- MODULE MCAdmission -----------------------------
(* Admission: one argument of each kind, and what an agent may send to it. *)
EXTENDS Admission

Short(elements, n) == UNION {[1 .. m -> elements] : m \in 0 .. n}

MCNames == {Empty, ".", "..", "a", "b"}

Tokens == {Slash, Dot, [char |-> "a", depth |-> 0], [char |-> "/", depth |-> 1],
           [char |-> ".", depth |-> 1], [char |-> ".", depth |-> 2]}

MCHosts ==
  {<<>>, <<"bank">>, <<"bank", "1">>, <<"sub", "bank", "example", Empty>>,
   <<"bank", "example", "evil", "test">>, <<"evilbank", "example">>, <<"example", "bank">>,
   <<"bank", "example">>, <<"evil", "test">>, <<"example", Empty>>}

MCListed == {<<"bank", "example">>, <<"test">>}

MCOpened == {<<"acc">>}

Args ==
  {[kind |-> "money", currencies |-> {"EUR", "JPY", "KWD"}, low |-> l, high |-> 1205] : l \in {-1, 0, 6}}
    \cup {[kind |-> "money", currencies |-> {"EUR", "XXX"}, low |-> 0, high |-> 1205]}
    \cup {[kind |-> "path", confined |-> u # <<>>, under |-> u] :
            u \in {<<>>, <<Empty>>, <<"a">>, <<"a", Empty>>, <<"a", "b">>, <<"a", "..", "b">>}}
    \cup {[kind |-> "url", schemes |-> {"http", "https"}]}
    \cup {[kind |-> "email"], [kind |-> "id"]}
    \cup {[kind |-> "template", templates |-> {"summary"}, low |-> 1, high |-> 2]}
    \cup {[kind |-> "int", low |-> l, high |-> 2] : l \in {-1, 0, 3}}

MCDeclarations ==
  [arg : Args, optional : BOOLEAN, from : BOOLEAN, parents : BOOLEAN, budget : BOOLEAN,
   field : {None, "domain", "host", "port", "scheme", "name"},
   budgetField : {None, "minor", "currency", "port"},
   type : {"Host", "Account", "HostSuffix"}]

Sent ==
  [money |->
     [kind : {"money"}, whole : {0, 1, 12}, digits : Short({0, 5}, 4), currency : {"EUR", "JPY", "KWD"}],
   path |->
     [kind : {"path"}, absolute : {TRUE}, segments : Short(MCNames, 4) \ {<<>>}]
       \cup [kind : {"path"}, absolute : {FALSE}, segments : {<<"a">>}],
   url |->
     [kind : {"url"}, scheme : {"https"}, host : {<<"bank", "example">>}, port : {NoPort},
      path : {<<>>} \cup {<<Slash>> \o p : p \in Short(Tokens, 3)}]
       \cup [kind : {"url"}, scheme : {"http", "https", "ftp"}, host : MCHosts,
             port : {NoPort, 0, 80, 443, 65536}, path : {<<Slash>>}],
   email |-> [kind : {"email"}, domain : MCHosts],
   id |-> [kind : {"id"}, value : {<<"acc">>, <<>>, <<"acc", "bank", "example">>}],
   template |-> [kind : {"template"}, name : {"summary", "export"}, param : 0 .. 3],
   int |-> [kind : {"int"}, value : -2 .. 3]]

\* What the declared kind may be sent, and a value of another kind.
MCCalls(arg) ==
  Sent[arg.kind] \cup {IF arg.kind = "id" THEN [kind |-> "int", value |-> 1]
                       ELSE [kind |-> "id", value |-> <<"acc">>]}
=============================================================================
