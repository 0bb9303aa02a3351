------------------------------- MODULE MCHttp -------------------------------
(* Instances of the substrate and the https:// source for TLC. *)
EXTENDS HttpsSource

MCHosts == {"docs", "lan", "ip", "elsewhere"}
V4(octets) == [family |-> "v4", parts |-> octets]
V6(segments) == [family |-> "v6", parts |-> segments]

MCLiteral == [h \in MCHosts |-> IF h = "ip" THEN V4(<<10, 0, 0, 7>>) ELSE NoAddress]

MCAddresses ==
    {V4(<<172, 32, 0, 1>>), V4(<<172, 31, 0, 1>>), V4(<<100, 128, 0, 1>>),
     V6(<<0, 0, 0, 0, 0, 65535, 2560, 1>>), V6(<<8193, 3513, 0, 0, 0, 0, 0, 1>>)}

\* Two origins at "docs", one of them with a credential and one without the
\* grant of the other; "lan" may be private; "ip" is a private literal.
Api == [host |-> "docs", path |-> <<"api">>, grant |-> TRUE]
Guide == [host |-> "docs", path |-> <<"guide">>, grant |-> FALSE]
Lan == [host |-> "lan", path |-> <<>>, grant |-> TRUE]
Ip == [host |-> "ip", path |-> <<>>, grant |-> FALSE]
Down == [host |-> "lan", path |-> <<"down">>, grant |-> TRUE]

MCAllowlist == {Api, Guide, Lan, Ip}
MCDegraded == {Down}
MCCredentials == <<[origin |-> Api, name |-> "apiKey"]>>

Url(host, path) == [host |-> host, path |-> path, userinfo |-> FALSE]

MCUrls ==
    {Url("docs", <<"api", "v1">>), Url("docs", <<"guide">>), Url("docs", <<"apix">>),
     Url("lan", <<"x">>), Url("lan", <<"down">>), Url("ip", <<>>), Url("elsewhere", <<>>),
     [host |-> "docs", path |-> <<"api">>, userinfo |-> TRUE]}

MCBudgets == {NoBudget, [attempts |-> 2, bytes |-> 3], [attempts |-> 3, bytes |-> 2]}
=============================================================================
