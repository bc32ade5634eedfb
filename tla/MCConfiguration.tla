-------------------------- MODULE MCConfiguration --------------------------
(***************************************************************************)
(* Instances of Configuration for TLC.                                     *)
(***************************************************************************)
EXTENDS Configuration

MCUpper == [get |-> "GET", GET |-> "GET", POST |-> "POST"]

Inside  == [valid |-> TRUE, holds |-> {"10.0.0.1"}]
BadNet  == [valid |-> FALSE, holds |-> {}]

MCNames == {"a.com", "b.com"}

\* A name, a wildcard, a regular expression that also has a wildcard, a glob with braces and
\* no wildcard, and one that does not compile.
Exact  == [text |-> "a.com", tilde |-> FALSE, wild |-> FALSE, compiles |-> TRUE,
           glob |-> {"a.com"}, regex |-> {"a.com"}]
Star   == [text |-> "*.com", tilde |-> FALSE, wild |-> TRUE, compiles |-> TRUE,
           glob |-> MCNames, regex |-> {}]
Tilde  == [text |-> "~b.*", tilde |-> TRUE, wild |-> TRUE, compiles |-> TRUE,
           glob |-> {}, regex |-> {"b.com"}]
Braces == [text |-> "{a,b}.com", tilde |-> FALSE, wild |-> FALSE, compiles |-> TRUE,
           glob |-> MCNames, regex |-> {}]
BadRe  == [Tilde EXCEPT !.text = "~[", !.compiles = FALSE, !.regex = {}]

\* A user name and passwords with colons.
MCCredentials == {[username |-> <<"u">>, password |-> <<"p", ":", "q">>],
                  [username |-> <<"u">>, password |-> <<>>],
                  [username |-> <<"u", ":", "p">>, password |-> <<"q">>]}

Basic(c) == [type |-> "basic", users |-> <<c>>]
C1 == [username |-> <<"u">>, password |-> <<"p", ":", "q">>]
C2 == [username |-> <<"u">>, password |-> <<>>]

Blank == [action |-> "allow", src_ip |-> None, dst_domain |-> None, dst_port |-> None,
        http_method |-> None, auth |-> None]
Ask(r, c) == [r EXCEPT !.action = "authenticate", !.auth = Basic(c)]

MCRuleConfigs ==
    {Blank,
     [Blank EXCEPT !.action = "deny", !.src_ip = {Inside}],
     [Blank EXCEPT !.http_method = {"get"}],
     [Blank EXCEPT !.action = "deny", !.dst_domain = {Exact, Tilde}],
     [Blank EXCEPT !.action = "deny", !.dst_domain = {Star}],
     [Blank EXCEPT !.dst_domain = {Braces}],
     [Blank EXCEPT !.action = "deny", !.dst_port = {22}],
     Ask(Blank, C1),
     Ask([Blank EXCEPT !.src_ip = {Inside}], C2),
     Ask([Blank EXCEPT !.http_method = {"POST"}], C2),
     [Ask(Blank, C2) EXCEPT !.auth.type = "digest"],
     [Blank EXCEPT !.src_ip = {Inside, BadNet}],
     [Blank EXCEPT !.dst_domain = {BadRe}]}

MCRequests == [ip : {"10.0.0.1", "8.8.8.8"}, domain : MCNames \union {None},
               method : {"GET", "POST", None}, port : {22}]

PortRequests == [ip : {"8.8.8.8"}, domain : {None}, method : {None}, port : {22, 80}]
=============================================================================
