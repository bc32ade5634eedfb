--------------------------- MODULE AccessControl ---------------------------
(***************************************************************************)
(* src/acl: what AccessController and check_proxy_auth compute, as         *)
(* operators.  A network, a glob or a regular expression is known by the   *)
(* addresses or names it matches and by whether it can be compiled; a text *)
(* whose characters matter (credentials) is a sequence of characters.      *)
(***************************************************************************)
EXTENDS Naturals, Sequences, FiniteSetsExt

CONSTANTS None,        \* Option::None
          Upper        \* to_uppercase() of each method name that occurs

Actions == {"allow", "deny", "authenticate"}

-----------------------------------------------------------------------------
(* DomainFilter                                                            *)

\* Mutant: wildcards are looked for before the tilde.
GlobsFirst(patterns) ==
    [exact |-> {p.text : p \in {q \in patterns : ~q.tilde /\ ~q.wild}},
     globs |-> {p \in patterns : p.wild}, regexes |-> {p \in patterns : p.tilde /\ ~p.wild}]

\* DomainFilter::new: a leading tilde makes a regular expression, else a wildcard makes a glob.
NewFilter(patterns) ==
    [exact |-> {p.text : p \in {q \in patterns : ~q.tilde /\ ~q.wild}},
     globs |-> {p \in patterns : ~p.tilde /\ p.wild}, regexes |-> {p \in patterns : p.tilde}]

\* Only globs and regular expressions are compiled.
FilterCompiles(patterns) == \A p \in patterns : p.tilde \/ p.wild => p.compiles

FilterMatches(filter, domain) == \/ domain \in filter.exact
                                 \/ \E p \in filter.globs : domain \in p.glob
                                 \/ \E p \in filter.regexes : domain \in p.regex

-----------------------------------------------------------------------------
(* AccessController::from_config                                           *)

\* Users of an `auth` of another type than "basic" are left out.
AuthUsers(auth) == IF auth # None /\ auth.type = "basic" THEN auth.users ELSE None

\* Each condition that is absent stays so; dst_port is not looked at.
BuildRule(r) ==
    [action       |-> r.action,
     src_ip       |-> r.src_ip,
     dst_domain   |-> IF r.dst_domain = None THEN None ELSE NewFilter(r.dst_domain),
     http_methods |-> IF r.http_method = None THEN None ELSE {Upper[m] : m \in r.http_method},
     auth_users   |-> AuthUsers(r.auth)]

RuleIsValid(r) == /\ r.src_ip # None => \A net \in r.src_ip : net.valid
                  /\ r.dst_domain # None => FilterCompiles(r.dst_domain)

\* A single network or pattern that does not parse refuses the whole configuration.
FromConfig(config) ==
    IF \E i \in DOMAIN config.rules : ~RuleIsValid(config.rules[i]) THEN None
    ELSE [default |-> config.default,
          rules   |-> [i \in DOMAIN config.rules |-> BuildRule(config.rules[i])]]

-----------------------------------------------------------------------------
(* The decision.  A request is a source address, a domain or None, a       *)
(* method or None, and the port, which the code is not given.              *)

RuleMatchesIp(rule, q) == rule.src_ip # None => \E net \in rule.src_ip : q.ip \in net.holds

RuleMatchesDomain(rule, q) ==
    rule.dst_domain # None => q.domain # None /\ FilterMatches(rule.dst_domain, q.domain)

RuleMatchesMethod(rule, q) ==
    rule.http_methods # None => q.method # None /\ Upper[q.method] \in rule.http_methods

\* rule_matches, and rule_matches_full, which takes the method into account.
RuleMatches(rule, q)     == RuleMatchesIp(rule, q) /\ RuleMatchesDomain(rule, q)
RuleMatchesFull(rule, q) == RuleMatches(rule, q) /\ RuleMatchesMethod(rule, q)

\* Mutant: the loop runs backwards.
LastMatchWins(acl, q) ==
    LET hits == {i \in DOMAIN acl.rules : RuleMatchesFull(acl.rules[i], q)}
    IN  IF hits = {} THEN acl.default ELSE acl.rules[Max(hits)].action

\* check_request: the loop returns at the first rule that matches.
CheckRequest(acl, q) ==
    LET hits == {i \in DOMAIN acl.rules : RuleMatchesFull(acl.rules[i], q)}
    IN  IF hits = {} THEN acl.default ELSE acl.rules[Min(hits)].action

\* Mutant: rules that do not authenticate are passed over.
UsersOfAnyRule(acl, q) ==
    LET hits == {i \in DOMAIN acl.rules : /\ RuleMatches(acl.rules[i], q)
                                          /\ acl.rules[i].action = "authenticate"}
    IN  IF hits = {} THEN IF acl.default = "authenticate" THEN <<>> ELSE None
        ELSE acl.rules[Min(hits)].auth_users

\* get_auth_users_for_rule: the first rule that matches but for its method.  The users of the
\* default action are the empty slice.
GetAuthUsers(acl, q) ==
    LET hits == {i \in DOMAIN acl.rules : RuleMatches(acl.rules[i], q)}
        rule == acl.rules[Min(hits)]
    IN  IF hits = {} THEN IF acl.default = "authenticate" THEN <<>> ELSE None
        ELSE IF rule.action = "authenticate" THEN rule.auth_users ELSE None

-----------------------------------------------------------------------------
(* Credentials                                                             *)

\* The header HttpProxyConnector and ChainConnector send.
BasicHeader(c) == [scheme |-> "Basic", text |-> c.username \o <<":">> \o c.password]

\* Mutant: the text is split at its last colon.
SplitAtLastColon(header) ==
    LET colons == {i \in DOMAIN header.text : header.text[i] = ":"}
    IN  IF header.scheme # "Basic" \/ colons = {} THEN None
        ELSE [username |-> SubSeq(header.text, 1, Max(colons) - 1),
              password |-> SubSeq(header.text, Max(colons) + 1, Len(header.text))]

\* parse_basic_auth: `text` is what the base64 stands for; the first colon ends the name.
ParseBasicAuth(header) ==
    LET colons == {i \in DOMAIN header.text : header.text[i] = ":"}
    IN  IF header.scheme # "Basic" \/ colons = {} THEN None
        ELSE [username |-> SubSeq(header.text, 1, Min(colons) - 1),
              password |-> SubSeq(header.text, Min(colons) + 1, Len(header.text))]

VerifyCredentials(c, users) == \E i \in DOMAIN users : users[i] = c

\* check_proxy_auth: no header, or one that cannot be parsed, is a refusal.
CheckProxyAuth(header, users) ==
    /\ header # None
    /\ ParseBasicAuth(header) # None
    /\ VerifyCredentials(ParseBasicAuth(header), users)
=============================================================================
