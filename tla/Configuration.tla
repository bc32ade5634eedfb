--------------------------- MODULE Configuration ---------------------------
(***************************************************************************)
(* The life of a configuration (src/server.rs:100-158, src/config.rs): the *)
(* operator edits the file and sends SIGHUP, a task of run() loads the     *)
(* file and sends what it has read into a watch channel.  Of the           *)
(* configuration the access rules are kept, of what is done with them the  *)
(* decisions of AccessControl.                                             *)
(*                                                                         *)
(* Edits only add rules.  Signals that arrive while one is pending are     *)
(* one signal, as tokio delivers them.                                     *)
(***************************************************************************)
EXTENDS AccessControl, SequencesExt

CONSTANTS RuleConfigs,   \* the rules an operator may write
          Requests,      \* what the decisions are asked about
          Names,         \* the domain names that occur
          Credentials,   \* pairs of user name and password
          MaxRules       \* bound: the number of rules

ASSUME MaxRulesAssumption == MaxRules \in Nat

\* Of a text the characters are known; Option::None is no value.
ASSUME CredentialsAssumption ==
    /\ Credentials \subseteq [username : Seq(STRING), password : Seq(STRING)]
    /\ None \notin Credentials \union {BasicHeader(c) : c \in Credentials}

Configs == [default : Actions, rules : Seq(RuleConfigs)]

VARIABLES file,       \* the configuration in the file
          torn,       \* is the file half written?
          task,       \* where the reload task is: not yet polled, in recv(), reload(), send(), or gone
          hangup,     \* has a SIGHUP arrived since the last recv()?
          loaded,     \* what reload() has returned; None after an error
          channel,    \* the value in the watch channel
          inForce,    \* current_config, which run() works with
          asked       \* history: the whole file that was there at the last SIGHUP, or None

vars == <<file, torn, task, hangup, loaded, channel, inForce, asked>>

TypeOK == /\ file \in Configs /\ channel \in Configs /\ inForce \in Configs
          /\ loaded \in Configs \union {None}
          /\ asked \in Configs \union {None}
          /\ torn \in BOOLEAN /\ hangup \in BOOLEAN
          /\ task \in {"spawned", "receiving", "loading", "sending", "returned", "killed"}

\* main() has loaded the file; run() has made the channel and read its own copy from it.
Init == /\ file \in [default : Actions, rules : {<<>>} \union {<<r>> : r \in RuleConfigs}]
        /\ torn = FALSE
        /\ task = "spawned"
        /\ hangup = FALSE
        /\ loaded = None
        /\ channel = file
        /\ inForce = file
        /\ asked = None

-----------------------------------------------------------------------------
(* The operator (external)                                                 *)

\* A rule is added; the file is truncated and written, and a reader may find any beginning of it.
BeginEdit == /\ ~torn
             /\ Len(file.rules) < MaxRules
             /\ \E r \in RuleConfigs : file' = [file EXCEPT !.rules = Append(@, r)]
             /\ torn' = TRUE
             /\ UNCHANGED <<task, hangup, loaded, channel, inForce, asked>>

EndEdit == /\ torn
           /\ torn' = FALSE
           /\ UNCHANGED <<file, task, hangup, loaded, channel, inForce, asked>>

\* Without a handler SIGHUP ends the process.
Hangup == /\ task # "killed"
          /\ IF task \in {"spawned", "returned"} THEN task' = "killed" /\ UNCHANGED hangup
             ELSE hangup' = TRUE /\ UNCHANGED task
          /\ asked' = IF torn THEN None ELSE file
          /\ UNCHANGED <<file, torn, loaded, channel, inForce>>

-----------------------------------------------------------------------------
(* The reload task                                                         *)

\* Its first poll installs the handler, or fails to.
Install == /\ task = "spawned"
           /\ task' \in {"receiving", "returned"}
           /\ UNCHANGED <<file, torn, hangup, loaded, channel, inForce, asked>>

\* recv() takes all signals that have come since the last one.
Receive == /\ task = "receiving"
           /\ hangup
           /\ hangup' = FALSE
           /\ task' = "loading"
           /\ UNCHANGED <<file, torn, loaded, channel, inForce, asked>>

\* What serde makes of the file: one that is being written anew is an error, or, when it is cut
\* after a rule, a configuration without the ones behind.
Parsed == IF torn THEN {None} \union {[file EXCEPT !.rules = SubSeq(@, 1, n)] :
                                         n \in 0 .. Len(file.rules) - 1}
          ELSE {file}

\* reload(): the file as it is now, while the operator may be writing.
Load == /\ task = "loading"
        /\ loaded' \in Parsed
        /\ task' = "sending"
        /\ UNCHANGED <<file, torn, hangup, channel, inForce, asked>>

\* Mutant: signals that came in the meantime count as served.
SendAndForget == /\ task = "sending"
                 /\ channel' = IF loaded = None THEN channel ELSE loaded
                 /\ task' = "receiving"
                 /\ hangup' = FALSE
                 /\ loaded' = None
                 /\ UNCHANGED <<file, torn, inForce, asked>>

\* Mutant: what could not be read is sent, too.
SendAnything == /\ task = "sending"
                /\ channel' = loaded
                /\ task' = "receiving"
                /\ loaded' = None
                /\ UNCHANGED <<file, torn, hangup, inForce, asked>>

\* An error is logged and the channel keeps its value; run() holds a receiver, so that send()
\* succeeds.
Send == /\ task = "sending"
        /\ channel' = IF loaded = None THEN channel ELSE loaded
        /\ task' = "receiving"
        /\ loaded' = None
        /\ UNCHANGED <<file, torn, hangup, inForce, asked>>

-----------------------------------------------------------------------------

ReloadTask == Install \/ Receive \/ Load \/ Send

Next == BeginEdit \/ EndEdit \/ Hangup \/ ReloadTask

SafeSpec == Init /\ [][Next]_vars

\* The runtime runs the task when it is ready.  Operators need not finish what they write.
Spec == SafeSpec /\ WF_vars(ReloadTask)

-----------------------------------------------------------------------------
(* Properties of reloading                                                 *)

Current == asked = file /\ ~torn

\* A SIGHUP sent when the file is complete is never lost, even when it comes in the middle of
\* another reload: the channel gets that very file, or the file has changed meanwhile, or the
\* process is gone (server.rs:139-155).
LastSignalCounts == Current ~> channel = file \/ ~Current \/ task = "killed"

Controller(config) == FromConfig(config)

\* A reload that only brings more rules at the end changes no answer a rule has given: neither
\* of check_request nor of get_auth_users_for_rule (acl/mod.rs:79-119).
Decides(acl, q, Matches(_, _)) == \E i \in DOMAIN acl.rules : Matches(acl.rules[i], q)

KeepsAnswers(old, new) ==
    \A q \in Requests :
        /\ Decides(old, q, RuleMatchesFull) => CheckRequest(new, q) = CheckRequest(old, q)
        /\ Decides(old, q, RuleMatches)     => GetAuthUsers(new, q) = GetAuthUsers(old, q)

AddedRulesComeLast ==
    [][/\ IsPrefix(channel.rules, channel'.rules)
       /\ Controller(channel) # None /\ Controller(channel') # None
       => KeepsAnswers(Controller(channel), Controller(channel'))]_vars

-----------------------------------------------------------------------------
(* Properties of the decisions, for every configuration a file may hold    *)

\* A pattern that is neither marked as a regular expression nor has `*` or `?` is compared, even
\* if it holds other signs of a glob.
Faithful(p) == ~p.tilde /\ ~p.wild => p.glob = {p.text}

\* Three stores, filled pattern by pattern, match what the patterns mean one by one
\* (domain_filter.rs:17-85: a tilde makes a regular expression, else it is a glob).
FilterMeansItsPatterns ==
    \A i \in DOMAIN file.rules :
        LET patterns == file.rules[i].dst_domain
        IN  patterns # None /\ (\A p \in patterns : Faithful(p)) =>
                \A name \in Names :
                    FilterMatches(NewFilter(patterns), name)
                        <=> \E p \in patterns : name \in (IF p.tilde THEN p.regex ELSE p.glob)

\* No method keeps check_request from a rule that get_auth_users_for_rule stops at.
MethodsAgree(acl, q) ==
    \A i \in DOMAIN acl.rules : RuleMatches(acl.rules[i], q) => RuleMatchesMethod(acl.rules[i], q)

\* A request that is to authenticate is checked against the users of the rule that says so, and
\* no other request is given users, though the two scans of the rules differ
\* (acl/mod.rs:79-119).  Claimed where methods make no difference: without MethodsAgree it is false.
UsersOfTheDecidingRule ==
    LET acl == Controller(file)
    IN  acl # None =>
            \A q \in Requests : MethodsAgree(acl, q) =>
                IF CheckRequest(acl, q) # "authenticate" THEN GetAuthUsers(acl, q) = None
                ELSE \/ /\ ~Decides(acl, q, RuleMatchesFull)
                        /\ GetAuthUsers(acl, q) = <<>>
                     \/ \E i \in DOMAIN file.rules :
                           /\ file.rules[i].action = "authenticate"
                           /\ RuleMatchesFull(acl.rules[i], q)
                           /\ \A j \in 1 .. i - 1 : ~RuleMatchesFull(acl.rules[j], q)
                           /\ GetAuthUsers(acl, q) = AuthUsers(file.rules[i].auth)

\* check_proxy_auth accepts the header of this repository's own connectors for the users it is
\* given and for nobody else, passwords with colons included; a user name with a colon cannot
\* be told (acl/auth.rs:11-42, http_handler.rs:187-210, http_proxy.rs:72-77).
OwnHeadersUnderstood ==
    \A i \in DOMAIN file.rules :
        LET users == AuthUsers(file.rules[i].auth)
        IN  users # None =>
                \A c \in Credentials : ":" \notin ToSet(c.username) =>
                    (CheckProxyAuth(BasicHeader(c), users) <=> c \in ToSet(users))

-----------------------------------------------------------------------------
(* What documents say and the code does not do                             *)

AllConditions(r, q) == /\ RuleMatchesFull(BuildRule(r), q)
                       /\ r.dst_port # None => q.port \in r.dst_port

\* requirement.md:227: the rules are gone through, and one applies when all its conditions
\* match; config.example.yaml:45: "Block specific ports".
PortsCount ==
    Controller(file) # None =>
        \A q \in Requests :
            LET hits == {i \in DOMAIN file.rules : AllConditions(file.rules[i], q)}
            IN  CheckRequest(Controller(file), q)
                    = IF hits = {} THEN file.default ELSE file.rules[Min(hits)].action

\* README.md:257: after a change of the file, SIGHUP reloads it, no restart needed.
ReloadTakesEffect == channel # inForce ~> inForce = channel
=============================================================================
