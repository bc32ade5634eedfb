------------------------ MODULE ConfigurationProofs ------------------------
(***************************************************************************)
(* Theorems about Configuration, for any rules, requests and credentials,  *)
(* and files of any length.  What the decisions of AccessControl promise   *)
(* are facts about its operators, proved of every configuration.           *)
(***************************************************************************)
EXTENDS Configuration, SequenceTheorems, WellFoundedInduction, TLAPS

-----------------------------------------------------------------------------
(* The least number of a set                                               *)

LEMMA MinFacts ==
  ASSUME NEW T, T \subseteq Nat, T # {}
  PROVE  Min(T) \in T /\ \A y \in T : Min(T) <= y
<1> DEFINE Less == {ss \in Nat \X Nat : ss[1] < ss[2]}
<1>1. IsWellFoundedOn(Less, Nat)
  BY NatLessThanWellFounded DEF OpToRel
<1> HIDE DEF Less
<1>2. PICK x \in T : \A y \in T : ~ (<<y, x>> \in Less)
  BY <1>1, WFMin
<1>3. ASSUME NEW y \in T PROVE x <= y
  <2>1. x \in Nat /\ y \in Nat /\ <<y, x>> \notin Less
    BY <1>2
  <2>2. ~(y < x)
    BY <2>1 DEF Less
  <2> QED BY <2>1, <2>2
<1> QED BY <1>3 DEF Min

\* More numbers above all of the old ones do not change it.
LEMMA MinOfMore ==
  ASSUME NEW T, NEW U, U \subseteq Nat, T # {}, T \subseteq U,
         NEW n \in Nat, \A i \in T : i <= n, \A i \in U : i <= n => i \in T
  PROVE  Min(U) = Min(T)
<1>1. Min(T) \in T /\ \A y \in T : Min(T) <= y
  BY MinFacts
<1>2. Min(U) \in U /\ \A y \in U : Min(U) <= y
  BY MinFacts
<1>3. Min(U) <= Min(T) /\ Min(T) \in Nat /\ Min(U) \in Nat
  BY <1>1, <1>2
<1>4. Min(U) \in T
  BY <1>1, <1>2, <1>3
<1> QED BY <1>1, <1>3, <1>4

-----------------------------------------------------------------------------
(* The configurations                                                      *)

LEMMA InitTyped == Init => TypeOK
<1> SUFFICES ASSUME Init PROVE TypeOK
  OBVIOUS
<1>1. \A r \in RuleConfigs : <<r>> \in Seq(RuleConfigs)
  OBVIOUS
<1>2. <<>> \in Seq(RuleConfigs)
  OBVIOUS
<1>3. PICK d \in Actions, s \in Seq(RuleConfigs) : file = [default |-> d, rules |-> s]
  BY <1>1, <1>2 DEF Init
<1>4. file \in Configs
  BY <1>3 DEF Configs
<1> QED BY <1>4 DEF Init, TypeOK

\* A rule more at the end, or any number of the last ones less.
LEMMA EditedTyped ==
  ASSUME NEW c \in Configs
  PROVE  /\ \A r \in RuleConfigs : [c EXCEPT !.rules = Append(@, r)] \in Configs
         /\ \A n \in 0 .. Len(c.rules) - 1 : [c EXCEPT !.rules = SubSeq(@, 1, n)] \in Configs
<1>1. c.rules \in Seq(RuleConfigs)
  BY DEF Configs
<1>2. \A r \in RuleConfigs : Append(c.rules, r) \in Seq(RuleConfigs)
  BY <1>1, AppendProperties
<1>3. ASSUME NEW n \in 0 .. Len(c.rules) - 1 PROVE SubSeq(c.rules, 1, n) \in Seq(RuleConfigs)
  <2>1. Len(c.rules) \in Nat /\ \A i \in 1 .. Len(c.rules) : c.rules[i] \in RuleConfigs
    BY <1>1, LenProperties, ElementOfSeq
  <2>2. 1 \in Int /\ n \in Int /\ \A i \in 1 .. n : c.rules[i] \in RuleConfigs
    BY <2>1
  <2> QED BY <2>2, SubSeqProperties
<1> QED BY <1>2, <1>3 DEF Configs

LEMMA NextTyped ==
  ASSUME TypeOK, [Next]_vars
  PROVE  TypeOK'
<1>1. CASE UNCHANGED vars
  BY <1>1 DEF vars, TypeOK
<1>2. CASE BeginEdit
  BY <1>2, EditedTyped DEF BeginEdit, TypeOK
<1>3. CASE EndEdit
  BY <1>3 DEF EndEdit, TypeOK
<1>4. CASE Hangup
  BY <1>4 DEF Hangup, TypeOK
<1>5. CASE Install
  BY <1>5 DEF Install, TypeOK
<1>6. CASE Receive
  BY <1>6 DEF Receive, TypeOK
<1>7. CASE Load
  <2>1. loaded' \in Configs \union {None}
    BY <1>7, EditedTyped DEF Load, Parsed, TypeOK
  <2> QED BY <1>7, <2>1 DEF Load, TypeOK
<1>8. CASE Send
  BY <1>8 DEF Send, TypeOK
<1> QED BY <1>1, <1>2, <1>3, <1>4, <1>5, <1>6, <1>7, <1>8 DEF Next, ReloadTask

\* The variables have their types, however long the file grows.
THEOREM TypeCorrect == SafeSpec => []TypeOK
BY InitTyped, NextTyped, PTL DEF SafeSpec

-----------------------------------------------------------------------------
(* Domain filters                                                          *)

\* The three stores together match a name exactly when one of the patterns does.
LEMMA FilterFaithful ==
  ASSUME NEW patterns, \A p \in patterns : Faithful(p), NEW name
  PROVE  FilterMatches(NewFilter(patterns), name)
            <=> \E p \in patterns : name \in (IF p.tilde THEN p.regex ELSE p.glob)
<1>1. FilterMatches(NewFilter(patterns), name) <=>
          \/ \E p \in patterns : ~p.tilde /\ ~p.wild /\ name = p.text
          \/ \E p \in patterns : ~p.tilde /\ p.wild /\ name \in p.glob
          \/ \E p \in patterns : p.tilde /\ name \in p.regex
  BY DEF FilterMatches, NewFilter
<1>2. \A p \in patterns : ~p.tilde /\ ~p.wild => (name = p.text <=> name \in p.glob)
  BY DEF Faithful
<1> QED BY <1>1, <1>2

\* A domain filter matches what its patterns mean, in whatever stores they are kept
\* (domain_filter.rs:17-85).
THEOREM FiltersAlwaysFaithful == SafeSpec => []FilterMeansItsPatterns
<1>1. FilterMeansItsPatterns
  BY FilterFaithful DEF FilterMeansItsPatterns
<1> QED BY <1>1, PTL

-----------------------------------------------------------------------------
(* The decisions                                                           *)

\* A controller has a rule for each rule of its configuration.
LEMMA ControllerFacts ==
  ASSUME NEW c \in Configs, Controller(c) # None
  PROVE  /\ c.rules \in Seq(RuleConfigs) /\ Len(c.rules) \in Nat
         /\ DOMAIN c.rules = 1 .. Len(c.rules)
         /\ DOMAIN Controller(c).rules = 1 .. Len(c.rules)
         /\ Controller(c).default = c.default
         /\ \A i \in 1 .. Len(c.rules) : Controller(c).rules[i] = BuildRule(c.rules[i])
<1>1. c.rules \in Seq(RuleConfigs) /\ Len(c.rules) \in Nat /\ DOMAIN c.rules = 1 .. Len(c.rules)
  BY LenProperties DEF Configs
<1>2. Controller(c) = [default |-> c.default,
                       rules |-> [i \in DOMAIN c.rules |-> BuildRule(c.rules[i])]]
  BY DEF Controller, FromConfig
<1> QED BY <1>1, <1>2

LEMMA BuiltRule ==
  ASSUME NEW r
  PROVE  BuildRule(r).action = r.action /\ BuildRule(r).auth_users = AuthUsers(r.auth)
BY DEF BuildRule

\* When methods make no difference, both scans stop at the same rule.
LEMMA UsersFollowTheDecision ==
  ASSUME NEW c \in Configs, Controller(c) # None, NEW q, MethodsAgree(Controller(c), q)
  PROVE  IF CheckRequest(Controller(c), q) # "authenticate"
         THEN GetAuthUsers(Controller(c), q) = None
         ELSE \/ /\ ~Decides(Controller(c), q, RuleMatchesFull)
                 /\ GetAuthUsers(Controller(c), q) = <<>>
              \/ \E i \in DOMAIN c.rules :
                    /\ c.rules[i].action = "authenticate"
                    /\ RuleMatchesFull(Controller(c).rules[i], q)
                    /\ \A j \in 1 .. i - 1 : ~RuleMatchesFull(Controller(c).rules[j], q)
                    /\ GetAuthUsers(Controller(c), q) = AuthUsers(c.rules[i].auth)
<1> DEFINE acl == Controller(c)
           full == {i \in DOMAIN acl.rules : RuleMatchesFull(acl.rules[i], q)}
           hits == {i \in DOMAIN acl.rules : RuleMatches(acl.rules[i], q)}
<1>1. /\ DOMAIN acl.rules = 1 .. Len(c.rules) /\ DOMAIN c.rules = 1 .. Len(c.rules)
      /\ Len(c.rules) \in Nat
      /\ \A i \in 1 .. Len(c.rules) : acl.rules[i] = BuildRule(c.rules[i])
  BY ControllerFacts
<1>2. full = hits
  BY DEF MethodsAgree, RuleMatchesFull
<1>3. CheckRequest(acl, q) = IF full = {} THEN acl.default ELSE acl.rules[Min(full)].action
  BY DEF CheckRequest
<1>4. GetAuthUsers(acl, q) =
         IF hits = {} THEN IF acl.default = "authenticate" THEN <<>> ELSE None
         ELSE IF acl.rules[Min(hits)].action = "authenticate"
              THEN acl.rules[Min(hits)].auth_users ELSE None
  BY DEF GetAuthUsers
<1>5. full \subseteq Nat /\ \A i \in full : i \in 1 .. Len(c.rules)
  BY <1>1
<1>6. \A i \in 1 .. Len(c.rules) : i \in full <=> RuleMatchesFull(acl.rules[i], q)
  BY <1>1
<1>7. CASE full = {}
  <2>1. ~Decides(acl, q, RuleMatchesFull)
    BY <1>7 DEF Decides
  <2> QED BY <1>2, <1>3, <1>4, <1>7, <2>1
<1>8. CASE full # {}
  <2> HIDE DEF acl, full, hits
  <2>1. Min(full) \in full /\ \A y \in full : Min(full) <= y
    BY <1>5, <1>8, MinFacts
  <2>2. PICK m \in 1 .. Len(c.rules) : m = Min(full)
    BY <1>5, <2>1
  <2>3. /\ acl.rules[m].action = c.rules[m].action
        /\ acl.rules[m].auth_users = AuthUsers(c.rules[m].auth)
    BY <1>1, BuiltRule
  <2>4. RuleMatchesFull(acl.rules[m], q)
    BY <1>6, <2>1, <2>2
  <2>5. ASSUME NEW j \in 1 .. m - 1 PROVE ~RuleMatchesFull(acl.rules[j], q)
    <3>1. j \in 1 .. Len(c.rules) /\ j \in Nat /\ m \in Nat /\ ~(m <= j)
      BY <1>1
    <3> QED BY <1>6, <2>1, <2>2, <3>1
  <2>6. /\ CheckRequest(acl, q) = c.rules[m].action
        /\ GetAuthUsers(acl, q) = IF c.rules[m].action = "authenticate"
                                  THEN AuthUsers(c.rules[m].auth) ELSE None
    BY <1>2, <1>3, <1>4, <1>8, <2>2, <2>3
  <2>7. CASE c.rules[m].action = "authenticate"
    BY <1>1, <2>4, <2>5, <2>6, <2>7 DEF acl
  <2>8. CASE c.rules[m].action # "authenticate"
    BY <2>6, <2>8 DEF acl
  <2> QED BY <2>7, <2>8
<1> QED BY <1>7, <1>8

\* A request that is to authenticate is checked against the users of the rule that says so, and
\* no other is given users (acl/mod.rs:79-119).
THEOREM UsersAlwaysOfTheDecidingRule == SafeSpec => []UsersOfTheDecidingRule
<1>1. TypeOK => UsersOfTheDecidingRule
  BY UsersFollowTheDecision DEF UsersOfTheDecidingRule, TypeOK
<1> QED BY <1>1, TypeCorrect, PTL

-----------------------------------------------------------------------------
(* Reloading                                                               *)

\* Rules added at the end come after every match there was.
LEMMA RulesAdded ==
  ASSUME NEW c \in Configs, NEW d \in Configs, IsPrefix(c.rules, d.rules),
         Controller(c) # None, Controller(d) # None
  PROVE  /\ DOMAIN Controller(c).rules = 1 .. Len(c.rules)
         /\ DOMAIN Controller(d).rules = 1 .. Len(d.rules)
         /\ Len(c.rules) \in Nat /\ Len(d.rules) \in Nat /\ Len(c.rules) <= Len(d.rules)
         /\ \A i \in 1 .. Len(c.rules) : Controller(d).rules[i] = Controller(c).rules[i]
<1>1. /\ Len(c.rules) <= Len(d.rules)
      /\ SubSeq(c.rules, 1, Len(c.rules)) = SubSeq(d.rules, 1, Len(c.rules))
  BY DEF IsPrefix
<1>2. /\ c.rules \in Seq(RuleConfigs) /\ d.rules \in Seq(RuleConfigs)
      /\ Len(c.rules) \in Nat /\ Len(d.rules) \in Nat
      /\ DOMAIN Controller(c).rules = 1 .. Len(c.rules)
      /\ DOMAIN Controller(d).rules = 1 .. Len(d.rules)
      /\ \A i \in 1 .. Len(c.rules) : Controller(c).rules[i] = BuildRule(c.rules[i])
      /\ \A i \in 1 .. Len(d.rules) : Controller(d).rules[i] = BuildRule(d.rules[i])
  BY ControllerFacts
<1>3. ASSUME NEW i \in 1 .. Len(c.rules) PROVE d.rules[i] = c.rules[i] /\ i \in 1 .. Len(d.rules)
  <2>1. SubSeq(c.rules, 1, Len(c.rules))[i] = c.rules[i]
    BY <1>2
  <2>2. SubSeq(d.rules, 1, Len(c.rules))[i] = d.rules[i]
    BY <1>1, <1>2
  <2> QED BY <1>1, <1>2, <2>1, <2>2
<1> QED BY <1>1, <1>2, <1>3

LEMMA AnswersKept ==
  ASSUME NEW c \in Configs, NEW d \in Configs, IsPrefix(c.rules, d.rules),
         Controller(c) # None, Controller(d) # None
  PROVE  KeepsAnswers(Controller(c), Controller(d))
<1> DEFINE old == Controller(c)
           new == Controller(d)
           n == Len(c.rules)
<1>1. /\ DOMAIN old.rules = 1 .. n /\ DOMAIN new.rules = 1 .. Len(d.rules)
      /\ n \in Nat /\ Len(d.rules) \in Nat /\ n <= Len(d.rules)
      /\ \A i \in 1 .. n : new.rules[i] = old.rules[i]
  BY RulesAdded
<1> HIDE DEF old, new, n
<1> SUFFICES ASSUME NEW q \in Requests
             PROVE  /\ Decides(old, q, RuleMatchesFull) => CheckRequest(new, q) = CheckRequest(old, q)
                    /\ Decides(old, q, RuleMatches) => GetAuthUsers(new, q) = GetAuthUsers(old, q)
  BY DEF KeepsAnswers, old, new
<1>2. ASSUME Decides(old, q, RuleMatchesFull) PROVE CheckRequest(new, q) = CheckRequest(old, q)
  <2> DEFINE T == {i \in DOMAIN old.rules : RuleMatchesFull(old.rules[i], q)}
             U == {i \in DOMAIN new.rules : RuleMatchesFull(new.rules[i], q)}
  <2>1. /\ CheckRequest(new, q) = IF U = {} THEN new.default ELSE new.rules[Min(U)].action
        /\ CheckRequest(old, q) = IF T = {} THEN old.default ELSE old.rules[Min(T)].action
    BY DEF CheckRequest
  <2>2. /\ T # {} /\ T \subseteq Nat /\ U \subseteq Nat /\ T \subseteq U
        /\ \A i \in T : i \in 1 .. n
        /\ \A i \in U : i <= n => i \in T
    BY <1>1, <1>2 DEF Decides
  <2> HIDE DEF T, U
  <2>3. \A i \in T : i <= n
    BY <1>1, <2>2
  <2>4. Min(U) = Min(T)
    BY <1>1, <2>2, <2>3, MinOfMore
  <2>5. Min(T) \in 1 .. n
    BY <2>2, MinFacts
  <2>6. new.rules[Min(T)] = old.rules[Min(T)]
    BY <1>1, <2>5
  <2>7. U # {}
    BY <2>2
  <2> QED BY <2>1, <2>2, <2>4, <2>6, <2>7
<1>3. ASSUME Decides(old, q, RuleMatches) PROVE GetAuthUsers(new, q) = GetAuthUsers(old, q)
  <2> DEFINE T == {i \in DOMAIN old.rules : RuleMatches(old.rules[i], q)}
             U == {i \in DOMAIN new.rules : RuleMatches(new.rules[i], q)}
             Answer(acl, i) == IF acl.rules[i].action = "authenticate"
                               THEN acl.rules[i].auth_users ELSE None
  <2>1. /\ U # {} => GetAuthUsers(new, q) = Answer(new, Min(U))
        /\ T # {} => GetAuthUsers(old, q) = Answer(old, Min(T))
    BY DEF GetAuthUsers
  <2>2. /\ T # {} /\ T \subseteq Nat /\ U \subseteq Nat /\ T \subseteq U
        /\ \A i \in T : i \in 1 .. n
        /\ \A i \in U : i <= n => i \in T
    BY <1>1, <1>3 DEF Decides
  <2> HIDE DEF T, U
  <2>3. \A i \in T : i <= n
    BY <1>1, <2>2
  <2>4. Min(U) = Min(T)
    BY <1>1, <2>2, <2>3, MinOfMore
  <2>5. Min(T) \in 1 .. n
    BY <2>2, MinFacts
  <2>6. new.rules[Min(T)] = old.rules[Min(T)]
    BY <1>1, <2>5
  <2>7. Answer(new, Min(U)) = Answer(old, Min(T))
    BY <2>4, <2>6
  <2>8. U # {}
    BY <2>2
  <2> QED BY <2>1, <2>2, <2>7, <2>8
<1> QED BY <1>2, <1>3

\* A reload that only brings more rules at the end changes no answer a rule has given
\* (acl/mod.rs:79-119).
THEOREM AddedRulesAlwaysComeLast == SafeSpec => AddedRulesComeLast
<1>1. ASSUME TypeOK, TypeOK'
      PROVE  IsPrefix(channel.rules, channel'.rules)
             /\ Controller(channel) # None /\ Controller(channel') # None
                => KeepsAnswers(Controller(channel), Controller(channel'))
  BY <1>1, AnswersKept DEF TypeOK
<1> QED BY <1>1, TypeCorrect, PTL DEF AddedRulesComeLast

-----------------------------------------------------------------------------
(* Credentials                                                             *)

\* The text of a header: the name, a colon, the password.
LEMMA HeaderText ==
  ASSUME NEW S, ":" \in S, NEW u \in Seq(S), NEW p \in Seq(S)
  PROVE  LET text == u \o <<":">> \o p
         IN  /\ text \in Seq(S) /\ Len(u) \in Nat /\ Len(p) \in Nat
             /\ Len(text) = Len(u) + 1 + Len(p)
             /\ DOMAIN text = 1 .. Len(u) + 1 + Len(p)
             /\ \A i \in 1 .. Len(u) : text[i] = u[i]
             /\ text[Len(u) + 1] = ":"
             /\ \A i \in 1 .. Len(p) : text[Len(u) + 1 + i] = p[i]
<1> DEFINE colon == <<":">>
           name  == u \o colon
           text  == name \o p
           n     == Len(u)
<1>1. n \in Nat /\ Len(p) \in Nat
  BY LenProperties
<1>2. colon \in Seq(S) /\ Len(colon) = 1 /\ colon[1] = ":"
  OBVIOUS
<1> HIDE DEF colon
<1>3. /\ name \in Seq(S) /\ Len(name) = n + 1
      /\ \A i \in 1 .. n + 1 : name[i] = IF i <= n THEN u[i] ELSE colon[i - n]
  <2>1. /\ name \in Seq(S) /\ Len(name) = n + Len(colon)
        /\ \A i \in 1 .. n + Len(colon) : name[i] = IF i <= n THEN u[i] ELSE colon[i - n]
    BY <1>2, ConcatProperties
  <2> QED BY <1>2, <2>1
<1> HIDE DEF n
<1>4. \A i \in 1 .. n : name[i] = u[i]
  BY <1>1, <1>3
<1>5. name[n + 1] = ":"
  BY <1>1, <1>2, <1>3
<1> HIDE DEF name
<1>6. /\ text \in Seq(S) /\ Len(text) = n + 1 + Len(p)
      /\ \A i \in 1 .. n + 1 + Len(p) :
            text[i] = IF i <= n + 1 THEN name[i] ELSE p[i - (n + 1)]
  <2>1. /\ text \in Seq(S) /\ Len(text) = Len(name) + Len(p)
        /\ \A i \in 1 .. Len(name) + Len(p) :
              text[i] = IF i <= Len(name) THEN name[i] ELSE p[i - Len(name)]
    BY <1>3, ConcatProperties
  <2> QED BY <1>3, <2>1
<1>7. DOMAIN text = 1 .. n + 1 + Len(p)
  BY <1>6, LenProperties
<1> HIDE DEF text
<1>8. \A i \in 1 .. n : text[i] = u[i]
  BY <1>1, <1>4, <1>6
<1>9. text[n + 1] = ":"
  BY <1>1, <1>5, <1>6
<1>10. ASSUME NEW i \in 1 .. Len(p) PROVE text[n + 1 + i] = p[i]
  <2> DEFINE j == n + 1 + i
  <2>1. j \in 1 .. n + 1 + Len(p) /\ ~(j <= n + 1) /\ j - (n + 1) = i
    BY <1>1
  <2> HIDE DEF j
  <2>2. text[j] = p[j - (n + 1)]
    BY <1>6, <2>1
  <2> QED BY <2>1, <2>2 DEF j
<1> QED BY <1>1, <1>6, <1>7, <1>8, <1>9, <1>10 DEF text, name, colon, n

\* The name ends at the first colon, so that passwords may hold colons, and names may not.
LEMMA ParsedBack ==
  ASSUME NEW c \in Credentials, ":" \notin ToSet(c.username)
  PROVE  ParseBasicAuth(BasicHeader(c)) = c
<1> DEFINE text   == c.username \o <<":">> \o c.password
           colons == {i \in DOMAIN text : text[i] = ":"}
           n == Len(c.username)
           k == Len(c.password)
           Character == STRING \union {":"}
<1>1. c = [username |-> c.username, password |-> c.password]
      /\ c.username \in Seq(Character) /\ c.password \in Seq(Character)
  BY CredentialsAssumption, SeqMonotonic
<1>0. ":" \in Character
  OBVIOUS
<1> HIDE DEF Character
<1>2. /\ text \in Seq(Character) /\ n \in Nat /\ k \in Nat /\ Len(text) = n + 1 + k
      /\ DOMAIN text = 1 .. n + 1 + k
      /\ \A i \in 1 .. n : text[i] = c.username[i]
      /\ text[n + 1] = ":"
      /\ \A i \in 1 .. k : text[n + 1 + i] = c.password[i]
  BY <1>0, <1>1, HeaderText
<1>3. BasicHeader(c).text = text /\ BasicHeader(c).scheme = "Basic"
  BY DEF BasicHeader
<1>4. \A i \in 1 .. n : c.username[i] # ":"
  BY <1>1, LenProperties DEF ToSet
<1> HIDE DEF text, n, k
<1>5. Min(colons) = n + 1 /\ colons # {}
  <2>1. n + 1 \in colons /\ colons \subseteq Nat
    BY <1>2
  <2>2. \A i \in colons : n + 1 <= i
    BY <1>2, <1>4
  <2> HIDE DEF colons
  <2>3. Min(colons) \in colons /\ \A y \in colons : Min(colons) <= y
    BY <2>1, MinFacts
  <2>4. Min(colons) <= n + 1 /\ n + 1 <= Min(colons) /\ Min(colons) \in Nat
    BY <2>1, <2>2, <2>3
  <2> QED BY <1>2, <2>1, <2>4
<1>6. SubSeq(text, 1, n) = c.username
  <2>1. 1 \in Int /\ n \in Int /\ \A i \in 1 .. n : text[i] \in Character
    BY <1>1, <1>2, ElementOfSeq DEF n
  <2>2. /\ SubSeq(text, 1, n) \in Seq(Character)
        /\ Len(SubSeq(text, 1, n)) = IF 1 <= n THEN n - 1 + 1 ELSE 0
        /\ \A i \in 1 .. n - 1 + 1 : SubSeq(text, 1, n)[i] = text[1 + i - 1]
    BY <2>1, SubSeqProperties
  <2>3. Len(SubSeq(text, 1, n)) = n /\ \A i \in 1 .. n : SubSeq(text, 1, n)[i] = c.username[i]
    BY <1>2, <2>2
  <2> QED BY <1>1, <2>2, <2>3, SeqEqual DEF n
<1>7. SubSeq(text, n + 2, Len(text)) = c.password
  <2>1. /\ n + 2 \in Int /\ n + 1 + k \in Int
        /\ \A i \in n + 2 .. n + 1 + k : text[i] \in Character
    BY <1>2, ElementOfSeq
  <2> DEFINE rest == SubSeq(text, n + 2, n + 1 + k)
  <2>2. /\ rest \in Seq(Character)
        /\ Len(rest) = IF n + 2 <= n + 1 + k THEN (n + 1 + k) - (n + 2) + 1 ELSE 0
        /\ \A i \in 1 .. (n + 1 + k) - (n + 2) + 1 : rest[i] = text[n + 2 + i - 1]
    BY <2>1, SubSeqProperties
  <2> HIDE DEF rest
  <2>3. Len(rest) = k
    BY <1>2, <2>2
  <2>4. ASSUME NEW i \in 1 .. k PROVE rest[i] = c.password[i]
    <3>1. i \in 1 .. (n + 1 + k) - (n + 2) + 1 /\ n + 2 + i - 1 = n + 1 + i
      BY <1>2
    <3> QED BY <1>2, <2>2, <3>1
  <2>5. rest = c.password
    BY <1>1, <2>2, <2>3, <2>4, SeqEqual DEF k
  <2> QED BY <1>2, <2>5 DEF rest
<1>8. {i \in DOMAIN BasicHeader(c).text : BasicHeader(c).text[i] = ":"} = colons
  BY <1>3
<1> HIDE DEF colons
<1>9. ParseBasicAuth(BasicHeader(c))
         = [username |-> SubSeq(text, 1, Min(colons) - 1),
            password |-> SubSeq(text, Min(colons) + 1, Len(text))]
  BY <1>3, <1>5, <1>8 DEF ParseBasicAuth
<1>10. Min(colons) - 1 = n /\ Min(colons) + 1 = n + 2
  BY <1>2, <1>5
<1> QED BY <1>1, <1>6, <1>7, <1>9, <1>10, Zenon

\* check_proxy_auth accepts the header of the repository's own connectors for the users it is
\* given and for nobody else (acl/auth.rs:11-42, http_proxy.rs:72-77).
THEOREM OwnHeadersAlwaysUnderstood == SafeSpec => []OwnHeadersUnderstood
<1>1. ASSUME NEW c \in Credentials, ":" \notin ToSet(c.username), NEW users
      PROVE  CheckProxyAuth(BasicHeader(c), users) <=> c \in ToSet(users)
  <2>1. BasicHeader(c) # None /\ c # None
    BY CredentialsAssumption
  <2>2. ParseBasicAuth(BasicHeader(c)) = c
    BY <1>1, ParsedBack
  <2> QED BY <2>1, <2>2 DEF CheckProxyAuth, VerifyCredentials, ToSet
<1>2. OwnHeadersUnderstood
  BY <1>1 DEF OwnHeadersUnderstood
<1> QED BY <1>2, PTL
=============================================================================
