---------------------------- MODULE MCProxyChain ----------------------------
(***************************************************************************)
(* Instances of ProxyChain for TLC: every single upstream, and every chain *)
(* of up to three hops, sensible or not.                                   *)
(***************************************************************************)
EXTENDS ProxyChain

\* In a chain `tls` has no effect.
ChainHop == {h \in Hop : /\ ~h.tls
                         /\ h.kind \in {"direct", "chain"} => ~h.auth}
OneHop   == {h \in Hop : /\ h.kind # "chain"
                         /\ h.kind = "direct" => ~h.auth /\ ~h.tls}

MCConfigs == [chain : {TRUE}, hops : BoundedSeq(ChainHop, MaxHops)]
             \union [chain : {FALSE}, hops : {<<h>> : h \in OneHop}]
=============================================================================
