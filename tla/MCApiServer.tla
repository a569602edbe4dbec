---------------------------- MODULE MCApiServer ----------------------------
(* A small instance of ApiServer for TLC. *)
EXTENDS ApiServer

CONSTANTS alice, bob, t1, t2, k1

\* Two spellings of an EVM address of alice, one of bob; two of a bech32 address, a Solana one.
MCSpelling == {"x", "X", "y", "b", "B", "s"}
MCLower == [a \in MCSpelling |-> CASE a = "X" -> "x" [] a = "B" -> "b" [] OTHER -> a]
MCController == [a \in MCSpelling |-> IF a \in {"x", "X"} THEN alice ELSE bob]
MCValid == ({"EVM"} \X {"x", "X", "y"}) \cup ({"BITCOIN"} \X {"b", "B"}) \cup {<<"SOLANA", "s">>}
MCSent == {<<"EVM", "x">>, <<"EVM", "X">>, <<"EVM", "y">>, <<"SOLANA", "s">>,
           <<"BITCOIN", "B">>, <<"unknown", "x">>}

\* One tenant exists with its key; the other key is issued to it or to a new tenant.
MCPrincipal == {[tenant |-> t1, role |-> "ADMIN"], [tenant |-> t2, role |-> "ADMIN"],
                [tenant |-> t1, role |-> "USER"]}
MCSeeded == [k \in ApiKey |-> IF k = k1 THEN t1 ELSE Absent]
MCSendable ==
  [op : {"revoke"}, by : MCPrincipal, key : {k1}]
    \cup [op : {"create"}, by : {[tenant |-> t1, role |-> "ADMIN"]}, key : ApiKey \ {k1}]
    \cup [op : {"tenant"}, tenant : {t2}, key : ApiKey \ {k1}]
    \cup [op : {"register"}, key : ApiKey, email : Email]
    \cup [op : {"login"}, email : Email, password : BOOLEAN]
    \cup [op : {"refresh"}, token : {2}]
=============================================================================
