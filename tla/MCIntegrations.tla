--------------------------- MODULE MCIntegrations ---------------------------
(* One job of each kind on one account, one direction of a pair, a call of an *)
(* account to itself, and a combo: accounts are alike, and so are the jobs of *)
(* another account.                                                          *)
EXTENDS Integrations

CONSTANTS a1, a2

Does(kind, acct, rest) == [kind |-> kind, acct |-> acct, rest |-> rest]

Jobs ==
    {Does(k, <<a1>>, <<>>) : k \in Social \cup Post \cup {"join", "warm"}}
    \cup {Does("chat", <<a1, a2>>, <<>>), Does("call", <<a1, a2>>, <<>>),
          Does("call", <<a1, a1>>, <<>>)}
    \cup {Does("accept", <<a1>>, <<"comment", "follow">>)}

Accounts == {a1, a2}
=============================================================================
