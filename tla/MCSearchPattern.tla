-------------------------- MODULE MCSearchPattern --------------------------
(***************************************************************************)
(* Patterns and names for TLC: every pattern of up to MaxTokens tokens on  *)
(* every dotted name of up to MaxSegments segments.                        *)
(***************************************************************************)
EXTENDS SearchPattern

CONSTANTS a, b, TokenKinds, MaxTokens, MaxSegments

TwoNames == {a, b}
Tokens ==
    {t \in [kind : TokenKinds, names : {{}, {a}, {b}, {a, b}}] :
        /\ t.kind = "star" => t.names = {}
        /\ t.kind = "name" => t.names # {}
        /\ t.kind \in {"open", "close"} => t.names \in {{}, {b}}
        /\ t.kind = "group" => t.names = {a, b}}

UpTo(n, S)    == UNION {[1..k -> S] : k \in 1..n}
AllQueries == UpTo(MaxTokens, Tokens)
AllSymbols == UpTo(MaxSegments, TwoNames)
=============================================================================
