----------------------------- MODULE MCProvider -----------------------------
(***************************************************************************)
(* Small instances of the provider for TLC: which directories there are,   *)
(* which files lie below them, what the calls ask for.                     *)
(***************************************************************************)
EXTENDS ProviderProps, TLC

CONSTANTS i1, i2, n1, n2, e1, e2, a, b, x, csproj, home

\* One directory "home" with everything below it.
OneDirectory == [l \in Locations |-> Sources \cup Deps]
AllHome      == [i \in Inits |-> home]

NotifyA      == [n \in Notifies |-> <<a>>]
NotifyAB     == [n \in Notifies |-> IF n = n1 THEN <<a, b>> ELSE <<a>>]
NotifyNone   == [n \in Notifies |-> <<>>]
NotifyProject == [n \in Notifies |-> <<csproj, a>>]

\* Evaluates differ in nothing but their names.
AlikeEvals == Permutations(Evals)
=============================================================================
