--------------------------- MODULE MCProfileStore ---------------------------
(***************************************************************************)
(* Small instances of ProfileStore.  Keys, users, passwords and workers    *)
(* are model values; all but the users are interchangeable.                *)
(***************************************************************************)
EXTENDS ProfileStore, TLC

CONSTANT Main    \* the user all kinds of requests are sent about

\* A second profile, so that an identify walks two: it is only enrolled, and
\* the walk begins with Main.  A verify takes a prefix of the steps of
\* unsealPassword.
SerialRequests == ({Main} \X (AllRequests \ {"verify"})) \cup (Users \X {"enroll"})

\* Bound: how many files of a profile may be unreadable at once.  Two is what a
\* drift leaves of a key and a password, or a crash beside a write in progress.
MaxBad(u) == IF u = Main THEN 2 ELSE 1
FewBad    == \A u \in Users : Cardinality({f \in DOMAIN disk : disk[f][u] = Bad}) <= MaxBad(u)

OverlapRequests == Users \X {"enroll", "verify", "delete"}

Symmetry == Permutations(Workers) \cup Permutations(Keys)
                \cup Permutations(Passwords)
=============================================================================
